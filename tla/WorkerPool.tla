------------------------------- MODULE WorkerPool -------------------------------
(***************************************************************************)
(* class AsynchTaskScheduler of csrc/turing_asynch_scheduler.hpp, and class *)
(* ThreadPool of csrc/turing_threadpool.hpp, which is the same loop without *)
(* the counter of active tasks, with the threads that use them.             *)
(*                                                                         *)
(* A block that holds the mutex contains no other blocking call than the   *)
(* wait of a condition variable, so it is one step.  A notification is a   *)
(* step of its own, because the code notifies after it has unlocked.  A    *)
(* thread in a wait is "asleep" until it is notified or wakes up without a *)
(* reason; then it evaluates its predicate again under the mutex.          *)
(*                                                                         *)
(* A caller submits tasks and waits for all it submitted through their     *)
(* futures, which is parallel_for, or for everything, which is wait_all.   *)
(* A task may submit further tasks from the worker that runs it (Spawns).  *)
(***************************************************************************)
EXTENDS Integers, FiniteSets, Sequences

CONSTANTS
  Workers,    (* the worker threads                                      *)
  Callers,    (* the threads that use the pool                           *)
  Owner,      (* the caller that destroys it                             *)
  Tasks,
  Roots,      (* [Callers -> SUBSET Tasks]: what a caller submits        *)
  Spawns,     (* [Tasks -> SUBSET Tasks]: what a task submits            *)
  NoTask

ASSUME PoolAssumption ==
  /\ IsFiniteSet(Workers) /\ Workers # {}
  /\ Owner \in Callers
  /\ Roots \in [Callers -> SUBSET Tasks]
  /\ Spawns \in [Tasks -> SUBSET Tasks]
  /\ NoTask \notin Tasks

VARIABLES
  tasks,      (* tasks_, the queue                                       *)
  active,     (* active_tasks_                                           *)
  stop,       (* stop_                                                   *)
  status,     (* of each task: "new", "queued", "running", or "done"     *)
              (* when its future is ready                                *)
  worker,     (* where each worker is                                    *)
  holds,      (* the task each worker runs                               *)
  caller,     (* where each caller is                                    *)
  due         (* what was accepted and not done when a caller last       *)
              (* called wait_all; it records, and guards nothing         *)

vars == <<tasks, active, stop, status, worker, holds, caller, due>>

-----------------------------------------------------------------------------
PoolInit ==
  /\ tasks = <<>>
  /\ active = 0
  /\ stop = FALSE
  /\ status = [t \in Tasks |-> "new"]
  /\ worker = [w \in Workers |-> "loop"]
  /\ holds = [w \in Workers |-> NoTask]
  /\ caller = [c \in Callers |-> "free"]
  /\ due = [c \in Callers |-> {}]

Asleep == {w \in Workers : worker[w] = "asleep"}

(* Mutant: nobody is notified.                                             *)
WakesNobody(states) == {states}

(* notify_one(): the workers' states after it, one of the sleepers woken.  *)
WakesOne(states) ==
  IF Asleep = {} THEN {states} ELSE {[states EXCEPT ![w] = "loop"] : w \in Asleep}

(* Mutant: wait_all looks at the queue only.                               *)
QueueIsEmpty == tasks = <<>>

(* The predicate of wait_all.                                              *)
Idle == tasks = <<>> /\ active = 0

Push(t) ==
  /\ status[t] = "new"
  /\ status' = [status EXCEPT ![t] = "queued"]
  /\ tasks' = Append(tasks, t)

(* A caller may use the pool until its destructor is called.               *)
MayCall(c) == caller[c] = "free" /\ ~stop

(* schedule_task(), enqueue(): push under the mutex, notify_one after it.  *)
Schedule(c, t) ==
  /\ MayCall(c)
  /\ t \in Roots[c]
  /\ Push(t)
  /\ caller' = [caller EXCEPT ![c] = "notify"]
  /\ UNCHANGED <<active, stop, worker, holds, due>>

NotifyOne(c) ==
  /\ caller[c] = "notify"
  /\ caller' = [caller EXCEPT ![c] = "free"]
  /\ worker' \in WakesOne(worker)
  /\ UNCHANGED <<tasks, active, stop, status, holds, due>>

(* parallel_for(): what it submitted is submitted, and it waits for the    *)
(* futures one after the other.                                            *)
AwaitFutures(c) ==
  /\ MayCall(c)
  /\ \A t \in Roots[c] : status[t] # "new"
  /\ caller' = [caller EXCEPT ![c] = "futures"]
  /\ UNCHANGED <<tasks, active, stop, status, worker, holds, due>>

FuturesReady(c) ==
  /\ caller[c] = "futures"
  /\ \A t \in Roots[c] : status[t] = "done"
  /\ caller' = [caller EXCEPT ![c] = "free"]
  /\ UNCHANGED <<tasks, active, stop, status, worker, holds, due>>

(* wait_all(): the predicate is evaluated at once, and after each wake-up. *)
WaitAll(c) ==
  /\ MayCall(c)
  /\ caller' = [caller EXCEPT ![c] = "check"]
  /\ due' = [due EXCEPT ![c] = {t \in Tasks : status[t] \in {"queued", "running"}}]
  /\ UNCHANGED <<tasks, active, stop, status, worker, holds>>

CheckIdle(c) ==
  /\ caller[c] = "check"
  /\ caller' = [caller EXCEPT ![c] = IF Idle THEN "free" ELSE "asleep"]
  /\ UNCHANGED <<tasks, active, stop, status, worker, holds, due>>

(* The destructor.  The other callers have left the pool by then.          *)
Destroy ==
  /\ ~stop
  /\ \A c \in Callers : caller[c] = "free"
  /\ stop' = TRUE
  /\ caller' = [caller EXCEPT ![Owner] = "closing"]
  /\ UNCHANGED <<tasks, active, status, worker, holds, due>>

NotifyWorkers ==
  /\ caller[Owner] = "closing"
  /\ caller' = [caller EXCEPT ![Owner] = "joining"]
  /\ worker' = [w \in Workers |-> IF w \in Asleep THEN "loop" ELSE worker[w]]
  /\ UNCHANGED <<tasks, active, stop, status, holds, due>>

Joined ==
  /\ caller[Owner] = "joining"
  /\ \A w \in Workers : worker[w] = "gone"
  /\ caller' = [caller EXCEPT ![Owner] = "gone"]
  /\ UNCHANGED <<tasks, active, stop, status, worker, holds, due>>

-----------------------------------------------------------------------------
(* A worker has the mutex at the top of its loop.                          *)
Take(w) ==
  /\ worker[w] = "loop"
  /\ tasks # <<>>
  /\ tasks' = Tail(tasks)
  /\ active' = active + 1
  /\ status' = [status EXCEPT ![Head(tasks)] = "running"]
  /\ holds' = [holds EXCEPT ![w] = Head(tasks)]
  /\ worker' = [worker EXCEPT ![w] = "running"]
  /\ UNCHANGED <<stop, caller, due>>

FallAsleep(w) ==
  /\ worker[w] = "loop"
  /\ tasks = <<>>
  /\ ~stop
  /\ worker' = [worker EXCEPT ![w] = "asleep"]
  /\ UNCHANGED <<tasks, active, stop, status, holds, caller, due>>

(* Mutant: a stopped pool drops what is queued.                            *)
MayLeaveAtOnce == stop

MayLeave == stop /\ tasks = <<>>

Leave(w) ==
  /\ worker[w] = "loop"
  /\ MayLeave
  /\ worker' = [worker EXCEPT ![w] = "gone"]
  /\ UNCHANGED <<tasks, active, stop, status, holds, caller, due>>

WakeUp(w) ==
  /\ worker[w] = "asleep"
  /\ worker' = [worker EXCEPT ![w] = "loop"]
  /\ UNCHANGED <<tasks, active, stop, status, holds, caller, due>>

CallerWakesUp(c) ==
  /\ caller[c] = "asleep"
  /\ caller' = [caller EXCEPT ![c] = "check"]
  /\ UNCHANGED <<tasks, active, stop, status, worker, holds, due>>

(* task(): what it still has to submit.                                    *)
Unsubmitted(t) == {u \in Spawns[t] : status[u] = "new"}

Spawn(w) ==
  /\ worker[w] = "running"
  /\ ~stop
  /\ \E u \in Unsubmitted(holds[w]) : Push(u)
  /\ worker' = [worker EXCEPT ![w] = "notifying"]
  /\ UNCHANGED <<active, stop, holds, caller, due>>

NotifySpawned(w) ==
  /\ worker[w] = "notifying"
  /\ worker' \in WakesOne([worker EXCEPT ![w] = "running"])
  /\ UNCHANGED <<tasks, active, stop, status, holds, caller, due>>

(* task() returns, or submits to a stopped pool and throws: in both cases  *)
(* the packaged_task makes the future ready.                               *)
Return(w) ==
  /\ worker[w] = "running"
  /\ Unsubmitted(holds[w]) = {} \/ stop
  /\ status' = [status EXCEPT ![holds[w]] = "done"]
  /\ worker' = [worker EXCEPT ![w] = "counting"]
  /\ holds' = [holds EXCEPT ![w] = NoTask]
  /\ UNCHANGED <<tasks, active, stop, caller, due>>

(* Mutant: the last task to end notifies nobody.                           *)
CountSilently(w) ==
  /\ worker[w] = "counting"
  /\ active' = active - 1
  /\ worker' = [worker EXCEPT ![w] = "loop"]
  /\ UNCHANGED <<tasks, stop, status, holds, caller, due>>

(* The counter and done_cv_.notify_all(), under the mutex.                 *)
Count(w) ==
  /\ worker[w] = "counting"
  /\ active' = active - 1
  /\ caller' = [c \in Callers |-> IF caller[c] = "asleep" THEN "check" ELSE caller[c]]
  /\ worker' = [worker EXCEPT ![w] = "loop"]
  /\ UNCHANGED <<tasks, stop, status, holds, due>>

-----------------------------------------------------------------------------
WorkerStep(w) ==
  \/ Take(w)
  \/ FallAsleep(w)
  \/ Leave(w)
  \/ Spawn(w)
  \/ NotifySpawned(w)
  \/ Return(w)
  \/ Count(w)

CallerStep(c) == NotifyOne(c) \/ FuturesReady(c) \/ CheckIdle(c)

OwnerStep == NotifyWorkers \/ Joined

PoolNext ==
  \/ \E w \in Workers : WorkerStep(w) \/ WakeUp(w)
  \/ \E c \in Callers : CallerStep(c) \/ AwaitFutures(c) \/ WaitAll(c) \/ CallerWakesUp(c)
  \/ \E c \in Callers, t \in Tasks : Schedule(c, t)
  \/ Destroy
  \/ OwnerStep

PoolSpec == PoolInit /\ [][PoolNext]_vars

(* The operating system runs every thread that can run, and a task ends.   *)
(* Nobody has to call the pool or to destroy it, and nothing has to wake   *)
(* up without a reason.                                                    *)
PoolFairness ==
  /\ \A w \in Workers : WF_vars(WorkerStep(w))
  /\ \A c \in Callers : WF_vars(CallerStep(c))
  /\ WF_vars(OwnerStep)

FairPoolSpec == PoolSpec /\ PoolFairness

-----------------------------------------------------------------------------
(* The variables hold what the members and the threads can hold.           *)
PoolTypeOK ==
  /\ tasks \in Seq(Tasks)
  /\ active \in Nat
  /\ stop \in BOOLEAN
  /\ status \in [Tasks -> {"new", "queued", "running", "done"}]
  /\ worker \in [Workers -> {"loop", "asleep", "running", "notifying", "counting", "gone"}]
  /\ holds \in [Workers -> Tasks \cup {NoTask}]
  /\ caller \in [Callers -> {"free", "notify", "futures", "check", "asleep",
                             "closing", "joining", "gone"}]
  /\ due \in [Callers -> SUBSET Tasks]

(* No wake-up is lost: whenever a task is queued, a worker is awake, or a  *)
(* thread is about to notify one (wait on cv_, notify_one of schedule_task *)
(* and of enqueue, with the push and the notification in two steps).       *)
QueuedWorkIsSeen ==
  tasks # <<>> =>
    \/ \E w \in Workers : worker[w] \in {"loop", "running", "notifying", "counting"}
    \/ \E c \in Callers : caller[c] = "notify"

(* A caller asleep in wait_all has a worker that will notify it: it does   *)
(* not sleep on when the last task has been counted out.                   *)
WaitersAreSeen ==
  (\E c \in Callers : caller[c] = "asleep") => ~(tasks = <<>> /\ active = 0)

(* Neither a worker nor a caller sleeps on when there is something for it  *)
(* (the two condition variables, and notifications after the unlock).      *)
SleepersAreSeen == QueuedWorkIsSeen /\ WaitersAreSeen

(* wait_all returns only when everything that had been accepted before it  *)
(* was called has run, and what those tasks submitted too: nothing is      *)
(* queued and no worker is inside a task at that moment.                   *)
WaitAllMeansDone ==
  [][\A c \in Callers :
       caller[c] = "check" /\ caller'[c] = "free" =>
         /\ \A t \in due[c] : status[t] = "done"
         /\ \A t \in Tasks : status[t] \notin {"queued", "running"}]_vars

(* What the pool promises.                                                 *)
Pool == INSTANCE Executor WITH
  accepted <- {t \in Tasks : status[t] # "new"},
  finished <- {t \in Tasks : status[t] = "done"},
  closed <- caller[Owner] = "gone"

(* The pool executes every accepted task once, and its destructor returns  *)
(* only when none is left, also with tasks that submit tasks.              *)
ExecutorSpec == Pool!ExecutorSpec

(* Every call comes back: schedule_task, parallel_for, wait_all and the    *)
(* destructor.                                                             *)
CallsReturn == \A c \in Callers : caller[c] # "free" ~> caller[c] \in {"free", "gone"}
=============================================================================
