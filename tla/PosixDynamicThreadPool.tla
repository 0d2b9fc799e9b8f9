------------------------ MODULE PosixDynamicThreadPool ------------------------
(***************************************************************************)
(* The pool behind WorkerPool on POSIX (threading/worker_pool_posix.cc):   *)
(* a task is left to an idle thread if there are enough of them, and a new *)
(* thread is created otherwise.  The threads wait for work on a condition  *)
(* variable and exit if there is none.  Every step is under the lock.      *)
(***************************************************************************)
EXTENDS Integers, Sequences, FiniteSets

CONSTANT MaxPoolTasks  \* bound: tasks posted

ASSUME DynamicPoolAssumption == MaxPoolTasks \in Nat

VARIABLES
  pending_dynamic_,  \* pending_tasks_
  num_idle_threads_,
  terminated_,
  worker_thread,  \* per thread where it is; the n-th task creates thread n
  tasks_begun     \* history: the tasks that workers took, in order

dynamicVars == <<pending_dynamic_, num_idle_threads_, terminated_, worker_thread,
                 tasks_begun>>

PoolThread == 1..MaxPoolTasks

DynamicInit ==
  /\ pending_dynamic_ = <<>>
  /\ num_idle_threads_ = 0
  /\ terminated_ = FALSE
  /\ worker_thread = [w \in PoolThread |-> "none"]
  /\ tasks_begun = <<>>

ThreadIn(at) == {w \in PoolThread : worker_thread[w] = at}
Becomes(w, at) == worker_thread' = [worker_thread EXCEPT ![w] = at]
NumPosted == Len(pending_dynamic_) + Len(tasks_begun)

\* The condition variable wakes one of the threads that wait, if there are any.
SignalOne ==
  IF ThreadIn("wait") = {} THEN worker_thread' = worker_thread
  ELSE \E w \in ThreadIn("wait") : Becomes(w, "woken")

\* The bug of a pool that counts an idle thread for several tasks.
AnyIdle == num_idle_threads_ > 0

EnoughIdle == num_idle_threads_ >= Len(pending_dynamic_')

\* The contract: no tasks after Terminate.
AddTask ==
  /\ ~terminated_
  /\ NumPosted < MaxPoolTasks
  /\ pending_dynamic_' = Append(pending_dynamic_, NumPosted + 1)
  /\ IF EnoughIdle THEN SignalOne ELSE Becomes(NumPosted + 1, "start")
  /\ UNCHANGED <<num_idle_threads_, terminated_, tasks_begun>>

TakeTask(w) ==
  /\ pending_dynamic_' = Tail(pending_dynamic_)
  /\ tasks_begun' = Append(tasks_begun, Head(pending_dynamic_))
  /\ Becomes(w, "run")

\* A thread asks for a task, for the first time or after it ran one.
WaitForTask(w) ==
  /\ worker_thread[w] = "start"
  /\ \/ /\ terminated_
        /\ Becomes(w, "exit")
        /\ UNCHANGED <<pending_dynamic_, tasks_begun, num_idle_threads_>>
     \/ /\ ~terminated_ /\ pending_dynamic_ # <<>>
        /\ TakeTask(w)
        /\ UNCHANGED num_idle_threads_
     \/ /\ ~terminated_ /\ pending_dynamic_ = <<>>
        /\ num_idle_threads_' = num_idle_threads_ + 1
        /\ Becomes(w, "wait")
        /\ UNCHANGED <<pending_dynamic_, tasks_begun>>
  /\ UNCHANGED terminated_

\* TimedWait is over after ten minutes, or for no reason at all; the thread
\* still has to get the lock.
WaitIsOver(w) ==
  /\ worker_thread[w] = "wait"
  /\ Becomes(w, "woken")
  /\ UNCHANGED <<pending_dynamic_, num_idle_threads_, terminated_, tasks_begun>>

\* Another thread may have taken the task this one was woken for.
Resume(w) ==
  /\ worker_thread[w] = "woken"
  /\ num_idle_threads_' = num_idle_threads_ - 1
  /\ \/ pending_dynamic_ # <<>> /\ TakeTask(w)
     \/ /\ pending_dynamic_ = <<>>
        /\ Becomes(w, "exit")
        /\ UNCHANGED <<pending_dynamic_, tasks_begun>>
  /\ UNCHANGED terminated_

TaskReturns(w) ==
  /\ worker_thread[w] = "run"
  /\ Becomes(w, "start")
  /\ UNCHANGED <<pending_dynamic_, num_idle_threads_, terminated_, tasks_begun>>

Terminate ==
  /\ ~terminated_
  /\ terminated_' = TRUE
  /\ worker_thread' = [w \in PoolThread |->
       IF worker_thread[w] = "wait" THEN "woken" ELSE worker_thread[w]]
  /\ UNCHANGED <<pending_dynamic_, num_idle_threads_, tasks_begun>>

DynamicNext ==
  \/ AddTask
  \/ Terminate
  \/ \E w \in PoolThread :
       WaitForTask(w) \/ WaitIsOver(w) \/ Resume(w) \/ TaskReturns(w)

DynamicSpec == DynamicInit /\ [][DynamicNext]_dynamicVars

\* Threads run, but a task may never return.
DynamicFairness ==
  \A w \in PoolThread : WF_dynamicVars(WaitForTask(w) \/ Resume(w))

-----------------------------------------------------------------------------
(* Properties.                                                              *)

\* There is a thread that is not busy for every task, counting the ones that
\* were woken or timed out and do not know yet what they will find.
EnoughWorkers ==
  ~terminated_ =>
    Len(pending_dynamic_) <= Cardinality(ThreadIn("start") \cup ThreadIn("wait")
                                         \cup ThreadIn("woken"))

\* That, and tasks are begun in the order of the posts: what a state can break.
DynamicPoolSafe ==
  EnoughWorkers /\ tasks_begun = [i \in 1..Len(tasks_begun) |-> i]

\* Tasks that never return keep no other task from its thread: a wake-up that
\* comes when nobody waits, goes to a thread that finds its task taken, or races
\* with a timeout is made up for, and every task is begun unless the pool is
\* terminated, in the order of the posts.
EveryTaskBegins ==
  /\ [](EnoughWorkers /\ tasks_begun = [i \in 1..Len(tasks_begun) |-> i])
  /\ \A i \in PoolThread :
       []<>(NumPosted >= i => Len(tasks_begun) >= i \/ terminated_)
=============================================================================
