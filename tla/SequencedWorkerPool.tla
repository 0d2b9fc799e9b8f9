-------------------------- MODULE SequencedWorkerPool --------------------------
(***************************************************************************)
(* A pool of worker threads (base/threading/sequenced_worker_pool.cc): the *)
(* posting, flushing and shutting down threads, the workers, and the three *)
(* condition variables between them.  A critical section of lock_ is one   *)
(* step; a worker that looks for work holds the lock from step to step.    *)
(***************************************************************************)
EXTENDS Integers, Sequences, FiniteSetsExt, Functions

CONSTANTS
  Client,       \* the threads that use the pool
  Main,         \* the client that constructed it
  max_threads_,
  Name,         \* names of sequence tokens
  MaxTasks,     \* bound: tasks posted
  MaxTokens,    \* bound: sequence tokens
  DeletePosts   \* deleting a task posts another, from a destructor

ASSUME PoolAssumption ==
  /\ Main \in Client
  /\ max_threads_ \in Nat \ {0}
  /\ Client \cap 1..max_threads_ = {}
  /\ MaxTasks \in Nat /\ MaxTokens \in Nat
  /\ DeletePosts \in BOOLEAN

Worker == 1..max_threads_
Behavior == {"BLOCK", "SKIP", "CONTINUE"}

VARIABLES
  tasks,           \* history: the tasks posted; the others hold indexes into it
  pending_tasks_,  \* a set of indexes, in the order of the posts
  worker,          \* where each worker is, its task and those it has to delete
  client,          \* where each client is
  duty,            \* what a thread has still to do about a wakeup or a thread
  threads_,        \* the workers that entered the pool, 1 to threads_
  thread_being_created_,
  waiting_thread_count_,
  blocking_shutdown_thread_count_,
  blocking_shutdown_pending_task_count_,
  current_sequences_,
  shutdown_called_,
  last_sequence_number_,
  named_sequence_tokens_,  \* 0 for a name not used
  holder,          \* the clients that hold a reference to the pool
  pool             \* the object: "live", "DeleteSoon" or "gone"

taskList == <<tasks, pending_tasks_, blocking_shutdown_pending_task_count_>>
inTasks == <<current_sequences_, blocking_shutdown_thread_count_>>
creation == <<threads_, thread_being_created_>>
tokens == <<last_sequence_number_, named_sequence_tokens_>>
object == <<holder, pool>>
poolVars == <<taskList, inTasks, creation, tokens, object, worker, client, duty,
              waiting_thread_count_, shutdown_called_>>

At(w, pc) == worker[w].at = pc
Waiting == {w \in Worker : At(w, "wait")}

\* lock_, which a worker keeps while it looks for work.
LockFree == \A w \in Worker : ~At(w, "look") /\ ~At(w, "drop")

PoolInit ==
  /\ tasks = <<>>
  /\ pending_tasks_ = {}
  /\ worker = [w \in Worker |-> [at |-> "none", task |-> 0, doomed |-> {}]]
  /\ client = [c \in Client |-> "idle"]
  /\ duty = [c \in Client \cup Worker |-> {}]
  /\ threads_ = 0
  /\ thread_being_created_ = FALSE
  /\ waiting_thread_count_ = 0
  /\ blocking_shutdown_thread_count_ = 0
  /\ blocking_shutdown_pending_task_count_ = 0
  /\ current_sequences_ = {}
  /\ shutdown_called_ = FALSE
  /\ last_sequence_number_ = 0
  /\ named_sequence_tokens_ = [n \in Name |-> 0]
  /\ holder = Client
  /\ pool = "live"

-----------------------------------------------------------------------------
(* Tasks and threads, decided under the lock.                               *)

IsSequenceTokenRunnable(token, sequences) ==
  token = 0 \/ token \notin sequences

\* The bug of a second thread that is started while one still starts.
HelpfulAlways(pendingTokens, sequences) ==
  /\ ~shutdown_called_
  /\ threads_ < max_threads_
  /\ waiting_thread_count_ = 0
  /\ \E token \in pendingTokens : IsSequenceTokenRunnable(token, sequences)

\* PrepareToStartAdditionalThreadIfHelpful: a thread is to be created for one
\* of the given tokens.
Helpful(pendingTokens, sequences) ==
  /\ ~shutdown_called_
  /\ ~thread_being_created_
  /\ threads_ < max_threads_
  /\ waiting_thread_count_ = 0
  /\ \E token \in pendingTokens : IsSequenceTokenRunnable(token, sequences)

Tokens(ts) == {tasks[t].token : t \in ts}

\* The bug of a shutdown that does not count the running tasks.
CanShutdownEarly ==
  /\ ~thread_being_created_
  /\ blocking_shutdown_pending_task_count_ = 0

CanShutdown ==
  /\ ~thread_being_created_
  /\ blocking_shutdown_thread_count_ = 0
  /\ blocking_shutdown_pending_task_count_ = 0

IsIdle(waiting) == pending_tasks_ = {} /\ waiting = threads_

\* ConditionVariable::Signal wakes one of the threads that wait, if any does.
SignalHasWork ==
  IF Waiting = {} THEN UNCHANGED worker
  ELSE \E w \in Waiting : worker' = [worker EXCEPT ![w].at = "woken"]

\* The same for the clients that wait at the given place.
SignalClients(from, to) ==
  LET waiting == {c \in Client : client[c] = from}
  IN  IF waiting = {} THEN UNCHANGED client
      ELSE \E c \in waiting : client' = [client EXCEPT ![c] = to]

-----------------------------------------------------------------------------
(* Clients, and tasks that run on a worker.                                 *)

CanCall(c) ==
  /\ duty[c] = {}
  /\ IF c \in Client THEN client[c] = "idle" /\ c \in holder
     ELSE At(c, "task") /\ worker[c].doomed = {}

\* A new token, or the one of a name.
GetSequenceToken(c) ==
  /\ CanCall(c)
  /\ last_sequence_number_ < MaxTokens
  /\ last_sequence_number_' = last_sequence_number_ + 1
  /\ \/ UNCHANGED named_sequence_tokens_
     \/ /\ LockFree
        /\ \E n \in Name :
             /\ named_sequence_tokens_[n] = 0
             /\ named_sequence_tokens_' =
                  [named_sequence_tokens_ EXCEPT ![n] = last_sequence_number_']
  /\ UNCHANGED <<taskList, inTasks, creation, object, worker, client, duty,
                 waiting_thread_count_, shutdown_called_>>

\* After Shutdown a post returns false, which changes nothing.
PostTask(c, token, behavior) ==
  /\ CanCall(c) /\ LockFree
  /\ ~shutdown_called_
  /\ Len(tasks) < MaxTasks
  /\ token <= last_sequence_number_
  /\ tasks' = Append(tasks, [token |-> token, behavior |-> behavior])
  /\ pending_tasks_' = pending_tasks_ \cup {Len(tasks')}
  /\ blocking_shutdown_pending_task_count_' =
       blocking_shutdown_pending_task_count_ + IF behavior = "BLOCK" THEN 1 ELSE 0
  /\ LET create == Helpful(Tokens(pending_tasks_) \cup {token}, current_sequences_)
     IN  /\ thread_being_created_' = (thread_being_created_ \/ create)
         /\ duty' = [duty EXCEPT ![c] = {IF create THEN "start" ELSE "signal"}]
  /\ UNCHANGED <<inTasks, threads_, tokens, object, worker, client,
                 waiting_thread_count_, shutdown_called_>>

\* PostTask and a worker that took a task wake a worker outside the lock.
Signal(c) ==
  /\ "signal" \in duty[c]
  /\ SignalHasWork
  /\ duty' = [duty EXCEPT ![c] = @ \ {"signal"}]
  /\ UNCHANGED <<taskList, inTasks, creation, tokens, object, client,
                 waiting_thread_count_, shutdown_called_>>

FinishStartingAdditionalThread(c) ==
  /\ duty[c] = {"start"}
  /\ c \in Worker => worker[c].doomed = {}
  /\ duty' = [duty EXCEPT ![c] = {}]
  /\ worker' = [worker EXCEPT ![threads_ + 1].at = "created"]
  /\ UNCHANGED <<taskList, inTasks, creation, tokens, object, client,
                 waiting_thread_count_, shutdown_called_>>

SignalHasWorkForTesting(c) ==
  /\ CanCall(c)
  /\ Waiting # {}
  /\ SignalHasWork
  /\ UNCHANGED <<taskList, inTasks, creation, tokens, object, client, duty,
                 waiting_thread_count_, shutdown_called_>>

\* FlushForTesting, its loop: a client that is not done waits for is_idle_cv_.
FlushForTesting(c) ==
  /\ LockFree
  /\ CanCall(c) \/ client[c] = "flush"
  /\ client' = [client EXCEPT ![c] = IF IsIdle(waiting_thread_count_)
                                     THEN "idle" ELSE "flushing"]
  /\ UNCHANGED <<taskList, inTasks, creation, tokens, object, worker, duty,
                 waiting_thread_count_, shutdown_called_>>

Shutdown ==
  /\ CanCall(Main) /\ LockFree
  /\ ~shutdown_called_
  /\ shutdown_called_' = TRUE
  /\ SignalHasWork
  /\ client' = [client EXCEPT ![Main] = IF CanShutdown THEN "down" ELSE "shutdown"]
  /\ UNCHANGED <<taskList, inTasks, creation, tokens, object, duty,
                 waiting_thread_count_>>

\* The second critical section: wait for can_shutdown_cv_ until CanShutdown.
WaitForShutdown ==
  /\ client[Main] = "shutdown" /\ LockFree
  /\ client' = [client EXCEPT ![Main] = IF CanShutdown THEN "down" ELSE "closing"]
  /\ UNCHANGED <<taskList, inTasks, creation, tokens, object, worker, duty,
                 waiting_thread_count_, shutdown_called_>>

-----------------------------------------------------------------------------
(* Workers: Inner::ThreadLoop.                                              *)

GoTo(w, pc) == worker' = [worker EXCEPT ![w].at = pc]

Enter(w) ==
  /\ At(w, "created") /\ LockFree
  /\ thread_being_created_' = FALSE
  /\ threads_' = threads_ + 1
  /\ GoTo(w, "look")
  /\ UNCHANGED <<taskList, inTasks, tokens, object, client, duty,
                 waiting_thread_count_, shutdown_called_>>

\* GetWork: the tasks whose turn it is, the first of them that may run, and
\* those before it that a shutdown drops.
Runnable ==
  {t \in pending_tasks_ :
     IsSequenceTokenRunnable(tasks[t].token, current_sequences_)}

Found == {t \in Runnable : ~shutdown_called_ \/ tasks[t].behavior = "BLOCK"}

Dropped == {t \in Runnable : Found = {} \/ t < Min(Found)} \ Found

\* GetWork finds a task and WillRunWorkerTask prepares its run.
GetWork(w) ==
  /\ At(w, "look")
  /\ Found # {}
  /\ LET t        == Min(Found)
         rest     == pending_tasks_ \ (Dropped \cup {t})
         sequence == {tasks[t].token} \ {0}
         create   == Helpful(Tokens(rest), current_sequences_ \cup sequence)
     IN  /\ pending_tasks_' = rest
         /\ blocking_shutdown_pending_task_count_' =
              blocking_shutdown_pending_task_count_
                - IF tasks[t].behavior = "BLOCK" THEN 1 ELSE 0
         /\ current_sequences_' = current_sequences_ \cup sequence
         /\ blocking_shutdown_thread_count_' =
              blocking_shutdown_thread_count_
                + IF tasks[t].behavior = "CONTINUE" THEN 0 ELSE 1
         /\ thread_being_created_' = (thread_being_created_ \/ create)
         /\ duty' = [duty EXCEPT ![w] =
                       {"signal"} \cup IF create THEN {"start"} ELSE {}]
         /\ worker' = [worker EXCEPT ![w] =
                         [at |-> "task", task |-> t, doomed |-> Dropped]]
  /\ UNCHANGED <<tasks, threads_, tokens, object, client, waiting_thread_count_,
                 shutdown_called_>>

\* delete_these_outside_lock.clear(), before the task runs.
DeleteOutsideLock(w) ==
  /\ At(w, "task")
  /\ worker[w].doomed # {} /\ "signal" \notin duty[w]
  /\ DeletePosts => LockFree
  /\ worker' = [worker EXCEPT ![w].doomed = {}]
  /\ UNCHANGED <<taskList, inTasks, creation, tokens, object, client, duty,
                 waiting_thread_count_, shutdown_called_>>

\* The task returns and is erased.
TaskDone(w) ==
  /\ At(w, "task")
  /\ duty[w] = {} /\ worker[w].doomed = {}
  /\ GoTo(w, "done")
  /\ UNCHANGED <<taskList, inTasks, creation, tokens, object, client, duty,
                 waiting_thread_count_, shutdown_called_>>

DidRunWorkerTask(w) ==
  /\ At(w, "done") /\ LockFree
  /\ blocking_shutdown_thread_count_' =
       blocking_shutdown_thread_count_
         - IF tasks[worker[w].task].behavior = "CONTINUE" THEN 0 ELSE 1
  /\ current_sequences_' = current_sequences_ \ {tasks[worker[w].task].token}
  /\ worker' = [worker EXCEPT ![w] = [@ EXCEPT !.at = "look", !.task = 0]]
  /\ UNCHANGED <<taskList, creation, tokens, object, client, duty,
                 waiting_thread_count_, shutdown_called_>>

WaitForWork(w) ==
  /\ At(w, "look")
  /\ Found = {} /\ ~shutdown_called_
  /\ waiting_thread_count_' = waiting_thread_count_ + 1
  /\ GoTo(w, "wait")
  /\ IF IsIdle(waiting_thread_count_') THEN SignalClients("flushing", "flush")
     ELSE UNCHANGED client
  /\ UNCHANGED <<taskList, inTasks, creation, tokens, object, duty, shutdown_called_>>

WakeUp(w) ==
  /\ At(w, "woken") /\ LockFree
  /\ waiting_thread_count_' = waiting_thread_count_ - 1
  /\ GoTo(w, "look")
  /\ UNCHANGED <<taskList, inTasks, creation, tokens, object, client, duty,
                 shutdown_called_>>

\* The loop ends.  What GetWork dropped is deleted with the vector, at the end
\* of the loop's body, where the lock is still held.
Break(w) ==
  /\ At(w, "look")
  /\ Found = {} /\ shutdown_called_
  /\ pending_tasks_' = pending_tasks_ \ Dropped
  /\ worker' = [worker EXCEPT ![w].at = "drop", ![w].doomed = Dropped]
  /\ UNCHANGED <<tasks, blocking_shutdown_pending_task_count_, inTasks, creation,
                 tokens, object, client, duty, waiting_thread_count_, shutdown_called_>>

\* The bug of a worker that leaves without waking the next one.
DeleteUnderLockLast(w) ==
  /\ At(w, "drop")
  /\ worker[w].doomed = {} \/ ~DeletePosts
  /\ worker' = [worker EXCEPT ![w].at = "leave", ![w].doomed = {}]
  /\ UNCHANGED <<taskList, inTasks, creation, tokens, object, client, duty,
                 waiting_thread_count_, shutdown_called_>>

\* A destructor that posts waits for the lock its own thread holds.
DeleteUnderLock(w) ==
  /\ At(w, "drop")
  /\ worker[w].doomed = {} \/ ~DeletePosts
  /\ worker' = [worker EXCEPT ![w].at = "leave", ![w].doomed = {}]
  /\ duty' = [duty EXCEPT ![w] = {"signal"}]
  /\ UNCHANGED <<taskList, inTasks, creation, tokens, object, client,
                 waiting_thread_count_, shutdown_called_>>

\* The last thing in ThreadLoop, after it passed the wakeup on.
SignalCanShutdown(w) ==
  /\ At(w, "leave") /\ duty[w] = {}
  /\ SignalClients("closing", "shutdown")
  /\ GoTo(w, "left")
  /\ UNCHANGED <<taskList, inTasks, creation, tokens, object, duty,
                 waiting_thread_count_, shutdown_called_>>

-----------------------------------------------------------------------------
(* The references to the pool.                                              *)

Refs == holder \cup {w \in Worker : worker[w].at \notin {"none", "ended"}}

\* Worker::Run drops its reference; the last one deletes the pool on the loop
\* of its constructor.
ReleaseByWorker(w) ==
  /\ At(w, "left")
  /\ GoTo(w, "ended")
  /\ pool' = IF Refs = {w} THEN "DeleteSoon" ELSE pool
  /\ UNCHANGED <<taskList, inTasks, creation, tokens, holder, client, duty,
                 waiting_thread_count_, shutdown_called_>>

\* "You must call Shutdown() before destroying the pool", as Main does.
ReleaseByClient(c) ==
  /\ c \in holder /\ duty[c] = {}
  /\ client[c] = IF c = Main THEN "down" ELSE "idle"
  /\ holder' = holder \ {c}
  /\ pool' = IF Refs = {c} THEN "gone" ELSE pool
  /\ UNCHANGED <<taskList, inTasks, creation, tokens, worker, client, duty,
                 waiting_thread_count_, shutdown_called_>>

DeleteSoon ==
  /\ pool = "DeleteSoon"
  /\ pool' = "gone"
  /\ UNCHANGED <<taskList, inTasks, creation, tokens, holder, worker, client, duty,
                 waiting_thread_count_, shutdown_called_>>

-----------------------------------------------------------------------------
\* Steps that need the lock.
Locked(w) == Enter(w) \/ DidRunWorkerTask(w) \/ WakeUp(w)

WorkerStep(w) ==
  \/ GetWork(w)
  \/ DeleteOutsideLock(w)
  \/ TaskDone(w)
  \/ WaitForWork(w)
  \/ Break(w)
  \/ DeleteUnderLock(w)
  \/ SignalCanShutdown(w)
  \/ ReleaseByWorker(w)

Duty(c) == Signal(c) \/ FinishStartingAdditionalThread(c)

PoolNext ==
  \/ \E w \in Worker : Locked(w) \/ WorkerStep(w)
  \/ \E c \in Client \cup Worker :
       \/ Duty(c)
       \/ GetSequenceToken(c)
       \/ \E token \in 0..MaxTokens, behavior \in Behavior : PostTask(c, token, behavior)
       \/ SignalHasWorkForTesting(c)
  \/ \E c \in Client : FlushForTesting(c) \/ ReleaseByClient(c)
  \/ Shutdown
  \/ WaitForShutdown
  \/ DeleteSoon

PoolSpec == PoolInit /\ [][PoolNext]_poolVars

\* Threads run, tasks return, and who waits for the lock gets it some day.
PoolFairness ==
  /\ \A w \in Worker : WF_poolVars(WorkerStep(w)) /\ SF_poolVars(Locked(w))
  /\ \A c \in Client \cup Worker : WF_poolVars(Duty(c))
  /\ \A c \in Client : SF_poolVars(client[c] = "flush" /\ FlushForTesting(c))
  /\ SF_poolVars(WaitForShutdown)
  /\ WF_poolVars(DeleteSoon)

-----------------------------------------------------------------------------
Held == {w \in Worker : worker[w].task # 0}

\* Every counter is what it counts (sequenced_worker_pool.cc:373-396), also
\* while threads are between two critical sections: a counter that is off by
\* one blocks Shutdown for ever or lets it return early.
CountersAgree ==
  /\ waiting_thread_count_ =
       Cardinality({w \in Worker : At(w, "wait") \/ At(w, "woken")})
  /\ blocking_shutdown_thread_count_ =
       Cardinality({w \in Held : tasks[worker[w].task].behavior # "CONTINUE"})
  /\ blocking_shutdown_pending_task_count_ =
       Cardinality({t \in pending_tasks_ : tasks[t].behavior = "BLOCK"})
  /\ current_sequences_ = {tasks[worker[w].task].token : w \in Held} \ {0}
  /\ Cardinality({c \in Client \cup Worker : "start" \in duty[c]}
                   \cup {w \in Worker : At(w, "created")})
       = IF thread_being_created_ THEN 1 ELSE 0

\* "deleting a task that's supposed to run after one that's currently running
\* could cause an obscure crash" (sequenced_worker_pool.cc:729-732).
DeletedInTurn ==
  \A w, v \in Worker : \A t \in worker[w].doomed :
    (At(v, "task") /\ tasks[t].token # 0
       /\ tasks[worker[v].task].token = tasks[t].token) => t < worker[v].task

\* Nobody is inside the pool when it is deleted, and ~Inner joins threads that
\* end (sequenced_worker_pool.cc:456-468, 911-920).
DeletedAlone ==
  pool # "live" =>
    /\ shutdown_called_
    /\ \A w \in Worker : At(w, "none") \/ At(w, "ended")
    /\ \A c \in Client : client[c] \in {"idle", "down"} /\ duty[c] = {}

\* What the lock protects, and what is deleted.
PoolSafe == CountersAgree /\ DeletedInTurn /\ DeletedAlone

Promise == INSTANCE SequencedTasks
  WITH pending <- pending_tasks_,
       running <- {worker[w].task : w \in {v \in Worker : At(v, "task")}},
       phase   <- IF client[Main] = "down" THEN "closed"
                  ELSE IF shutdown_called_ THEN "closing" ELSE "open"

\* "All tasks with the same token are guaranteed to execute serially", in the
\* order of their posts, and Shutdown returns when no task it must wait for is
\* left (sequenced_worker_pool.h:33-48, 65-108).
ImplementsSequencedTasks == Promise!Safety

\* "We really want to delete these tasks outside the lock in case the closures
\* are holding refs to objects that want to post work from their destructorss
\* (which would deadlock)" (sequenced_worker_pool.cc:734-736).
DeletesOutsideLock ==
  \A w \in Worker : worker[w].doomed # {} => ~At(w, "drop")

\* A task that was posted is run to its end or dropped by a shutdown: no lost
\* wakeup and no missing thread leaves it in the list.
TasksSettle ==
  \A t \in 1..MaxTasks :
    []<>(t \notin pending_tasks_ /\ \A w \in Worker : worker[w].task # t)

\* Shutdown returns (sequenced_worker_pool.cc:547-584), although the workers are
\* woken one by the other and signal its condition variable only once; so does
\* FlushForTesting (537-541), to a client that is the only one: Signal would
\* wake one of several; and a pool that was shut down and that the
\* clients let go of is deleted.
CallsReturn ==
  /\ []<>(shutdown_called_ => client[Main] = "down")
  /\ Client = {Main} => []<>(client[Main] # "flushing")
  /\ []<>(shutdown_called_ /\ holder = {} => pool = "gone")

\* What a user of the pool waits for comes.
PoolLive == TasksSettle /\ CallsReturn
=============================================================================
