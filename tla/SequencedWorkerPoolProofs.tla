------------------------ MODULE SequencedWorkerPoolProofs ------------------------
(***************************************************************************)
(* The pool of worker threads, for any number of clients, workers, tasks   *)
(* and sequence tokens.  Its counters are what they count, also while the  *)
(* threads are between two critical sections; what a shutdown drops is     *)
(* deleted in its turn; nobody is in the pool when it is deleted; and the  *)
(* pool implements SequencedTasks.  The proof needs to know who starts the *)
(* one thread that is being created, that one worker looks for work at a   *)
(* time, that a task is in one place, and that what is dropped precedes in *)
(* its sequence what runs and what is pending.                             *)
(***************************************************************************)
EXTENDS SequencedWorkerPool, FiniteSetTheorems, WellFoundedInduction, TLAPS

-----------------------------------------------------------------------------
(* The inductive invariant.                                                  *)

Places == {"none", "created", "look", "wait", "woken", "task", "done", "drop",
           "leave", "left", "ended"}
Working == [at : Places, task : Nat, doomed : SUBSET Nat]
Posted == [token : Nat, behavior : Behavior]

PoolTyped ==
  /\ tasks \in Seq(Posted)
  /\ pending_tasks_ \in SUBSET (1..Len(tasks))
  /\ worker \in [Worker -> Working]
  /\ \A w \in Worker : /\ worker[w].task \in 0..Len(tasks)
                       /\ worker[w].doomed \subseteq 1..Len(tasks)
  /\ client \in [Client -> {"idle", "flush", "flushing", "shutdown", "closing", "down"}]
  /\ duty \in [Client \cup Worker -> SUBSET {"signal", "start"}]
  /\ threads_ \in Nat
  /\ thread_being_created_ \in BOOLEAN /\ shutdown_called_ \in BOOLEAN
  /\ last_sequence_number_ \in Nat
  /\ holder \subseteq Client /\ pool \in {"live", "DeleteSoon", "gone"}

\* A worker has a task while it runs it, others to delete when it was given them
\* under the lock, and something to signal or a thread to start on its way.
ShapeInv ==
  \A w \in Worker :
    /\ At(w, "task") \/ At(w, "done") <=> worker[w].task # 0
    /\ worker[w].doomed # {} => At(w, "task") \/ At(w, "drop")
    /\ duty[w] # {} => At(w, "task") \/ At(w, "leave")
    /\ At(w, "leave") => "start" \notin duty[w]

Starters == {c \in Client \cup Worker : "start" \in duty[c]}
Created == {w \in Worker : At(w, "created")}

\* One thread is created at a time, the next one in the order of the workers.
CreationInv ==
  /\ thread_being_created_ => \E c \in Client \cup Worker : Starters \cup Created = {c}
  /\ ~thread_being_created_ => Starters \cup Created = {}
  /\ Starters # {} => threads_ < max_threads_
  /\ \A w \in Worker : /\ w <= threads_ <=> ~(At(w, "none") \/ At(w, "created"))
                       /\ At(w, "created") => w = threads_ + 1

InLock == {w \in Worker : At(w, "look") \/ At(w, "drop")}
LockInv == \A v, w \in InLock : v = w

Idlers == {w \in Worker : At(w, "wait") \/ At(w, "woken")}
Blockers == {w \in Held : tasks[worker[w].task].behavior # "CONTINUE"}
PendingBlockers == {t \in pending_tasks_ : tasks[t].behavior = "BLOCK"}
TokenOf(w) == tasks[worker[w].task].token

CountInv ==
  /\ waiting_thread_count_ = Cardinality(Idlers)
  /\ blocking_shutdown_thread_count_ = Cardinality(Blockers)
  /\ blocking_shutdown_pending_task_count_ = Cardinality(PendingBlockers)

\* A task is in one place, and of a sequence one task at most is run.
SequenceInv ==
  /\ current_sequences_ = {TokenOf(w) : w \in Held} \ {0}
  /\ \A w \in Held : worker[w].task \notin pending_tasks_
  /\ \A v, w \in Held : v # w =>
       /\ worker[v].task # worker[w].task
       /\ TokenOf(v) = 0 \/ TokenOf(v) # TokenOf(w)

SameSequence(s, t) == tasks[s].token # 0 /\ tasks[s].token = tasks[t].token

\* What is to be deleted precedes in its sequence what runs and what is pending.
DoomedInv ==
  \A w \in Worker : \A t \in worker[w].doomed :
    /\ \A v \in Worker : At(v, "task") /\ SameSequence(t, worker[v].task)
                           => t < worker[v].task
    /\ \A p \in pending_tasks_ : SameSequence(t, p) => t < p

\* Only Main shuts down, and who let go of the pool does nothing more.
ClientInv ==
  /\ \A c \in Client : client[c] \in {"shutdown", "closing", "down"} => c = Main
  /\ shutdown_called_ <=> client[Main] \in {"shutdown", "closing", "down"}
  /\ \A c \in Client \ holder : /\ duty[c] = {}
                                /\ client[c] = IF c = Main THEN "down" ELSE "idle"
  /\ pool # "live" => /\ holder = {}
                      /\ \A w \in Worker : At(w, "none") \/ At(w, "ended")

PoolInv ==
  /\ PoolTyped /\ ShapeInv /\ CreationInv /\ LockInv
  /\ CountInv /\ SequenceInv /\ DoomedInv /\ ClientInv

-----------------------------------------------------------------------------
(* Finite sets of workers and of tasks.                                      *)

LEMMA LeastExists ==
  ASSUME NEW S \in SUBSET Nat, S # {}
  PROVE  \E m \in S : \A k \in S : m <= k
<1> DEFINE R == {ss \in Nat \X Nat : ss[1] < ss[2]}
<1>1. IsWellFoundedOn(R, Nat)
  BY NatLessThanWellFounded, Zenon DEF OpToRel
<1>2. PICK m \in S : \A k \in S : ~(<<k, m>> \in R)
  <2> HIDE DEF R
  <2> QED
    BY <1>1, WFMin
<1>3. \A k \in S : ~(k < m)
  BY <1>2
<1> QED
  BY <1>2, <1>3

LEMMA WorkersFinite ==
  /\ IsFiniteSet(Worker)
  /\ \A S : S \subseteq Worker => IsFiniteSet(S)
<1>1. IsFiniteSet(Worker)
  BY PoolAssumption, FS_Interval DEF Worker
<1> QED
  BY <1>1, FS_Subset

LEMMA OneMore ==
  ASSUME NEW S, NEW T, NEW x, IsFiniteSet(S), x \notin S, T = S \cup {x}
  PROVE  Cardinality(T) = Cardinality(S) + 1
  BY FS_AddElement

LEMMA OneLess ==
  ASSUME NEW S, NEW T, NEW x, IsFiniteSet(S), x \in S, T = S \ {x}
  PROVE  Cardinality(T) = Cardinality(S) - 1
  BY FS_RemoveElement

-----------------------------------------------------------------------------
(* What a step does to the workers.                                          *)

LEMMA WorkerTyped ==
  ASSUME PoolTyped, NEW w \in Worker
  PROVE  /\ worker[w] \in Working /\ worker[w].at \in Places
         /\ worker[w].task \in Nat /\ worker[w].task \in 0..Len(tasks)
         /\ worker[w].doomed \subseteq 1..Len(tasks) /\ Len(tasks) \in Nat
<1>1. worker[w] \in Working
  BY DEF PoolTyped
<1>2. worker[w].at \in Places /\ worker[w].task \in Nat
  BY <1>1 DEF Working
<1> QED
  BY <1>1, <1>2 DEF PoolTyped

Becomes(w, pc, t, doomed) ==
  /\ worker' \in [Worker -> Working]
  /\ worker'[w].at = pc /\ worker'[w].task = t /\ worker'[w].doomed = doomed
  /\ \A v \in Worker : v # w => worker'[v] = worker[v]

Moves(w, from, to) ==
  At(w, from) /\ Becomes(w, to, worker[w].task, worker[w].doomed)

LEMMA ChangeBecomes ==
  ASSUME PoolTyped, NEW w \in Worker, NEW r \in Working, worker' = [worker EXCEPT ![w] = r]
  PROVE  Becomes(w, r.at, r.task, r.doomed)
  BY DEF PoolTyped, Becomes

LEMMA GoToBecomes ==
  ASSUME PoolTyped, NEW w \in Worker, NEW pc \in Places, GoTo(w, pc)
  PROVE  Becomes(w, pc, worker[w].task, worker[w].doomed)
<1> DEFINE r == [worker[w] EXCEPT !.at = pc]
<1>1. /\ r \in Working /\ r.at = pc /\ r.task = worker[w].task
      /\ r.doomed = worker[w].doomed
  BY WorkerTyped DEF Working
<1>2. worker' = [worker EXCEPT ![w] = r]
  BY DEF GoTo, PoolTyped
<1> HIDE DEF r
<1> QED
  BY <1>1, <1>2, ChangeBecomes

LEMMA DropBecomes ==
  ASSUME PoolTyped, NEW w \in Worker, NEW pc \in Places, NEW D \in SUBSET Nat,
         worker' = [worker EXCEPT ![w].at = pc, ![w].doomed = D]
  PROVE  Becomes(w, pc, worker[w].task, D)
<1> DEFINE r == [[worker[w] EXCEPT !.at = pc] EXCEPT !.doomed = D]
<1>1. r \in Working /\ r.at = pc /\ r.task = worker[w].task /\ r.doomed = D
  BY WorkerTyped DEF Working
<1>2. worker' = [worker EXCEPT ![w] = r]
  BY DEF PoolTyped
<1> HIDE DEF r
<1> QED
  BY <1>1, <1>2, ChangeBecomes

LEMMA SignalFacts ==
  ASSUME PoolTyped, SignalHasWork
  PROVE  worker' = worker \/ \E w \in Worker : Moves(w, "wait", "woken")
<1>1. CASE worker' = worker
  BY <1>1
<1>2. CASE \E w \in Waiting : worker' = [worker EXCEPT ![w].at = "woken"]
  <2>1. PICK w \in Waiting : worker' = [worker EXCEPT ![w].at = "woken"]
    BY <1>2
  <2>2. w \in Worker /\ At(w, "wait") /\ "woken" \in Places
    BY DEF Waiting, Places
  <2>3. Becomes(w, "woken", worker[w].task, worker[w].doomed)
    BY <2>1, <2>2, GoToBecomes DEF GoTo
  <2> QED
    BY <2>2, <2>3 DEF Moves
<1> QED
  BY <1>1, <1>2 DEF SignalHasWork

\* The steps of a worker that take it from one place to another.
LEMMA MoveFacts ==
  ASSUME PoolTyped, NEW w \in Worker
  PROVE  /\ Enter(w) => Moves(w, "created", "look")
         /\ TaskDone(w) => Moves(w, "task", "done")
         /\ WaitForWork(w) => Moves(w, "look", "wait")
         /\ WakeUp(w) => Moves(w, "woken", "look")
         /\ SignalCanShutdown(w) => Moves(w, "leave", "left")
         /\ ReleaseByWorker(w) => Moves(w, "left", "ended")
<1>1. {"look", "done", "wait", "left", "ended"} \subseteq Places
  BY DEF Places
<1>2. \A pc \in Places : GoTo(w, pc) => Becomes(w, pc, worker[w].task, worker[w].doomed)
  BY GoToBecomes
<1>3. Enter(w) => Moves(w, "created", "look")
  BY <1>1, <1>2 DEF Enter, Moves
<1>4. TaskDone(w) => Moves(w, "task", "done")
  BY <1>1, <1>2 DEF TaskDone, Moves
<1>5. WaitForWork(w) => Moves(w, "look", "wait")
  BY <1>1, <1>2 DEF WaitForWork, Moves
<1>6. WakeUp(w) => Moves(w, "woken", "look")
  BY <1>1, <1>2 DEF WakeUp, Moves
<1>7. SignalCanShutdown(w) => Moves(w, "leave", "left")
  BY <1>1, <1>2 DEF SignalCanShutdown, Moves
<1>8. ReleaseByWorker(w) => Moves(w, "left", "ended")
  BY <1>1, <1>2 DEF ReleaseByWorker, Moves
<1> QED
  BY <1>3, <1>4, <1>5, <1>6, <1>7, <1>8

LEMMA FinishFacts ==
  ASSUME PoolTyped, NEW c \in Client \cup Worker, FinishStartingAdditionalThread(c),
         threads_ < max_threads_
  PROVE  /\ threads_ + 1 \in Worker
         /\ Becomes(threads_ + 1, "created", worker[threads_ + 1].task,
                    worker[threads_ + 1].doomed)
<1>1. threads_ + 1 \in Worker
  BY PoolAssumption DEF PoolTyped, Worker
<1>2. "created" \in Places
  BY DEF Places
<1> QED
  BY <1>1, <1>2, GoToBecomes DEF FinishStartingAdditionalThread, GoTo

\* What GetWork takes and drops.
LEMMA WorkFacts ==
  ASSUME PoolTyped
  PROVE  /\ Runnable \subseteq pending_tasks_ /\ pending_tasks_ \subseteq 1..Len(tasks)
         /\ Found \subseteq Runnable /\ Dropped \subseteq Runnable
         /\ \A t \in Runnable : tasks[t].token = 0 \/ tasks[t].token \notin current_sequences_
         /\ Found # {} => Min(Found) \in Found /\ \A t \in Found : Min(Found) <= t
         /\ \A t \in Dropped : /\ shutdown_called_ /\ tasks[t].behavior # "BLOCK"
                               /\ Found # {} => t < Min(Found)
         /\ \A t \in Runnable \ Dropped : t \in Found \/ (Found # {} /\ ~(t < Min(Found)))
<1>1. Runnable \subseteq pending_tasks_ /\ pending_tasks_ \subseteq 1..Len(tasks)
  BY DEF PoolTyped, Runnable
<1>2. Found \subseteq Runnable /\ Dropped \subseteq Runnable
  BY DEF Found, Dropped
<1>3. Found # {} => Min(Found) \in Found /\ \A t \in Found : Min(Found) <= t
  <2>1. Found \in SUBSET Nat
    BY <1>1, <1>2, WorkerTyped
  <2> SUFFICES ASSUME Found # {}
               PROVE  Min(Found) \in Found /\ \A t \in Found : Min(Found) <= t
    OBVIOUS
  <2>2. \E m \in Found : \A k \in Found : m <= k
    BY <2>1, LeastExists
  <2> QED
    BY <2>2 DEF Min
<1>4. \A t \in Runnable : tasks[t].token = 0 \/ tasks[t].token \notin current_sequences_
  BY DEF Runnable, IsSequenceTokenRunnable
<1>5. \A t \in Dropped : /\ shutdown_called_ /\ tasks[t].behavior # "BLOCK"
                         /\ Found # {} => t < Min(Found)
  BY DEF Dropped, Found
<1>6. \A t \in Runnable \ Dropped : t \in Found \/ (Found # {} /\ ~(t < Min(Found)))
  BY DEF Dropped
<1> QED
  BY <1>1, <1>2, <1>3, <1>4, <1>5, <1>6

LEMMA GetWorkFacts ==
  ASSUME PoolTyped, NEW w \in Worker, GetWork(w)
  PROVE  LET t == Min(Found)
         IN  /\ At(w, "look") /\ t \in Found /\ t \in 1..Len(tasks)
             /\ Becomes(w, "task", t, Dropped)
             /\ pending_tasks_' = pending_tasks_ \ (Dropped \cup {t})
             /\ current_sequences_' = current_sequences_ \cup ({tasks[t].token} \ {0})
<1> DEFINE t == Min(Found)
           r == [at |-> "task", task |-> t, doomed |-> Dropped]
<1>1. t \in Found /\ t \in 1..Len(tasks) /\ Dropped \subseteq 1..Len(tasks)
  BY WorkFacts DEF GetWork
<1>2. t \in Nat /\ Dropped \subseteq Nat
  BY <1>1, WorkerTyped
<1>3. worker' = [worker EXCEPT ![w] = r]
  BY DEF GetWork
<1>4. At(w, "look") /\ pending_tasks_' = pending_tasks_ \ (Dropped \cup {t})
      /\ current_sequences_' = current_sequences_ \cup ({tasks[t].token} \ {0})
  BY DEF GetWork
<1> HIDE DEF t
<1>5. r \in Working /\ r.at = "task" /\ r.task = t /\ r.doomed = Dropped
  BY <1>2 DEF Working, Places
<1> HIDE DEF r
<1>6. Becomes(w, "task", t, Dropped)
  BY <1>3, <1>5, ChangeBecomes
<1> QED
  BY <1>1, <1>4, <1>6 DEF t

LEMMA DidRunFacts ==
  ASSUME PoolTyped, NEW w \in Worker, DidRunWorkerTask(w)
  PROVE  At(w, "done") /\ Becomes(w, "look", 0, worker[w].doomed)
<1> DEFINE r == [[worker[w] EXCEPT !.at = "look"] EXCEPT !.task = 0]
<1>1. worker' = [worker EXCEPT ![w] = r]
  BY DEF DidRunWorkerTask, PoolTyped
<1>2. r \in Working /\ r.at = "look" /\ r.task = 0 /\ r.doomed = worker[w].doomed
  BY WorkerTyped DEF Working, Places
<1> HIDE DEF r
<1> QED
  BY <1>1, <1>2, ChangeBecomes DEF DidRunWorkerTask

\* The steps that take what a worker has to delete, or delete it.
LEMMA DeleteFacts ==
  ASSUME PoolTyped, NEW w \in Worker
  PROVE  /\ DeleteOutsideLock(w) => At(w, "task") /\ Becomes(w, "task", worker[w].task, {})
         /\ Break(w) => At(w, "look") /\ Becomes(w, "drop", worker[w].task, Dropped)
         /\ DeleteUnderLock(w) => At(w, "drop") /\ Becomes(w, "leave", worker[w].task, {})
<1>1. {"task", "drop", "leave"} \subseteq Places /\ {} \in SUBSET Nat
  BY DEF Places
<1>2. Dropped \in SUBSET Nat
  <2>1. Dropped \subseteq 1..Len(tasks) /\ Len(tasks) \in Nat
    BY WorkFacts, WorkerTyped
  <2> QED
    BY <2>1
<1>3. ASSUME DeleteOutsideLock(w)
      PROVE  At(w, "task") /\ Becomes(w, "task", worker[w].task, {})
  <2>1. worker' = [worker EXCEPT ![w].at = "task", ![w].doomed = {}]
    BY <1>3 DEF DeleteOutsideLock, At, PoolTyped, Working
  <2> QED
    BY <1>1, <1>3, <2>1, DropBecomes DEF DeleteOutsideLock
<1>4. ASSUME Break(w)
      PROVE  At(w, "look") /\ Becomes(w, "drop", worker[w].task, Dropped)
  BY <1>1, <1>2, <1>4, DropBecomes DEF Break
<1>5. ASSUME DeleteUnderLock(w)
      PROVE  At(w, "drop") /\ Becomes(w, "leave", worker[w].task, {})
  BY <1>1, <1>5, DropBecomes DEF DeleteUnderLock
<1> QED
  BY <1>3, <1>4, <1>5

-----------------------------------------------------------------------------
(* What of the invariant a change of one worker keeps.                       *)

KeepsWork ==
  \A v \in Worker : /\ worker'[v].task = worker[v].task
                    /\ worker'[v].doomed \subseteq worker[v].doomed
                    /\ worker'[v].at = "task" => worker[v].at = "task"

KeepsPlaces ==
  \A v \in Worker : /\ worker'[v].at = "none" <=> worker[v].at = "none"
                    /\ worker'[v].at = "created" <=> worker[v].at = "created"

TypedWorkers ==
  /\ worker \in [Worker -> Working]
  /\ \A w \in Worker : /\ worker[w].task \in 0..Len(tasks)
                       /\ worker[w].doomed \subseteq 1..Len(tasks)

LEMMA BecomesKeeps ==
  ASSUME PoolTyped, NEW w \in Worker, NEW to, NEW t, NEW D, Becomes(w, to, t, D)
  PROVE  /\ t = worker[w].task /\ D \subseteq worker[w].doomed /\ (to = "task" => At(w, "task"))
              => KeepsWork
         /\ (to = "none" <=> At(w, "none")) /\ (to = "created" <=> At(w, "created"))
              => KeepsPlaces
         /\ (to \in {"wait", "woken"} <=> At(w, "wait") \/ At(w, "woken"))
              => Idlers' = Idlers
         /\ to \in {"wait", "woken"} => Idlers' = Idlers \cup {w}
         /\ to \notin {"wait", "woken"} => Idlers' = Idlers \ {w}
         /\ to \notin {"look", "drop"} => InLock' = InLock \ {w}
         /\ InLock' \subseteq InLock \cup {w}
<1> USE DEF Becomes
<1>1. t = worker[w].task /\ D \subseteq worker[w].doomed /\ (to = "task" => At(w, "task"))
        => KeepsWork
  BY DEF KeepsWork, At
<1>2. (to = "none" <=> At(w, "none")) /\ (to = "created" <=> At(w, "created"))
        => KeepsPlaces
  BY DEF KeepsPlaces, At
<1>3. to \in {"wait", "woken"} => Idlers' = Idlers \cup {w}
  BY DEF Idlers, At
<1>4. to \notin {"wait", "woken"} => Idlers' = Idlers \ {w}
  BY DEF Idlers, At
<1>5. (to \in {"wait", "woken"} <=> At(w, "wait") \/ At(w, "woken")) => Idlers' = Idlers
  BY <1>3, <1>4 DEF Idlers
<1>6. to \notin {"look", "drop"} => InLock' = InLock \ {w}
  BY DEF InLock, At
<1>7. InLock' \subseteq InLock \cup {w}
  BY DEF InLock, At
<1> QED
  BY <1>1, <1>2, <1>3, <1>4, <1>5, <1>6, <1>7

LEMMA BecomesTyped ==
  ASSUME PoolTyped, NEW w \in Worker, NEW to, NEW t, NEW D, Becomes(w, to, t, D),
         UNCHANGED tasks, t \in 0..Len(tasks), D \subseteq 1..Len(tasks)
  PROVE  TypedWorkers'
  BY DEF Becomes, TypedWorkers, PoolTyped

\* What ShapeInv says of a worker.
Shape(w) ==
  /\ At(w, "task") \/ At(w, "done") <=> worker[w].task # 0
  /\ worker[w].doomed # {} => At(w, "task") \/ At(w, "drop")
  /\ duty[w] # {} => At(w, "task") \/ At(w, "leave")
  /\ At(w, "leave") => "start" \notin duty[w]

LEMMA BecomesShaped ==
  ASSUME PoolTyped, ShapeInv, NEW w \in Worker, NEW to, NEW t, NEW D, Becomes(w, to, t, D),
         \A v \in Worker : v # w => duty'[v] \subseteq duty[v],
         to \in {"task", "done"} <=> t # 0,
         D # {} => to \in {"task", "drop"},
         duty'[w] # {} => to \in {"task", "leave"},
         to = "leave" => "start" \notin duty'[w]
  PROVE  ShapeInv'
<1>1. ASSUME NEW v \in Worker, v # w
      PROVE  Shape(v)'
  <2>1. worker'[v] = worker[v] /\ duty'[v] \subseteq duty[v]
    BY <1>1 DEF Becomes
  <2>2. Shape(v)
    BY DEF ShapeInv, Shape
  <2> QED
    BY <2>1, <2>2 DEF Shape, At
<1>2. Shape(w)'
  BY DEF Shape, At, Becomes
<1> QED
  BY <1>1, <1>2 DEF ShapeInv, Shape

LEMMA SameShaped ==
  ASSUME ShapeInv, UNCHANGED worker, \A v \in Worker : duty'[v] \subseteq duty[v]
  PROVE  ShapeInv'
<1>1. ASSUME NEW v \in Worker
      PROVE  Shape(v)'
  <2>1. Shape(v) /\ duty'[v] \subseteq duty[v]
    BY DEF ShapeInv, Shape
  <2> QED
    BY <2>1 DEF Shape, At
<1> QED
  BY <1>1 DEF ShapeInv, Shape

\* A signal takes a worker from one place where it has nothing to another.
LEMMA SignalKeeps ==
  ASSUME PoolTyped, ShapeInv, SignalHasWork, UNCHANGED tasks,
         \A v \in Worker : duty'[v] \subseteq duty[v]
  PROVE  /\ TypedWorkers' /\ ShapeInv' /\ KeepsWork /\ KeepsPlaces
         /\ Idlers' = Idlers /\ InLock' \subseteq InLock
         /\ \A v \in Worker : At(v, "wait") => worker'[v].at \in {"wait", "woken"}
         /\ \A v \in Worker : ~At(v, "wait") => worker'[v] = worker[v]
<1>1. CASE worker' = worker
  <2>1. ShapeInv'
    BY <1>1, SameShaped
  <2>2. TypedWorkers'
    BY <1>1 DEF TypedWorkers, PoolTyped
  <2> QED
    BY <1>1, <2>1, <2>2 DEF KeepsWork, KeepsPlaces, Idlers, InLock, At
<1>2. ASSUME NEW w \in Worker, Moves(w, "wait", "woken")
      PROVE  /\ TypedWorkers' /\ ShapeInv' /\ KeepsWork /\ KeepsPlaces
             /\ Idlers' = Idlers /\ InLock' \subseteq InLock
             /\ \A v \in Worker : At(v, "wait") => worker'[v].at \in {"wait", "woken"}
             /\ \A v \in Worker : ~At(v, "wait") => worker'[v] = worker[v]
  <2>1. At(w, "wait") /\ Becomes(w, "woken", worker[w].task, worker[w].doomed)
    BY <1>2 DEF Moves
  <2>2. worker[w].task = 0 /\ worker[w].doomed = {} /\ duty'[w] = {}
    BY <2>1 DEF ShapeInv, At
  <2>3. TypedWorkers'
    BY <2>1, WorkerTyped, BecomesTyped
  <2>4. ShapeInv'
    BY <2>1, <2>2, BecomesShaped
  <2>5. KeepsWork /\ KeepsPlaces /\ Idlers' = Idlers /\ InLock' \subseteq InLock
    BY <2>1, BecomesKeeps DEF At
  <2>6. \A v \in Worker : At(v, "wait") => worker'[v].at \in {"wait", "woken"}
    BY <2>1 DEF Becomes, At
  <2>7. \A v \in Worker : ~At(v, "wait") => worker'[v] = worker[v]
    BY <2>1 DEF Becomes, At
  <2> QED
    BY <2>3, <2>4, <2>5, <2>6, <2>7
<1> QED
  BY <1>1, <1>2, SignalFacts

\* The steps that take a worker from one place to another.
LEMMA MovesKeep ==
  ASSUME PoolTyped, ShapeInv, NEW w \in Worker, NEW from, NEW to, Moves(w, from, to),
         UNCHANGED <<tasks, duty>>,
         \/ from = "created" /\ to = "look"
         \/ from = "task" /\ to = "done" /\ worker[w].doomed = {}
         \/ from = "look" /\ to = "wait"
         \/ from = "woken" /\ to = "look"
         \/ from = "leave" /\ to = "left"
         \/ from = "left" /\ to = "ended",
         duty[w] = {} \/ from \notin {"task", "leave"}
  PROVE  /\ TypedWorkers' /\ ShapeInv' /\ KeepsWork
         /\ from # "created" => KeepsPlaces
         /\ from \notin {"look", "woken"} => Idlers' = Idlers
         /\ InLock' \subseteq InLock \cup ({w} \cap {v \in Worker : to = "look"})
<1>1. At(w, from) /\ Becomes(w, to, worker[w].task, worker[w].doomed)
  BY DEF Moves
<1>2. TypedWorkers'
  BY <1>1, WorkerTyped, BecomesTyped
<1>3. Shape(w) /\ worker[w].at = from
  BY <1>1 DEF ShapeInv, Shape, At
<1>4. duty'[w] = {} /\ \A v \in Worker : duty'[v] \subseteq duty[v]
  BY <1>3 DEF Shape, At
<1>5. /\ to \in {"task", "done"} <=> worker[w].task # 0
      /\ worker[w].doomed # {} => to \in {"task", "drop"}
      /\ to # "leave"
  BY <1>3 DEF Shape, At
<1>6. ShapeInv'
  BY <1>1, <1>4, <1>5, BecomesShaped
<1>7. KeepsWork
  BY <1>1, BecomesKeeps DEF At
<1>8. ASSUME from # "created"
      PROVE  KeepsPlaces
  BY <1>1, <1>8, BecomesKeeps DEF At
<1>9. ASSUME from \notin {"look", "woken"}
      PROVE  Idlers' = Idlers
  BY <1>1, <1>9, BecomesKeeps DEF At
<1>10. InLock' \subseteq InLock \cup ({w} \cap {v \in Worker : to = "look"})
  <2>1. CASE to = "look"
    BY <1>1, <2>1, BecomesKeeps
  <2>2. CASE to # "look"
    BY <1>1, <2>2, BecomesKeeps
  <2> QED
    BY <2>1, <2>2
<1> QED
  BY <1>2, <1>6, <1>7, <1>8, <1>9, <1>10

\* The steps that give a worker another task or tasks to delete.
LEMMA GetWorkKeeps ==
  ASSUME PoolTyped, ShapeInv, NEW w \in Worker, GetWork(w)
  PROVE  TypedWorkers' /\ ShapeInv' /\ KeepsPlaces /\ Idlers' = Idlers
         /\ InLock' \subseteq InLock
<1> DEFINE t == Min(Found)
<1>1. At(w, "look") /\ t \in 1..Len(tasks) /\ Becomes(w, "task", t, Dropped)
  BY GetWorkFacts
<1>2. Dropped \subseteq 1..Len(tasks) /\ t \in 0..Len(tasks) /\ t # 0
  BY <1>1, WorkFacts, WorkerTyped
<1>3. UNCHANGED tasks /\ \A v \in Worker : v # w => duty'[v] = duty[v]
  BY DEF GetWork, PoolTyped
<1> HIDE DEF t
<1>4. TypedWorkers'
  BY <1>1, <1>2, <1>3, BecomesTyped
<1>5. ShapeInv'
  BY <1>1, <1>2, <1>3, BecomesShaped
<1>6. KeepsPlaces /\ Idlers' = Idlers /\ InLock' \subseteq InLock
  BY <1>1, BecomesKeeps DEF At
<1> QED
  BY <1>4, <1>5, <1>6

LEMMA DidRunKeeps ==
  ASSUME PoolTyped, ShapeInv, NEW w \in Worker, DidRunWorkerTask(w)
  PROVE  /\ TypedWorkers' /\ ShapeInv' /\ KeepsPlaces /\ Idlers' = Idlers
         /\ InLock' \subseteq InLock \cup {w}
         /\ worker[w].doomed = {}
<1>1. At(w, "done") /\ Becomes(w, "look", 0, worker[w].doomed)
  BY DidRunFacts
<1>2. UNCHANGED tasks /\ UNCHANGED duty
  BY DEF DidRunWorkerTask, taskList
<1>3. worker[w].doomed = {} /\ duty[w] = {}
  BY <1>1 DEF ShapeInv, At
<1>4. TypedWorkers'
  BY <1>1, <1>2, WorkerTyped, BecomesTyped
<1>5. ShapeInv'
  BY <1>1, <1>2, <1>3, BecomesShaped
<1>6. KeepsPlaces /\ Idlers' = Idlers /\ InLock' \subseteq InLock \cup {w}
  BY <1>1, BecomesKeeps DEF At
<1> QED
  BY <1>3, <1>4, <1>5, <1>6

LEMMA DeleteOutsideKeeps ==
  ASSUME PoolTyped, ShapeInv, NEW w \in Worker, DeleteOutsideLock(w)
  PROVE  TypedWorkers' /\ ShapeInv' /\ KeepsWork /\ KeepsPlaces /\ Idlers' = Idlers
         /\ InLock' \subseteq InLock
<1>1. At(w, "task") /\ Becomes(w, "task", worker[w].task, {})
  BY DeleteFacts
<1>2. UNCHANGED tasks /\ UNCHANGED duty
  BY DEF DeleteOutsideLock, taskList
<1>3. worker[w].task # 0
  BY <1>1 DEF ShapeInv
<1>4. TypedWorkers'
  BY <1>1, <1>2, WorkerTyped, BecomesTyped
<1>5. ShapeInv'
  BY <1>1, <1>2, <1>3, BecomesShaped
<1>6. KeepsWork /\ KeepsPlaces /\ Idlers' = Idlers /\ InLock' \subseteq InLock
  BY <1>1, BecomesKeeps DEF At
<1> QED
  BY <1>4, <1>5, <1>6

LEMMA BreakKeeps ==
  ASSUME PoolTyped, ShapeInv, NEW w \in Worker, Break(w)
  PROVE  /\ TypedWorkers' /\ ShapeInv' /\ KeepsPlaces /\ Idlers' = Idlers
         /\ InLock' \subseteq InLock \cup {w} /\ At(w, "look")
         /\ \A v \in Worker : /\ worker'[v].task = worker[v].task
                              /\ worker'[v].at = "task" => worker[v].at = "task"
<1>1. At(w, "look") /\ Becomes(w, "drop", worker[w].task, Dropped)
  BY DeleteFacts
<1>2. UNCHANGED tasks /\ UNCHANGED duty
  BY DEF Break, taskList
<1>3. worker[w].task = 0 /\ duty[w] = {}
  BY <1>1 DEF ShapeInv, At
<1>4. Dropped \subseteq 1..Len(tasks) /\ Len(tasks) \in Nat
  BY WorkFacts, WorkerTyped
<1>5. TypedWorkers'
  BY <1>1, <1>2, <1>4, WorkerTyped, BecomesTyped
<1>6. ShapeInv'
  BY <1>1, <1>2, <1>3, BecomesShaped
<1>7. KeepsPlaces /\ Idlers' = Idlers /\ InLock' \subseteq InLock \cup {w}
  BY <1>1, BecomesKeeps DEF At
<1>8. \A v \in Worker : /\ worker'[v].task = worker[v].task
                        /\ worker'[v].at = "task" => worker[v].at = "task"
  BY <1>1 DEF Becomes
<1> QED
  BY <1>1, <1>5, <1>6, <1>7, <1>8

LEMMA DeleteUnderKeeps ==
  ASSUME PoolTyped, ShapeInv, NEW w \in Worker, DeleteUnderLock(w)
  PROVE  /\ TypedWorkers' /\ ShapeInv' /\ KeepsWork /\ KeepsPlaces /\ Idlers' = Idlers
         /\ InLock' \subseteq InLock
         /\ \A c \in Client \cup Worker : "start" \in duty'[c] <=> "start" \in duty[c]
<1>1. At(w, "drop") /\ Becomes(w, "leave", worker[w].task, {})
  BY DeleteFacts
<1>2. UNCHANGED tasks /\ duty' = [duty EXCEPT ![w] = {"signal"}]
  BY DEF DeleteUnderLock, taskList
<1>3. worker[w].task = 0 /\ duty[w] = {}
  BY <1>1 DEF ShapeInv, At
<1>4. duty'[w] = {"signal"} /\ \A v \in Client \cup Worker : v # w => duty'[v] = duty[v]
  BY <1>2 DEF PoolTyped
<1>5. TypedWorkers'
  BY <1>1, <1>2, WorkerTyped, BecomesTyped
<1>6. ShapeInv'
  BY <1>1, <1>3, <1>4, BecomesShaped
<1>7. KeepsWork /\ KeepsPlaces /\ Idlers' = Idlers /\ InLock' \subseteq InLock
  BY <1>1, BecomesKeeps DEF At
<1>8. \A c \in Client \cup Worker : "start" \in duty'[c] <=> "start" \in duty[c]
  BY <1>3, <1>4
<1> QED
  BY <1>5, <1>6, <1>7, <1>8

\* The worker that is created is one that nobody has created yet.
LEMMA FinishKeeps ==
  ASSUME PoolTyped, ShapeInv, CreationInv, NEW c \in Client \cup Worker,
         FinishStartingAdditionalThread(c)
  PROVE  LET w == threads_ + 1
         IN  /\ w \in Worker /\ At(w, "none") /\ Moves(w, "none", "created")
             /\ Starters = {c} /\ Created = {}
             /\ TypedWorkers' /\ ShapeInv' /\ KeepsWork /\ Idlers' = Idlers
             /\ InLock' \subseteq InLock
<1> DEFINE w == threads_ + 1
<1>1. c \in Starters /\ duty' = [duty EXCEPT ![c] = {}] /\ UNCHANGED tasks
  BY DEF FinishStartingAdditionalThread, Starters, taskList
<1>2. w \in Worker /\ Becomes(w, "created", worker[w].task, worker[w].doomed)
  BY <1>1, FinishFacts DEF CreationInv
<1> HIDE DEF w
<1>3. Starters \cup Created = {c}
  <2>1. Starters \cup Created # {}
    BY <1>1
  <2> QED
    BY <1>1, <2>1 DEF CreationInv, PoolTyped
<1>4. c \notin Created
  BY <1>1 DEF Created, ShapeInv, At, Starters
<1>5. Starters = {c} /\ Created = {}
  BY <1>1, <1>3, <1>4
<1>6. At(w, "none") \/ At(w, "created")
  BY <1>2 DEF CreationInv, w, PoolTyped
<1>7. At(w, "none")
  BY <1>2, <1>5, <1>6 DEF Created
<1>8. worker[w].task = 0 /\ worker[w].doomed = {} /\ duty[w] = {}
  BY <1>2, <1>7 DEF ShapeInv, At
<1>9. \A v \in Client \cup Worker : duty'[v] \subseteq duty[v]
  BY <1>1 DEF PoolTyped
<1>10. TypedWorkers'
  BY <1>1, <1>2, WorkerTyped, BecomesTyped
<1>11. ShapeInv'
  BY <1>2, <1>8, <1>9, BecomesShaped
<1>12. KeepsWork /\ Idlers' = Idlers /\ InLock' \subseteq InLock
  BY <1>2, <1>7, BecomesKeeps DEF At
<1>13. Moves(w, "none", "created")
  BY <1>2, <1>7 DEF Moves
<1> QED
  BY <1>2, <1>5, <1>7, <1>10, <1>11, <1>12, <1>13 DEF w

LEMMA PostKeeps ==
  ASSUME PoolTyped, ShapeInv, NEW c \in Client \cup Worker,
         NEW token \in 0..MaxTokens, NEW behavior \in Behavior, PostTask(c, token, behavior)
  PROVE  /\ TypedWorkers' /\ ShapeInv' /\ UNCHANGED worker
         /\ tasks' \in Seq(Posted) /\ Len(tasks') = Len(tasks) + 1 /\ Len(tasks) \in Nat
         /\ \A t \in 1..Len(tasks) : tasks'[t] = tasks[t]
         /\ tasks'[Len(tasks) + 1] = [token |-> token, behavior |-> behavior]
         /\ pending_tasks_' = pending_tasks_ \cup {Len(tasks) + 1}
<1>1. /\ tasks' = Append(tasks, [token |-> token, behavior |-> behavior])
      /\ pending_tasks_' = pending_tasks_ \cup {Len(tasks')} /\ UNCHANGED worker
  BY DEF PostTask
<1>2. [token |-> token, behavior |-> behavior] \in Posted /\ tasks \in Seq(Posted)
  BY DEF Posted, PoolTyped
<1>3. /\ tasks' \in Seq(Posted) /\ Len(tasks') = Len(tasks) + 1 /\ Len(tasks) \in Nat
      /\ \A t \in 1..Len(tasks) : tasks'[t] = tasks[t]
      /\ tasks'[Len(tasks) + 1] = [token |-> token, behavior |-> behavior]
  BY <1>1, <1>2
<1>4. TypedWorkers'
  BY <1>1, <1>3 DEF PoolTyped, TypedWorkers
<1>5. ASSUME NEW v \in Worker
      PROVE  Shape(v)'
  <2>1. Shape(v)
    BY DEF ShapeInv, Shape
  <2>2. CASE v = c
    <3>1. At(v, "task")
      BY <2>2, PoolAssumption DEF PostTask, CanCall, Worker
    <3> QED
      BY <1>1, <2>1, <3>1 DEF Shape, At
  <2>3. CASE v # c
    <3>1. duty'[v] = duty[v]
      BY <2>3 DEF PostTask, PoolTyped
    <3> QED
      BY <1>1, <2>1, <3>1 DEF Shape, At
  <2> QED
    BY <2>2, <2>3
<1>6. ShapeInv'
  BY <1>5 DEF ShapeInv, Shape
<1> QED
  BY <1>1, <1>3, <1>4, <1>6

-----------------------------------------------------------------------------
(* One worker at a time looks for work.                                      *)

LEMMA LockKept ==
  ASSUME LockInv, InLock' \subseteq InLock
  PROVE  LockInv'
  BY DEF LockInv

LEMMA LockTaken ==
  ASSUME LockFree, NEW w, InLock' \subseteq InLock \cup {w}
  PROVE  LockInv'
  BY DEF LockFree, LockInv, InLock

LEMMA SameWorkers ==
  ASSUME PoolTyped, UNCHANGED <<tasks, worker>>
  PROVE  /\ TypedWorkers' /\ KeepsWork /\ KeepsPlaces /\ Idlers' = Idlers
         /\ InLock' \subseteq InLock
  BY DEF PoolTyped, TypedWorkers, KeepsWork, KeepsPlaces, Idlers, InLock, At

LEMMA StepShapes ==
  ASSUME PoolInv, PoolNext
  PROVE  TypedWorkers' /\ ShapeInv' /\ LockInv'
<1> USE DEF PoolInv
<1> DEFINE Good == TypedWorkers' /\ ShapeInv' /\ LockInv'
<1>1. ASSUME NEW w \in Worker, Enter(w)
      PROVE  Good
  <2>1. Moves(w, "created", "look") /\ UNCHANGED <<tasks, duty>> /\ LockFree
    BY <1>1, MoveFacts DEF Enter, taskList
  <2>2. TypedWorkers' /\ ShapeInv' /\ InLock' \subseteq InLock \cup {w}
    BY <2>1, MovesKeep
  <2> QED
    BY <2>1, <2>2, LockTaken
<1>2. ASSUME NEW w \in Worker, DidRunWorkerTask(w)
      PROVE  Good
  <2>1. LockFree
    BY <1>2 DEF DidRunWorkerTask
  <2>2. TypedWorkers' /\ ShapeInv' /\ InLock' \subseteq InLock \cup {w}
    BY <1>2, DidRunKeeps
  <2> QED
    BY <2>1, <2>2, LockTaken
<1>3. ASSUME NEW w \in Worker, WakeUp(w)
      PROVE  Good
  <2>1. Moves(w, "woken", "look") /\ UNCHANGED <<tasks, duty>> /\ LockFree
    BY <1>3, MoveFacts DEF WakeUp, taskList
  <2>2. TypedWorkers' /\ ShapeInv' /\ InLock' \subseteq InLock \cup {w}
    BY <2>1, MovesKeep
  <2> QED
    BY <2>1, <2>2, LockTaken
<1>4. ASSUME NEW w \in Worker, GetWork(w)
      PROVE  Good
  BY <1>4, GetWorkKeeps, LockKept
<1>5. ASSUME NEW w \in Worker, DeleteOutsideLock(w)
      PROVE  Good
  BY <1>5, DeleteOutsideKeeps, LockKept
<1>6. ASSUME NEW w \in Worker, TaskDone(w)
      PROVE  Good
  <2>1. Moves(w, "task", "done") /\ UNCHANGED <<tasks, duty>>
        /\ duty[w] = {} /\ worker[w].doomed = {}
    BY <1>6, MoveFacts DEF TaskDone, taskList
  <2>2. TypedWorkers' /\ ShapeInv' /\ InLock' \subseteq InLock
    BY <2>1, MovesKeep
  <2> QED
    BY <2>2, LockKept
<1>7. ASSUME NEW w \in Worker, WaitForWork(w)
      PROVE  Good
  <2>1. Moves(w, "look", "wait") /\ UNCHANGED <<tasks, duty>>
    BY <1>7, MoveFacts DEF WaitForWork, taskList
  <2>2. TypedWorkers' /\ ShapeInv' /\ InLock' \subseteq InLock
    BY <2>1, MovesKeep
  <2> QED
    BY <2>2, LockKept
<1>8. ASSUME NEW w \in Worker, Break(w)
      PROVE  Good
  <2>1. TypedWorkers' /\ ShapeInv' /\ At(w, "look") /\ InLock' \subseteq InLock \cup {w}
    BY <1>8, BreakKeeps
  <2>2. InLock' \subseteq InLock
    BY <2>1 DEF InLock
  <2> QED
    BY <2>1, <2>2, LockKept
<1>9. ASSUME NEW w \in Worker, DeleteUnderLock(w)
      PROVE  Good
  BY <1>9, DeleteUnderKeeps, LockKept
<1>10. ASSUME NEW w \in Worker, SignalCanShutdown(w)
       PROVE  Good
  <2>1. Moves(w, "leave", "left") /\ UNCHANGED <<tasks, duty>> /\ duty[w] = {}
    BY <1>10, MoveFacts DEF SignalCanShutdown, taskList
  <2>2. TypedWorkers' /\ ShapeInv' /\ InLock' \subseteq InLock
    BY <2>1, MovesKeep
  <2> QED
    BY <2>2, LockKept
<1>11. ASSUME NEW w \in Worker, ReleaseByWorker(w)
       PROVE  Good
  <2>1. Moves(w, "left", "ended") /\ UNCHANGED <<tasks, duty>>
    BY <1>11, MoveFacts DEF ReleaseByWorker, taskList
  <2>2. TypedWorkers' /\ ShapeInv' /\ InLock' \subseteq InLock
    BY <2>1, MovesKeep
  <2> QED
    BY <2>2, LockKept
<1>12. ASSUME NEW c \in Client \cup Worker, Signal(c)
       PROVE  Good
  <2>1. SignalHasWork /\ UNCHANGED tasks /\ duty' = [duty EXCEPT ![c] = @ \ {"signal"}]
    BY <1>12 DEF Signal, taskList
  <2>2. \A v \in Worker : duty'[v] \subseteq duty[v]
    BY <2>1 DEF PoolTyped
  <2> QED
    BY <2>1, <2>2, SignalKeeps, LockKept
<1>13. ASSUME NEW c \in Client \cup Worker, FinishStartingAdditionalThread(c)
       PROVE  Good
  BY <1>13, FinishKeeps, LockKept
<1>14. ASSUME NEW c \in Client \cup Worker, SignalHasWorkForTesting(c)
       PROVE  Good
  BY <1>14, SignalKeeps, LockKept DEF SignalHasWorkForTesting, taskList
<1>15. ASSUME NEW c \in Client \cup Worker, NEW token \in 0..MaxTokens,
              NEW behavior \in Behavior, PostTask(c, token, behavior)
       PROVE  Good
  <2>1. TypedWorkers' /\ ShapeInv' /\ UNCHANGED worker
    BY <1>15, PostKeeps
  <2>2. InLock' \subseteq InLock
    BY <2>1 DEF InLock, At
  <2> QED
    BY <2>1, <2>2, LockKept
<1>16. CASE Shutdown
  BY <1>16, SignalKeeps, LockKept DEF Shutdown, taskList
<1>17. ASSUME UNCHANGED <<tasks, worker, duty>>
       PROVE  Good
  BY <1>17, SameWorkers, SameShaped, LockKept
<1>18. ASSUME NEW c \in Client \cup Worker, GetSequenceToken(c)
       PROVE  Good
  BY <1>17, <1>18 DEF GetSequenceToken, taskList
<1>19. ASSUME NEW c \in Client, FlushForTesting(c) \/ ReleaseByClient(c)
       PROVE  Good
  BY <1>17, <1>19 DEF FlushForTesting, ReleaseByClient, taskList
<1>20. CASE WaitForShutdown \/ DeleteSoon
  BY <1>17, <1>20 DEF WaitForShutdown, DeleteSoon, taskList
<1>21. ASSUME NEW w \in Worker, Locked(w) \/ WorkerStep(w)
       PROVE  Good
  <2>1. CASE Locked(w)
    BY <1>1, <1>2, <1>3, <2>1 DEF Locked
  <2>2. CASE WorkerStep(w)
    BY <1>4, <1>5, <1>6, <1>7, <1>8, <1>9, <1>10, <1>11, <2>2 DEF WorkerStep
  <2> QED
    BY <1>21, <2>1, <2>2
<1>22. ASSUME NEW c \in Client \cup Worker, Duty(c)
       PROVE  Good
  BY <1>12, <1>13, <1>22 DEF Duty
<1> QED
  BY <1>14, <1>15, <1>16, <1>18, <1>19, <1>20, <1>21, <1>22 DEF PoolNext

-----------------------------------------------------------------------------
(* Types.                                                                    *)

\* A thread that is created is one more, and the only one.
MayCreate(c) ==
  \/ UNCHANGED thread_being_created_ /\ "start" \notin duty'[c]
  \/ /\ ~thread_being_created_ /\ thread_being_created_' = TRUE
     /\ threads_ < max_threads_ /\ "start" \in duty'[c]

LEMMA PostCreates ==
  ASSUME PoolTyped, NEW c \in Client \cup Worker,
         NEW token \in 0..MaxTokens, NEW behavior \in Behavior, PostTask(c, token, behavior)
  PROVE  /\ MayCreate(c) /\ duty[c] = {} /\ CanCall(c)
         /\ duty' \in [Client \cup Worker -> SUBSET {"signal", "start"}]
         /\ \A d \in Client \cup Worker : d # c => duty'[d] = duty[d]
<1> DEFINE create == Helpful(Tokens(pending_tasks_) \cup {token}, current_sequences_)
<1>1. /\ thread_being_created_' = (thread_being_created_ \/ create)
      /\ duty' = [duty EXCEPT ![c] = {IF create THEN "start" ELSE "signal"}]
      /\ CanCall(c)
  BY DEF PostTask
<1>2. create => ~thread_being_created_ /\ threads_ < max_threads_
  BY DEF Helpful
<1>3. CanCall(c) => duty[c] = {}
  BY DEF CanCall
<1> HIDE DEF create
<1>4. CASE create
  <2>1. duty' = [duty EXCEPT ![c] = {"start"}] /\ thread_being_created_' = TRUE
    BY <1>1, <1>4
  <2> QED
    BY <1>1, <1>2, <1>3, <1>4, <2>1 DEF MayCreate, PoolTyped
<1>5. CASE ~create
  <2>1. duty' = [duty EXCEPT ![c] = {"signal"}]
    BY <1>1, <1>5
  <2>2. thread_being_created_' = thread_being_created_
    BY <1>1, <1>5 DEF PoolTyped
  <2> QED
    BY <1>1, <1>2, <1>3, <2>1, <2>2 DEF MayCreate, PoolTyped
<1> QED
  BY <1>4, <1>5

LEMMA GetWorkCreates ==
  ASSUME PoolTyped, ShapeInv, NEW w \in Worker, GetWork(w)
  PROVE  /\ MayCreate(w) /\ duty[w] = {}
         /\ duty' \in [Client \cup Worker -> SUBSET {"signal", "start"}]
         /\ \A d \in Client \cup Worker : d # w => duty'[d] = duty[d]
<1> DEFINE t == Min(Found)
           rest == pending_tasks_ \ (Dropped \cup {t})
           sequence == {tasks[t].token} \ {0}
           create == Helpful(Tokens(rest), current_sequences_ \cup sequence)
<1>1. /\ thread_being_created_' = (thread_being_created_ \/ create)
      /\ duty' = [duty EXCEPT ![w] = {"signal"} \cup IF create THEN {"start"} ELSE {}]
  BY DEF GetWork
<1>2. create => ~thread_being_created_ /\ threads_ < max_threads_
  BY DEF Helpful
<1>3. duty[w] = {}
  BY DEF GetWork, ShapeInv, At
<1> HIDE DEF create
<1>4. CASE create
  <2>1. duty' = [duty EXCEPT ![w] = {"signal", "start"}] /\ thread_being_created_' = TRUE
    BY <1>1, <1>4
  <2> QED
    BY <1>1, <1>2, <1>3, <1>4, <2>1 DEF MayCreate, PoolTyped
<1>5. CASE ~create
  <2>1. duty' = [duty EXCEPT ![w] = {"signal"}]
    BY <1>1, <1>5
  <2>2. thread_being_created_' = thread_being_created_
    BY <1>1, <1>5 DEF PoolTyped
  <2> QED
    BY <1>1, <1>2, <1>3, <2>1, <2>2 DEF MayCreate, PoolTyped
<1> QED
  BY <1>4, <1>5

LEMMA ClientsTyped ==
  ASSUME PoolTyped, NEW from, NEW to \in {"flush", "shutdown"}, SignalClients(from, to)
  PROVE  /\ client' \in [Client -> {"idle", "flush", "flushing", "shutdown", "closing", "down"}]
         /\ \A c \in Client : \/ client'[c] = client[c]
                              \/ client[c] = from /\ client'[c] = to
  BY DEF PoolTyped, SignalClients

LEMMA StepTyped ==
  ASSUME PoolInv, PoolNext
  PROVE  PoolTyped'
<1> USE DEF PoolInv, taskList, inTasks, creation, tokens, object
<1> DEFINE Good == PoolTyped'
<1>0. TypedWorkers' /\ ShapeInv'
  BY StepShapes
<1>1. ASSUME NEW w \in Worker, Enter(w) \/ DidRunWorkerTask(w) \/ WakeUp(w)
      PROVE  Good
  <2>1. CASE Enter(w)
    <3>1. threads_' = threads_ + 1 /\ thread_being_created_' = FALSE
      BY <2>1 DEF Enter
    <3>2. threads_ \in Nat
      BY DEF PoolTyped
    <3>3. threads_' \in Nat
      BY <3>1, <3>2
    <3>4. thread_being_created_' \in BOOLEAN
      BY <3>1
    <3> QED
      BY <1>0, <2>1, <3>3, <3>4 DEF Enter, PoolTyped, TypedWorkers
  <2>2. CASE DidRunWorkerTask(w)
    BY <1>0, <2>2 DEF DidRunWorkerTask, PoolTyped, TypedWorkers
  <2>3. CASE WakeUp(w)
    BY <1>0, <2>3 DEF WakeUp, PoolTyped, TypedWorkers
  <2> QED
    BY <1>1, <2>1, <2>2, <2>3
<1>2. ASSUME NEW w \in Worker, GetWork(w)
      PROVE  Good
  <2>1. duty' \in [Client \cup Worker -> SUBSET {"signal", "start"}]
    BY <1>2, GetWorkCreates
  <2>2. thread_being_created_' \in BOOLEAN
    BY <1>2, GetWorkCreates DEF MayCreate, PoolTyped
  <2>3. pending_tasks_' \in SUBSET (1..Len(tasks))
    BY <1>2, GetWorkFacts DEF PoolTyped
  <2> QED
    BY <1>0, <1>2, <2>1, <2>2, <2>3 DEF GetWork, PoolTyped, TypedWorkers
<1>3. ASSUME NEW w \in Worker, DeleteOutsideLock(w) \/ TaskDone(w) \/ Break(w)
                               \/ DeleteUnderLock(w)
      PROVE  Good
  BY <1>0, <1>3 DEF DeleteOutsideLock, TaskDone, Break, DeleteUnderLock, PoolTyped, TypedWorkers
<1>4. ASSUME NEW w \in Worker, WaitForWork(w)
      PROVE  Good
  <2>1. client' \in [Client -> {"idle", "flush", "flushing", "shutdown", "closing", "down"}]
    BY <1>4, ClientsTyped DEF WaitForWork, PoolTyped
  <2> QED
    BY <1>0, <1>4, <2>1 DEF WaitForWork, PoolTyped, TypedWorkers
<1>5. ASSUME NEW w \in Worker, SignalCanShutdown(w)
      PROVE  Good
  <2>1. client' \in [Client -> {"idle", "flush", "flushing", "shutdown", "closing", "down"}]
    BY <1>5, ClientsTyped DEF SignalCanShutdown
  <2> QED
    BY <1>0, <1>5, <2>1 DEF SignalCanShutdown, PoolTyped, TypedWorkers
<1>6. ASSUME NEW w \in Worker, ReleaseByWorker(w)
      PROVE  Good
  BY <1>0, <1>6 DEF ReleaseByWorker, PoolTyped, TypedWorkers
<1>7. ASSUME NEW c \in Client \cup Worker, Duty(c)
      PROVE  Good
  BY <1>0, <1>7 DEF Duty, Signal, FinishStartingAdditionalThread, PoolTyped, TypedWorkers
<1>8. ASSUME NEW c \in Client \cup Worker, NEW token \in 0..MaxTokens,
             NEW behavior \in Behavior, PostTask(c, token, behavior)
      PROVE  Good
  <2>1. duty' \in [Client \cup Worker -> SUBSET {"signal", "start"}]
    BY <1>8, PostCreates
  <2>2. thread_being_created_' \in BOOLEAN
    BY <1>8, PostCreates DEF MayCreate, PoolTyped
  <2>3. /\ tasks' \in Seq(Posted) /\ Len(tasks') = Len(tasks) + 1 /\ Len(tasks) \in Nat
        /\ pending_tasks_' = pending_tasks_ \cup {Len(tasks) + 1}
    BY <1>8, PostKeeps
  <2>4. pending_tasks_' \in SUBSET (1..Len(tasks'))
    <3>1. \A n \in Nat : \A S : S \subseteq 1..n => S \cup {n + 1} \subseteq 1..(n + 1)
      OBVIOUS
    <3>2. pending_tasks_ \subseteq 1..Len(tasks)
      BY DEF PoolTyped
    <3>3. pending_tasks_ \cup {Len(tasks) + 1} \subseteq 1..(Len(tasks) + 1)
      BY <2>3, <3>1, <3>2
    <3> QED
      BY <2>3, <3>3
  <2> QED
    BY <1>0, <1>8, <2>1, <2>2, <2>3, <2>4 DEF PostTask, PoolTyped, TypedWorkers
<1>9. ASSUME NEW c \in Client \cup Worker, GetSequenceToken(c) \/ SignalHasWorkForTesting(c)
      PROVE  Good
  <2>1. CASE GetSequenceToken(c)
    BY <1>0, <2>1 DEF GetSequenceToken, PoolTyped, TypedWorkers
  <2>2. CASE SignalHasWorkForTesting(c)
    BY <1>0, <2>2 DEF SignalHasWorkForTesting, PoolTyped, TypedWorkers
  <2> QED
    BY <1>9, <2>1, <2>2
<1>10. ASSUME NEW c \in Client, FlushForTesting(c) \/ ReleaseByClient(c)
       PROVE  Good
  BY <1>0, <1>10 DEF FlushForTesting, ReleaseByClient, PoolTyped, TypedWorkers
<1>11. CASE Shutdown \/ WaitForShutdown \/ DeleteSoon
  BY <1>0, <1>11, PoolAssumption
     DEF Shutdown, WaitForShutdown, DeleteSoon, PoolTyped, TypedWorkers
<1>12. ASSUME NEW w \in Worker, Locked(w) \/ WorkerStep(w)
       PROVE  Good
  BY <1>1, <1>2, <1>3, <1>4, <1>5, <1>6, <1>12 DEF Locked, WorkerStep
<1> QED
  BY <1>7, <1>8, <1>9, <1>10, <1>11, <1>12 DEF PoolNext

-----------------------------------------------------------------------------
(* One thread at a time is created.                                          *)

LEMMA CreationKept ==
  ASSUME PoolTyped, CreationInv, KeepsPlaces, UNCHANGED <<threads_, thread_being_created_>>,
         \A c \in Client \cup Worker : "start" \in duty'[c] <=> "start" \in duty[c]
  PROVE  CreationInv'
<1>1. Starters' = Starters /\ Created' = Created
  BY DEF KeepsPlaces, Starters, Created, At
<1>2. \A w \in Worker : /\ At(w, "none")' <=> At(w, "none")
                        /\ At(w, "created")' <=> At(w, "created")
  BY DEF KeepsPlaces, At
<1> QED
  BY <1>1, <1>2 DEF CreationInv

LEMMA CreationBegins ==
  ASSUME PoolTyped, CreationInv, KeepsPlaces, UNCHANGED threads_,
         NEW c \in Client \cup Worker, MayCreate(c), duty[c] = {},
         \A d \in Client \cup Worker : d # c => duty'[d] = duty[d]
  PROVE  CreationInv'
<1>1. CASE UNCHANGED thread_being_created_ /\ "start" \notin duty'[c]
  BY <1>1, CreationKept
<1>2. CASE /\ ~thread_being_created_ /\ thread_being_created_' = TRUE
           /\ threads_ < max_threads_ /\ "start" \in duty'[c]
  <2>1. Starters = {} /\ Created = {}
    BY <1>2 DEF CreationInv
  <2>2. Starters' = {c}
    <3>1. \A d \in Client \cup Worker : d # c => "start" \notin duty'[d]
      BY <2>1 DEF Starters
    <3> QED
      BY <1>2, <3>1 DEF Starters
  <2>3. Created' = {}
    BY <2>1 DEF KeepsPlaces, Created, At
  <2>4. \A w \in Worker : /\ At(w, "none")' <=> At(w, "none")
                          /\ At(w, "created")' <=> At(w, "created")
    BY DEF KeepsPlaces, At
  <2>5. Starters' \cup Created' = {c}
    BY <2>2, <2>3
  <2> QED
    BY <1>2, <2>4, <2>5 DEF CreationInv
<1> QED
  BY <1>1, <1>2 DEF MayCreate

LEMMA FinishCreates ==
  ASSUME PoolTyped, ShapeInv, CreationInv, NEW c \in Client \cup Worker,
         FinishStartingAdditionalThread(c)
  PROVE  CreationInv'
<1> DEFINE w == threads_ + 1
<1>1. w \in Worker /\ At(w, "none") /\ Moves(w, "none", "created")
      /\ Starters = {c} /\ Created = {}
  BY FinishKeeps
<1>2. UNCHANGED <<threads_, thread_being_created_>> /\ duty' = [duty EXCEPT ![c] = {}]
  BY DEF FinishStartingAdditionalThread, creation
<1>3. thread_being_created_
  BY <1>1 DEF CreationInv
<1> HIDE DEF w
<1>4. worker'[w].at = "created" /\ \A v \in Worker : v # w => worker'[v] = worker[v]
  BY <1>1 DEF Moves, Becomes
<1>5. Starters' = {}
  <2>1. duty'[c] = {} /\ \A d \in Client \cup Worker : d # c => duty'[d] = duty[d]
    BY <1>2 DEF PoolTyped
  <2> QED
    BY <1>1, <2>1 DEF Starters
<1>6. Created' = {w}
  BY <1>1, <1>4 DEF Created, At
<1>7. Starters' \cup Created' = {w}
  BY <1>5, <1>6
<1>8. ASSUME NEW v \in Worker
      PROVE  /\ v <= threads_' <=> ~(At(v, "none") \/ At(v, "created"))'
             /\ At(v, "created")' => v = threads_' + 1
  <2>1. CASE v = w
    BY <1>1, <1>2, <1>4, <2>1 DEF CreationInv, At, w
  <2>2. CASE v # w
    <3>1. worker'[v] = worker[v]
      BY <1>4, <2>2
    <3> QED
      BY <1>2, <3>1 DEF CreationInv, At
  <2> QED
    BY <2>1, <2>2
<1> QED
  BY <1>1, <1>2, <1>3, <1>5, <1>7, <1>8 DEF CreationInv

LEMMA EnterCreates ==
  ASSUME PoolTyped, ShapeInv, CreationInv, NEW w \in Worker, Enter(w)
  PROVE  CreationInv'
<1>1. Moves(w, "created", "look") /\ thread_being_created_' = FALSE
      /\ threads_' = threads_ + 1 /\ UNCHANGED duty
  BY MoveFacts DEF Enter
<1>2. w \in Created /\ w = threads_ + 1
  BY <1>1 DEF Moves, CreationInv, Created
<1>3. Starters \cup Created = {w}
  <2>1. CASE thread_being_created_
    BY <1>2, <2>1 DEF CreationInv
  <2>2. CASE ~thread_being_created_
    BY <1>2, <2>2 DEF CreationInv
  <2> QED
    BY <2>1, <2>2
<1>4. w \notin Starters
  BY <1>2 DEF ShapeInv, Starters, Created, At
<1>5. Starters = {} /\ Created = {w}
  BY <1>2, <1>3, <1>4
<1>6. worker'[w].at = "look" /\ \A v \in Worker : v # w => worker'[v] = worker[v]
  BY <1>1 DEF Moves, Becomes
<1>7. Starters' = {}
  BY <1>1, <1>5 DEF Starters
<1>8. Created' = {}
  BY <1>5, <1>6 DEF Created, At
<1>9. ASSUME NEW v \in Worker
      PROVE  /\ v <= threads_' <=> ~(At(v, "none") \/ At(v, "created"))'
             /\ At(v, "created")' => v = threads_' + 1
  <2>1. CASE v = w
    BY <1>1, <1>2, <1>6, <2>1 DEF At, PoolTyped
  <2>2. CASE v # w
    <3>1. worker'[v] = worker[v] /\ ~At(v, "created")
      BY <1>5, <1>6, <2>2 DEF Created
    <3>2. v \in Nat /\ threads_ \in Nat
      BY DEF Worker, PoolTyped
    <3> QED
      BY <1>1, <1>2, <2>2, <3>1, <3>2 DEF CreationInv, At
  <2> QED
    BY <2>1, <2>2
<1>10. Starters' \cup Created' = {}
  BY <1>7, <1>8
<1> QED
  BY <1>1, <1>7, <1>9, <1>10 DEF CreationInv

LEMMA StepCreates ==
  ASSUME PoolInv, PoolNext
  PROVE  CreationInv'
<1> USE DEF PoolInv, taskList, creation
<1>1. ASSUME NEW w \in Worker, Enter(w)
      PROVE  CreationInv'
  BY <1>1, EnterCreates
<1>2. ASSUME NEW w \in Worker, DidRunWorkerTask(w)
      PROVE  CreationInv'
  BY <1>2, DidRunKeeps, CreationKept DEF DidRunWorkerTask
<1>3. ASSUME NEW w \in Worker, GetWork(w)
      PROVE  CreationInv'
  <2>1. KeepsPlaces
    BY <1>3, GetWorkKeeps
  <2>2. /\ MayCreate(w) /\ duty[w] = {}
        /\ \A d \in Client \cup Worker : d # w => duty'[d] = duty[d]
    BY <1>3, GetWorkCreates
  <2>3. UNCHANGED threads_
    BY <1>3 DEF GetWork
  <2> QED
    BY <2>1, <2>2, <2>3, CreationBegins
<1>4. ASSUME NEW w \in Worker, NEW from, NEW to, Moves(w, from, to),
             UNCHANGED <<tasks, duty, creation>>,
             \/ from = "task" /\ to = "done" /\ worker[w].doomed = {}
             \/ from = "look" /\ to = "wait"
             \/ from = "woken" /\ to = "look"
             \/ from = "leave" /\ to = "left"
             \/ from = "left" /\ to = "ended",
             duty[w] = {} \/ from \notin {"task", "leave"}
      PROVE  CreationInv'
  <2>1. KeepsPlaces
    BY <1>4, MovesKeep
  <2> QED
    BY <1>4, <2>1, CreationKept
<1>5. ASSUME NEW w \in Worker, WakeUp(w)
      PROVE  CreationInv'
  <2>1. Moves(w, "woken", "look")
    BY <1>5, MoveFacts
  <2> QED
    BY <1>4, <1>5, <2>1 DEF WakeUp
<1>6. ASSUME NEW w \in Worker, TaskDone(w)
      PROVE  CreationInv'
  <2>1. Moves(w, "task", "done")
    BY <1>6, MoveFacts
  <2> QED
    BY <1>4, <1>6, <2>1 DEF TaskDone
<1>7. ASSUME NEW w \in Worker, WaitForWork(w)
      PROVE  CreationInv'
  <2>1. Moves(w, "look", "wait")
    BY <1>7, MoveFacts
  <2> QED
    BY <1>4, <1>7, <2>1 DEF WaitForWork
<1>8. ASSUME NEW w \in Worker, SignalCanShutdown(w)
      PROVE  CreationInv'
  <2>1. Moves(w, "leave", "left")
    BY <1>8, MoveFacts
  <2> QED
    BY <1>4, <1>8, <2>1 DEF SignalCanShutdown
<1>9. ASSUME NEW w \in Worker, ReleaseByWorker(w)
      PROVE  CreationInv'
  <2>1. Moves(w, "left", "ended")
    BY <1>9, MoveFacts
  <2> QED
    BY <1>4, <1>9, <2>1 DEF ReleaseByWorker
<1>10. ASSUME NEW w \in Worker, DeleteOutsideLock(w)
       PROVE  CreationInv'
  BY <1>10, DeleteOutsideKeeps, CreationKept DEF DeleteOutsideLock
<1>11. ASSUME NEW w \in Worker, Break(w)
       PROVE  CreationInv'
  BY <1>11, BreakKeeps, CreationKept DEF Break
<1>12. ASSUME NEW w \in Worker, DeleteUnderLock(w)
       PROVE  CreationInv'
  BY <1>12, DeleteUnderKeeps, CreationKept DEF DeleteUnderLock
<1>13. ASSUME NEW c \in Client \cup Worker, Signal(c)
       PROVE  CreationInv'
  <2>1. SignalHasWork /\ UNCHANGED <<tasks, threads_, thread_being_created_>>
        /\ duty' = [duty EXCEPT ![c] = @ \ {"signal"}]
    BY <1>13 DEF Signal
  <2>2. /\ \A v \in Worker : duty'[v] \subseteq duty[v]
        /\ \A d \in Client \cup Worker : "start" \in duty'[d] <=> "start" \in duty[d]
    BY <2>1 DEF PoolTyped
  <2>3. KeepsPlaces
    BY <2>1, <2>2, SignalKeeps
  <2> QED
    BY <2>1, <2>2, <2>3, CreationKept
<1>14. ASSUME NEW c \in Client \cup Worker, FinishStartingAdditionalThread(c)
       PROVE  CreationInv'
  BY <1>14, FinishCreates
<1>15. ASSUME SignalHasWork, UNCHANGED <<tasks, creation, duty>>
       PROVE  CreationInv'
  BY <1>15, SignalKeeps, CreationKept
<1>16. ASSUME NEW c \in Client \cup Worker, NEW token \in 0..MaxTokens,
              NEW behavior \in Behavior, PostTask(c, token, behavior)
       PROVE  CreationInv'
  <2>1. UNCHANGED <<worker, threads_>>
    BY <1>16 DEF PostTask
  <2>2. KeepsPlaces
    BY <2>1 DEF KeepsPlaces
  <2>3. /\ MayCreate(c) /\ duty[c] = {}
        /\ \A d \in Client \cup Worker : d # c => duty'[d] = duty[d]
    BY <1>16, PostCreates
  <2> QED
    BY <2>1, <2>2, <2>3, CreationBegins
<1>17. ASSUME UNCHANGED <<tasks, worker, duty, creation>>
       PROVE  CreationInv'
  BY <1>17, SameWorkers, CreationKept
<1>18. ASSUME NEW c \in Client \cup Worker, GetSequenceToken(c) \/ SignalHasWorkForTesting(c)
       PROVE  CreationInv'
  BY <1>15, <1>17, <1>18 DEF GetSequenceToken, SignalHasWorkForTesting
<1>19. ASSUME NEW c \in Client, FlushForTesting(c) \/ ReleaseByClient(c)
       PROVE  CreationInv'
  BY <1>17, <1>19 DEF FlushForTesting, ReleaseByClient
<1>20. CASE Shutdown \/ WaitForShutdown \/ DeleteSoon
  BY <1>15, <1>17, <1>20 DEF Shutdown, WaitForShutdown, DeleteSoon
<1>21. ASSUME NEW w \in Worker, Locked(w) \/ WorkerStep(w)
       PROVE  CreationInv'
  <2>1. CASE Locked(w)
    BY <1>1, <1>2, <1>5, <2>1 DEF Locked
  <2>2. CASE WorkerStep(w)
    BY <1>3, <1>6, <1>7, <1>8, <1>9, <1>10, <1>11, <1>12, <2>2 DEF WorkerStep
  <2> QED
    BY <1>21, <2>1, <2>2
<1>22. ASSUME NEW c \in Client \cup Worker, Duty(c)
       PROVE  CreationInv'
  BY <1>13, <1>14, <1>22 DEF Duty
<1> QED
  BY <1>16, <1>18, <1>19, <1>20, <1>21, <1>22 DEF PoolNext

-----------------------------------------------------------------------------
(* Who is left when the pool is deleted.                                     *)

Down == {"shutdown", "closing", "down"}

LEMMA ClientKept ==
  ASSUME PoolTyped, ClientInv, UNCHANGED <<shutdown_called_, holder>>,
         \A c \in Client : /\ client[c] \in Down <=> client'[c] \in Down
                           /\ c \in holder \/ (client'[c] = client[c] /\ duty'[c] = {}),
         pool' # "live" => /\ holder = {}
                           /\ \A w \in Worker : (At(w, "none") \/ At(w, "ended"))'
  PROVE  ClientInv'
<1>1. \A c \in Client : client'[c] \in Down => c = Main
  BY DEF ClientInv, Down
<1>2. shutdown_called_' <=> client'[Main] \in Down
  <2>1. client[Main] \in Down <=> client'[Main] \in Down
    BY PoolAssumption
  <2>2. shutdown_called_ <=> client[Main] \in Down
    BY DEF ClientInv, Down
  <2>3. shutdown_called_' = shutdown_called_
    OBVIOUS
  <2> QED
    BY <2>1, <2>2, <2>3
<1>3. \A c \in Client \ holder' : /\ duty'[c] = {}
                                  /\ client'[c] = IF c = Main THEN "down" ELSE "idle"
  BY DEF ClientInv
<1> QED
  BY <1>1, <1>2, <1>3 DEF ClientInv, Down

\* Nothing is left to do for a pool that nobody holds.
LEMMA GoneQuiet ==
  ASSUME PoolInv, pool # "live"
  PROVE  /\ holder = {}
         /\ \A w \in Worker : (At(w, "none") \/ At(w, "ended")) /\ duty[w] = {}
         /\ \A c \in Client : duty[c] = {}
  BY DEF PoolInv, ClientInv, ShapeInv, At

\* A step of a thread that is in the pool keeps it alive.
LEMMA BusyKeeps ==
  ASSUME PoolInv, NEW w \in Worker, ~At(w, "none"), ~At(w, "ended"),
         UNCHANGED <<client, shutdown_called_, holder, pool>>,
         \A c \in Client : duty'[c] = duty[c]
  PROVE  ClientInv'
<1>1. pool' = "live"
  BY DEF PoolInv, ClientInv
<1>2. \A c \in Client : c \in holder \/ (client'[c] = client[c] /\ duty'[c] = {})
  BY DEF PoolInv, ClientInv
<1> QED
  BY <1>1, <1>2, ClientKept DEF PoolInv

LEMMA SignalClientsKeeps ==
  ASSUME PoolInv, NEW w \in Worker, ~At(w, "none"), ~At(w, "ended"),
         UNCHANGED <<shutdown_called_, holder, pool, duty>>,
         \/ UNCHANGED client
         \/ SignalClients("flushing", "flush")
         \/ SignalClients("closing", "shutdown")
  PROVE  ClientInv'
<1>1. pool' = "live"
  BY DEF PoolInv, ClientInv
<1>2. \A c \in Client : \/ client'[c] = client[c]
                        \/ client[c] = "flushing" /\ client'[c] = "flush"
                        \/ client[c] = "closing" /\ client'[c] = "shutdown"
  BY ClientsTyped DEF PoolInv
<1>3. \A c \in Client : c \in holder \/ (client'[c] = client[c] /\ duty'[c] = {})
  BY <1>2 DEF PoolInv, ClientInv
<1>4. \A c \in Client : client[c] \in Down <=> client'[c] \in Down
  BY <1>2 DEF Down
<1> QED
  BY <1>1, <1>3, <1>4, ClientKept DEF PoolInv

\* A step of a client that has a reference.
LEMMA HolderKeeps ==
  ASSUME PoolInv, NEW c \in Client, c \in holder,
         UNCHANGED <<shutdown_called_, holder, pool>>,
         \A d \in Client : d # c => duty'[d] = duty[d] /\ client'[d] = client[d],
         client[c] \in Down <=> client'[c] \in Down
  PROVE  ClientInv'
<1>1. pool' = "live"
  BY DEF PoolInv, ClientInv
<1>2. \A d \in Client : d \in holder \/ (client'[d] = client[d] /\ duty'[d] = {})
  BY DEF PoolInv, ClientInv
<1>3. \A d \in Client : client[d] \in Down <=> client'[d] \in Down
  OBVIOUS
<1> QED
  BY <1>1, <1>2, <1>3, ClientKept DEF PoolInv

LEMMA ReleaseByWorkerKeeps ==
  ASSUME PoolInv, NEW w \in Worker, ReleaseByWorker(w)
  PROVE  ClientInv'
<1>1. /\ At(w, "left") /\ UNCHANGED <<client, shutdown_called_, holder, duty>>
      /\ pool' = IF Refs = {w} THEN "DeleteSoon" ELSE pool
  BY DEF ReleaseByWorker
<1>2. Becomes(w, "ended", worker[w].task, worker[w].doomed)
  BY MoveFacts DEF PoolInv, Moves
<1>3. pool = "live"
  BY <1>1 DEF PoolInv, ClientInv, At
<1>4. ASSUME pool' # "live"
      PROVE  /\ holder = {} /\ \A v \in Worker : (At(v, "none") \/ At(v, "ended"))'
  <2>1. Refs = {w}
    BY <1>1, <1>3, <1>4
  <2>2. holder = {}
    <3>1. w \notin Client /\ holder \subseteq Client
      BY PoolAssumption DEF Worker, PoolInv, PoolTyped
    <3> QED
      BY <2>1, <3>1 DEF Refs
  <2>3. \A v \in Worker : v # w => At(v, "none") \/ At(v, "ended")
    BY <2>1 DEF Refs, At
  <2> QED
    BY <1>2, <2>2, <2>3 DEF Becomes, At
<1>5. \A c \in Client : c \in holder \/ (client'[c] = client[c] /\ duty'[c] = {})
  BY <1>1 DEF PoolInv, ClientInv
<1> QED
  BY <1>1, <1>4, <1>5, ClientKept DEF PoolInv

LEMMA ReleaseByClientKeeps ==
  ASSUME PoolInv, NEW c \in Client, ReleaseByClient(c)
  PROVE  ClientInv'
<1>1. /\ c \in holder /\ duty[c] = {} /\ UNCHANGED <<client, shutdown_called_, worker, duty>>
      /\ client[c] = IF c = Main THEN "down" ELSE "idle"
      /\ holder' = holder \ {c} /\ pool' = IF Refs = {c} THEN "gone" ELSE pool
  BY DEF ReleaseByClient
<1>2. pool = "live"
  BY <1>1 DEF PoolInv, ClientInv
<1>3. ASSUME pool' # "live"
      PROVE  /\ holder' = {} /\ \A v \in Worker : (At(v, "none") \/ At(v, "ended"))'
  <2>1. Refs = {c}
    BY <1>1, <1>2, <1>3
  <2>2. \A v \in Worker : v # c
    BY PoolAssumption DEF Worker
  <2>3. holder' = {}
    BY <1>1, <2>1 DEF Refs
  <2> QED
    BY <1>1, <2>1, <2>2, <2>3 DEF Refs, At
<1>4. \A d \in Client \ holder' : /\ duty'[d] = {}
                                  /\ client'[d] = IF d = Main THEN "down" ELSE "idle"
  BY <1>1 DEF PoolInv, ClientInv
<1>5. \A d \in Client : client'[d] \in Down => d = Main
  BY <1>1 DEF PoolInv, ClientInv, Down
<1>6. shutdown_called_' <=> client'[Main] \in Down
  BY <1>1 DEF PoolInv, ClientInv, Down
<1> QED
  BY <1>3, <1>4, <1>5, <1>6 DEF ClientInv, Down

LEMMA ShutdownKeeps ==
  ASSUME PoolInv, Shutdown
  PROVE  ClientInv'
<1>1. /\ duty[Main] = {} /\ Main \in holder /\ shutdown_called_' = TRUE
      /\ UNCHANGED <<holder, pool, duty>>
  BY PoolAssumption DEF Shutdown, CanCall, object
<1>2. client' = [client EXCEPT ![Main] = IF CanShutdown THEN "down" ELSE "shutdown"]
  BY DEF Shutdown
<1>3. client'[Main] \in Down /\ \A d \in Client : d # Main => client'[d] = client[d]
  BY <1>2, PoolAssumption DEF PoolInv, PoolTyped, Down
<1>4. pool' = "live"
  BY <1>1 DEF PoolInv, ClientInv
<1>5. \A d \in Client : client'[d] \in Down => d = Main
  BY <1>3 DEF PoolInv, ClientInv, Down
<1>6. \A d \in Client \ holder' : /\ duty'[d] = {}
                                  /\ client'[d] = IF d = Main THEN "down" ELSE "idle"
  BY <1>1, <1>3 DEF PoolInv, ClientInv
<1>7. shutdown_called_' <=> client'[Main] \in Down
  BY <1>1, <1>3
<1> QED
  BY <1>4, <1>5, <1>6, <1>7 DEF ClientInv, Down

LEMMA StepClients ==
  ASSUME PoolInv, PoolNext
  PROVE  ClientInv'
<1> USE DEF object
<1>1. ASSUME NEW w \in Worker, Enter(w) \/ DidRunWorkerTask(w) \/ WakeUp(w)
      PROVE  ClientInv'
  <2>1. ~At(w, "none") /\ ~At(w, "ended")
    BY <1>1 DEF Enter, DidRunWorkerTask, WakeUp, At
  <2> QED
    BY <1>1, <2>1, BusyKeeps DEF Enter, DidRunWorkerTask, WakeUp
<1>2. ASSUME NEW w \in Worker, GetWork(w)
      PROVE  ClientInv'
  <2>1. ~At(w, "none") /\ ~At(w, "ended")
    BY <1>2 DEF GetWork, At
  <2>2. \A c \in Client : duty'[c] = duty[c]
    <3>1. \A c \in Client : c # w
      BY PoolAssumption DEF Worker
    <3> QED
      BY <1>2, <3>1, GetWorkCreates DEF PoolInv
  <2> QED
    BY <1>2, <2>1, <2>2, BusyKeeps DEF GetWork
<1>3. ASSUME NEW w \in Worker, DeleteOutsideLock(w) \/ TaskDone(w) \/ Break(w)
      PROVE  ClientInv'
  <2>1. ~At(w, "none") /\ ~At(w, "ended")
    BY <1>3 DEF DeleteOutsideLock, TaskDone, Break, At
  <2> QED
    BY <1>3, <2>1, BusyKeeps DEF DeleteOutsideLock, TaskDone, Break
<1>4. ASSUME NEW w \in Worker, DeleteUnderLock(w)
      PROVE  ClientInv'
  <2>1. ~At(w, "none") /\ ~At(w, "ended")
    BY <1>4 DEF DeleteUnderLock, At
  <2>2. \A c \in Client : duty'[c] = duty[c]
    <3>1. \A c \in Client : c # w
      BY PoolAssumption DEF Worker
    <3> QED
      BY <1>4, <3>1 DEF DeleteUnderLock, PoolInv, PoolTyped
  <2> QED
    BY <1>4, <2>1, <2>2, BusyKeeps DEF DeleteUnderLock
<1>5. ASSUME NEW w \in Worker, WaitForWork(w)
      PROVE  ClientInv'
  <2>1. ~At(w, "none") /\ ~At(w, "ended")
    BY <1>5 DEF WaitForWork, At
  <2> QED
    BY <1>5, <2>1, SignalClientsKeeps DEF WaitForWork
<1>6. ASSUME NEW w \in Worker, SignalCanShutdown(w)
      PROVE  ClientInv'
  <2>1. ~At(w, "none") /\ ~At(w, "ended")
    BY <1>6 DEF SignalCanShutdown, At
  <2> QED
    BY <1>6, <2>1, SignalClientsKeeps DEF SignalCanShutdown
<1>7. ASSUME NEW w \in Worker, ReleaseByWorker(w)
      PROVE  ClientInv'
  BY <1>7, ReleaseByWorkerKeeps
<1>8. ASSUME NEW c \in Client \cup Worker, duty[c] # {}, UNCHANGED <<client, shutdown_called_, object>>,
             \A d \in Client \cup Worker : d # c => duty'[d] = duty[d]
      PROVE  ClientInv'
  <2>1. CASE c \in Client
    <3>1. c \in holder
      BY <1>8, <2>1 DEF PoolInv, ClientInv
    <3> QED
      BY <1>8, <2>1, <3>1, HolderKeeps
  <2>2. CASE c \in Worker
    <3>1. ~At(c, "none") /\ ~At(c, "ended")
      BY <1>8, <2>2 DEF PoolInv, ShapeInv, At
    <3>2. \A d \in Client : d # c
      BY <2>2, PoolAssumption DEF Worker
    <3> QED
      BY <1>8, <2>2, <3>1, <3>2, BusyKeeps
  <2> QED
    BY <2>1, <2>2
<1>9. ASSUME NEW c \in Client \cup Worker, Duty(c)
      PROVE  ClientInv'
  <2>1. duty[c] # {} /\ UNCHANGED <<client, shutdown_called_, object>>
    BY <1>9 DEF Duty, Signal, FinishStartingAdditionalThread
  <2>2. \A d \in Client \cup Worker : d # c => duty'[d] = duty[d]
    BY <1>9 DEF Duty, Signal, FinishStartingAdditionalThread, PoolInv, PoolTyped
  <2> QED
    BY <1>8, <2>1, <2>2
<1>10. ASSUME NEW c \in Client \cup Worker, CanCall(c),
              UNCHANGED <<client, shutdown_called_, object>>,
              \A d \in Client \cup Worker : d # c => duty'[d] = duty[d]
       PROVE  ClientInv'
  <2>1. CASE c \in Client
    <3>1. c \in holder
      BY <1>10, <2>1 DEF CanCall
    <3> QED
      BY <1>10, <2>1, <3>1, HolderKeeps
  <2>2. CASE c \in Worker
    <3>1. c \notin Client
      BY <2>2, PoolAssumption DEF Worker
    <3>2. ~At(c, "none") /\ ~At(c, "ended")
      BY <1>10, <3>1 DEF CanCall, At
    <3>3. \A d \in Client : d # c
      BY <3>1
    <3> QED
      BY <1>10, <2>2, <3>2, <3>3, BusyKeeps
  <2> QED
    BY <2>1, <2>2
<1>11. ASSUME NEW c \in Client \cup Worker, GetSequenceToken(c) \/ SignalHasWorkForTesting(c)
       PROVE  ClientInv'
  BY <1>10, <1>11 DEF GetSequenceToken, SignalHasWorkForTesting
<1>12. ASSUME NEW c \in Client \cup Worker, NEW token \in 0..MaxTokens,
              NEW behavior \in Behavior, PostTask(c, token, behavior)
       PROVE  ClientInv'
  <2>1. CanCall(c) /\ \A d \in Client \cup Worker : d # c => duty'[d] = duty[d]
    BY <1>12, PostCreates DEF PoolInv
  <2>2. UNCHANGED <<client, shutdown_called_, object>>
    BY <1>12 DEF PostTask
  <2> QED
    BY <1>10, <2>1, <2>2
<1>13. ASSUME NEW c \in Client, FlushForTesting(c)
       PROVE  ClientInv'
  <2>1. /\ CanCall(c) \/ client[c] = "flush"
        /\ client' = [client EXCEPT ![c] = IF IsIdle(waiting_thread_count_)
                                           THEN "idle" ELSE "flushing"]
        /\ UNCHANGED <<shutdown_called_, holder, pool, duty>>
    BY <1>13 DEF FlushForTesting
  <2>2. c \in holder /\ client[c] \notin Down
    BY <2>1 DEF CanCall, PoolInv, ClientInv, Down
  <2>3. client'[c] \notin Down /\ \A d \in Client : d # c => client'[d] = client[d]
    BY <2>1 DEF PoolInv, PoolTyped, Down
  <2> QED
    BY <2>1, <2>2, <2>3, HolderKeeps
<1>14. ASSUME NEW c \in Client, ReleaseByClient(c)
       PROVE  ClientInv'
  BY <1>14, ReleaseByClientKeeps
<1>15. CASE Shutdown
  BY <1>15, ShutdownKeeps
<1>16. CASE WaitForShutdown
  <2>1. /\ client[Main] = "shutdown" /\ Main \in Client
        /\ client' = [client EXCEPT ![Main] = IF CanShutdown THEN "down" ELSE "closing"]
        /\ UNCHANGED <<shutdown_called_, holder, pool, duty>>
    BY <1>16, PoolAssumption DEF WaitForShutdown
  <2>2. Main \in holder
    BY <2>1 DEF PoolInv, ClientInv
  <2>3. client[Main] \in Down /\ client'[Main] \in Down
        /\ \A d \in Client : d # Main => client'[d] = client[d]
    BY <2>1 DEF PoolInv, PoolTyped, Down
  <2> QED
    BY <2>1, <2>2, <2>3, HolderKeeps
<1>17. CASE DeleteSoon
  BY <1>17, GoneQuiet, ClientKept DEF DeleteSoon, PoolInv, At
<1>18. ASSUME NEW w \in Worker, Locked(w) \/ WorkerStep(w)
       PROVE  ClientInv'
  <2>1. CASE Locked(w)
    BY <1>1, <2>1 DEF Locked
  <2>2. CASE WorkerStep(w)
    BY <1>2, <1>3, <1>4, <1>5, <1>6, <1>7, <2>2 DEF WorkerStep
  <2> QED
    BY <1>18, <2>1, <2>2
<1> QED
  BY <1>9, <1>11, <1>12, <1>13, <1>14, <1>15, <1>16, <1>17, <1>18 DEF PoolNext

-----------------------------------------------------------------------------
(* Counters.                                                                 *)

SameTasks == \A t \in 1..Len(tasks) : tasks'[t] = tasks[t]

LEMMA TasksStay ==
  ASSUME UNCHANGED tasks
  PROVE  SameTasks
  BY DEF SameTasks

LEMMA HeldTyped ==
  ASSUME PoolTyped, NEW w \in Held
  PROVE  w \in Worker /\ worker[w].task \in 1..Len(tasks)
  BY WorkerTyped DEF Held

LEMMA HeldStays ==
  ASSUME PoolTyped, SameTasks, \A v \in Worker : worker'[v].task = worker[v].task
  PROVE  /\ Held' = Held /\ Blockers' = Blockers
         /\ \A v \in Held : TokenOf(v)' = TokenOf(v)
<1>1. Held' = Held
  BY DEF Held
<1>2. ASSUME NEW v \in Held
      PROVE  tasks'[worker'[v].task] = tasks[worker[v].task]
  BY <1>2, HeldTyped DEF SameTasks
<1>3. Blockers' = Blockers
  BY <1>1, <1>2 DEF Blockers
<1>4. \A v \in Held : TokenOf(v)' = TokenOf(v)
  BY <1>2 DEF TokenOf
<1> QED
  BY <1>1, <1>3, <1>4

LEMMA PendingStays ==
  ASSUME PoolTyped, SameTasks, UNCHANGED pending_tasks_
  PROVE  PendingBlockers' = PendingBlockers
  BY DEF PendingBlockers, PoolTyped, SameTasks

LEMMA SetsFinite ==
  ASSUME PoolTyped
  PROVE  IsFiniteSet(Idlers) /\ IsFiniteSet(Blockers) /\ IsFiniteSet(PendingBlockers)
<1>1. Idlers \subseteq Worker /\ Blockers \subseteq Worker
  BY DEF Idlers, Blockers, Held
<1>2. IsFiniteSet(1..Len(tasks))
  <2>1. Len(tasks) \in Nat
    BY DEF PoolTyped
  <2> QED
    BY <2>1, FS_Interval
<1>3. PendingBlockers \subseteq 1..Len(tasks)
  BY DEF PendingBlockers, PoolTyped
<1> QED
  BY <1>1, <1>2, <1>3, WorkersFinite, FS_Subset

LEMMA CountsStay ==
  ASSUME PoolTyped, CountInv, Idlers' = Idlers, Blockers' = Blockers,
         PendingBlockers' = PendingBlockers,
         UNCHANGED <<waiting_thread_count_, blocking_shutdown_thread_count_,
                     blocking_shutdown_pending_task_count_>>
  PROVE  CountInv'
  BY DEF CountInv

\* A task that starts and a task that has run, among the workers.
LEMMA GetWorkHeld ==
  ASSUME PoolInv, NEW w \in Worker, GetWork(w)
  PROVE  LET t == Min(Found)
         IN  /\ t \in pending_tasks_ /\ w \notin Held /\ Held' = Held \cup {w}
             /\ worker'[w].task = t /\ TokenOf(w)' = tasks[t].token
             /\ \A v \in Held : worker'[v].task = worker[v].task /\ TokenOf(v)' = TokenOf(v)
             /\ Blockers' = IF tasks[t].behavior = "CONTINUE" THEN Blockers
                            ELSE Blockers \cup {w}
             /\ PendingBlockers' = PendingBlockers \ {t}
             /\ tasks[t].behavior # "BLOCK" => t \notin PendingBlockers
<1> DEFINE t == Min(Found)
<1>1. /\ At(w, "look") /\ t \in Found /\ t \in 1..Len(tasks) /\ Becomes(w, "task", t, Dropped)
      /\ pending_tasks_' = pending_tasks_ \ (Dropped \cup {t})
  BY GetWorkFacts DEF PoolInv
<1>2. t \in pending_tasks_ /\ \A d \in Dropped : tasks[d].behavior # "BLOCK"
  BY <1>1, WorkFacts DEF PoolInv
<1>3. UNCHANGED tasks
  BY DEF GetWork
<1> HIDE DEF t
<1>4. worker[w].task = 0 /\ w \notin Held
  BY <1>1 DEF PoolInv, ShapeInv, Held, At
<1>5. worker'[w].task = t /\ t # 0 /\ \A v \in Worker : v # w => worker'[v] = worker[v]
  BY <1>1 DEF Becomes
<1>6. Held' = Held \cup {w}
  BY <1>5 DEF Held
<1>7. \A v \in Held : worker'[v].task = worker[v].task /\ TokenOf(v)' = TokenOf(v)
  BY <1>3, <1>4, <1>5 DEF Held, TokenOf
<1>8. TokenOf(w)' = tasks[t].token
  BY <1>3, <1>5 DEF TokenOf
<1>9. Blockers' = IF tasks[t].behavior = "CONTINUE" THEN Blockers ELSE Blockers \cup {w}
  BY <1>3, <1>4, <1>5, <1>6, <1>7 DEF Blockers
<1>10. PendingBlockers' = PendingBlockers \ {t}
  BY <1>1, <1>2, <1>3 DEF PendingBlockers
<1>11. tasks[t].behavior # "BLOCK" => t \notin PendingBlockers
  BY DEF PendingBlockers
<1> QED
  BY <1>2, <1>4, <1>5, <1>6, <1>7, <1>8, <1>9, <1>10, <1>11 DEF t

LEMMA DidRunHeld ==
  ASSUME PoolInv, NEW w \in Worker, DidRunWorkerTask(w)
  PROVE  /\ w \in Held /\ Held' = Held \ {w} /\ UNCHANGED tasks
         /\ worker'[w].at = "look" /\ worker'[w].doomed = {}
         /\ \A v \in Worker : v # w => worker'[v] = worker[v]
         /\ \A v \in Held' : TokenOf(v)' = TokenOf(v)
         /\ w \in Blockers <=> tasks[worker[w].task].behavior # "CONTINUE"
         /\ Blockers' = Blockers \ {w}
<1>1. At(w, "done") /\ Becomes(w, "look", 0, worker[w].doomed) /\ worker[w].doomed = {}
  BY DidRunFacts, DidRunKeeps DEF PoolInv
<1>2. UNCHANGED tasks
  BY DEF DidRunWorkerTask, taskList
<1>3. w \in Held
  BY <1>1 DEF PoolInv, ShapeInv, Held
<1>4. /\ worker'[w].at = "look" /\ worker'[w].doomed = {} /\ worker'[w].task = 0
      /\ \A v \in Worker : v # w => worker'[v] = worker[v]
  BY <1>1 DEF Becomes
<1>5. Held' = Held \ {w}
  BY <1>4 DEF Held
<1>6. \A v \in Held' : TokenOf(v)' = TokenOf(v)
  BY <1>2, <1>4, <1>5 DEF TokenOf, Held
<1>7. w \in Blockers <=> tasks[worker[w].task].behavior # "CONTINUE"
  BY <1>3 DEF Blockers
<1>8. Blockers' = Blockers \ {w}
  BY <1>2, <1>4, <1>5 DEF Blockers, Held
<1> QED
  BY <1>2, <1>3, <1>4, <1>5, <1>6, <1>7, <1>8

\* The steps that leave the tasks where they are, and the ones that do not.
Plain ==
  /\ UNCHANGED <<taskList, inTasks>> /\ KeepsWork
  /\ \/ UNCHANGED waiting_thread_count_ /\ Idlers' = Idlers
     \/ \E w \in Worker : WaitForWork(w) \/ WakeUp(w)

TaskStep ==
  \/ \E w \in Worker : GetWork(w) \/ DidRunWorkerTask(w) \/ Break(w)
  \/ \E c \in Client \cup Worker :
       \E token \in 0..MaxTokens, behavior \in Behavior : PostTask(c, token, behavior)

LEMMA StepKinds ==
  ASSUME PoolInv, PoolNext
  PROVE  Plain \/ TaskStep
<1> USE DEF PoolInv, taskList, inTasks
<1> DEFINE Good == Plain \/ TaskStep
<1>1. ASSUME NEW w \in Worker, NEW from, NEW to, Moves(w, from, to),
             UNCHANGED <<tasks, duty>>,
             \/ from = "created" /\ to = "look"
             \/ from = "task" /\ to = "done" /\ worker[w].doomed = {}
             \/ from = "look" /\ to = "wait"
             \/ from = "woken" /\ to = "look"
             \/ from = "leave" /\ to = "left"
             \/ from = "left" /\ to = "ended",
             duty[w] = {} \/ from \notin {"task", "leave"}
      PROVE  KeepsWork /\ (from \notin {"look", "woken"} => Idlers' = Idlers)
  BY <1>1, MovesKeep
<1>2. ASSUME NEW w \in Worker, Enter(w)
      PROVE  Good
  <2>1. Moves(w, "created", "look")
    BY <1>2, MoveFacts
  <2> QED
    BY <1>1, <1>2, <2>1 DEF Enter, Plain
<1>3. ASSUME NEW w \in Worker, WakeUp(w)
      PROVE  Good
  <2>1. Moves(w, "woken", "look")
    BY <1>3, MoveFacts
  <2>2. KeepsWork
    BY <1>1, <1>3, <2>1 DEF WakeUp
  <2> QED
    BY <1>3, <2>2 DEF WakeUp, Plain
<1>4. ASSUME NEW w \in Worker, WaitForWork(w)
      PROVE  Good
  <2>1. Moves(w, "look", "wait")
    BY <1>4, MoveFacts
  <2>2. KeepsWork
    BY <1>1, <1>4, <2>1 DEF WaitForWork
  <2> QED
    BY <1>4, <2>2 DEF WaitForWork, Plain
<1>5. ASSUME NEW w \in Worker, TaskDone(w)
      PROVE  Good
  <2>1. Moves(w, "task", "done")
    BY <1>5, MoveFacts
  <2> QED
    BY <1>1, <1>5, <2>1 DEF TaskDone, Plain
<1>6. ASSUME NEW w \in Worker, SignalCanShutdown(w)
      PROVE  Good
  <2>1. Moves(w, "leave", "left")
    BY <1>6, MoveFacts
  <2> QED
    BY <1>1, <1>6, <2>1 DEF SignalCanShutdown, Plain
<1>7. ASSUME NEW w \in Worker, ReleaseByWorker(w)
      PROVE  Good
  <2>1. Moves(w, "left", "ended")
    BY <1>7, MoveFacts
  <2> QED
    BY <1>1, <1>7, <2>1 DEF ReleaseByWorker, Plain
<1>8. ASSUME NEW w \in Worker, DeleteOutsideLock(w)
      PROVE  Good
  BY <1>8, DeleteOutsideKeeps DEF DeleteOutsideLock, Plain
<1>9. ASSUME NEW w \in Worker, DeleteUnderLock(w)
      PROVE  Good
  BY <1>9, DeleteUnderKeeps DEF DeleteUnderLock, Plain
<1>10. ASSUME NEW c \in Client \cup Worker, Signal(c)
       PROVE  Good
  <2>1. SignalHasWork /\ UNCHANGED <<taskList, inTasks, waiting_thread_count_>>
        /\ duty' = [duty EXCEPT ![c] = @ \ {"signal"}]
    BY <1>10 DEF Signal
  <2>2. \A v \in Worker : duty'[v] \subseteq duty[v]
    BY <2>1 DEF PoolTyped
  <2> QED
    BY <2>1, <2>2, SignalKeeps DEF Plain
<1>11. ASSUME NEW c \in Client \cup Worker, FinishStartingAdditionalThread(c)
       PROVE  Good
  BY <1>11, FinishKeeps DEF FinishStartingAdditionalThread, Plain
<1>12. ASSUME UNCHANGED <<taskList, inTasks, waiting_thread_count_, worker>>
       PROVE  Good
  BY <1>12, SameWorkers DEF Plain
<1>13. ASSUME UNCHANGED <<taskList, inTasks, waiting_thread_count_, duty>>, SignalHasWork
       PROVE  Good
  BY <1>13, SignalKeeps DEF Plain
<1>14. ASSUME NEW c \in Client \cup Worker, GetSequenceToken(c) \/ SignalHasWorkForTesting(c)
       PROVE  Good
  BY <1>12, <1>13, <1>14 DEF GetSequenceToken, SignalHasWorkForTesting
<1>15. ASSUME NEW c \in Client, FlushForTesting(c) \/ ReleaseByClient(c)
       PROVE  Good
  BY <1>12, <1>15 DEF FlushForTesting, ReleaseByClient
<1>16. CASE Shutdown \/ WaitForShutdown \/ DeleteSoon
  BY <1>12, <1>13, <1>16 DEF Shutdown, WaitForShutdown, DeleteSoon
<1>17. ASSUME NEW w \in Worker, Locked(w) \/ WorkerStep(w)
       PROVE  Good
  <2>1. CASE Locked(w)
    BY <1>2, <1>3, <2>1 DEF Locked, TaskStep
  <2>2. CASE WorkerStep(w)
    BY <1>4, <1>5, <1>6, <1>7, <1>8, <1>9, <2>2 DEF WorkerStep, TaskStep
  <2> QED
    BY <1>17, <2>1, <2>2
<1>18. ASSUME NEW c \in Client \cup Worker, Duty(c)
       PROVE  Good
  BY <1>10, <1>11, <1>18 DEF Duty
<1>19. ASSUME NEW c \in Client \cup Worker, NEW token \in 0..MaxTokens,
              NEW behavior \in Behavior, PostTask(c, token, behavior)
       PROVE  Good
  BY <1>19 DEF TaskStep
<1> QED
  BY <1>14, <1>15, <1>16, <1>17, <1>18, <1>19 DEF PoolNext

LEMMA PlainFacts ==
  ASSUME PoolInv, Plain
  PROVE  /\ Held' = Held /\ Blockers' = Blockers /\ PendingBlockers' = PendingBlockers
         /\ \A v \in Held : TokenOf(v)' = TokenOf(v)
<1>1. UNCHANGED <<tasks, pending_tasks_>> /\ \A v \in Worker : worker'[v].task = worker[v].task
  BY DEF Plain, KeepsWork, taskList
<1> QED
  BY <1>1, TasksStay, HeldStays, PendingStays DEF PoolInv

LEMMA StepCounts ==
  ASSUME PoolInv, PoolNext
  PROVE  CountInv'
<1> USE DEF PoolInv
<1>0. IsFiniteSet(Idlers) /\ IsFiniteSet(Blockers) /\ IsFiniteSet(PendingBlockers)
  BY SetsFinite
<1>1. CASE Plain
  <2>1. /\ Blockers' = Blockers /\ PendingBlockers' = PendingBlockers
        /\ UNCHANGED <<blocking_shutdown_thread_count_, blocking_shutdown_pending_task_count_>>
    BY <1>1, PlainFacts DEF Plain, inTasks, taskList
  <2>2. CASE UNCHANGED waiting_thread_count_ /\ Idlers' = Idlers
    BY <2>1, <2>2, CountsStay
  <2>3. ASSUME NEW w \in Worker, WaitForWork(w)
        PROVE  CountInv'
    <3>1. Moves(w, "look", "wait")
      BY <2>3, MoveFacts
    <3>2. Idlers' = Idlers \cup {w} /\ w \notin Idlers
      BY <3>1, BecomesKeeps DEF Moves, Idlers, At
    <3>3. Cardinality(Idlers') = Cardinality(Idlers) + 1
      BY <1>0, <3>2, OneMore
    <3> QED
      BY <2>1, <2>3, <3>3 DEF CountInv, WaitForWork
  <2>4. ASSUME NEW w \in Worker, WakeUp(w)
        PROVE  CountInv'
    <3>1. Moves(w, "woken", "look")
      BY <2>4, MoveFacts
    <3>2. Idlers' = Idlers \ {w} /\ w \in Idlers
      BY <3>1, BecomesKeeps DEF Moves, Idlers, At
    <3>3. Cardinality(Idlers') = Cardinality(Idlers) - 1
      BY <1>0, <3>2, OneLess
    <3> QED
      BY <2>1, <2>4, <3>3 DEF CountInv, WakeUp
  <2> QED
    BY <1>1, <2>2, <2>3, <2>4 DEF Plain
<1>2. ASSUME NEW w \in Worker, GetWork(w)
      PROVE  CountInv'
  <2> DEFINE t == Min(Found)
  <2>1. /\ w \notin Held
        /\ Blockers' = IF tasks[t].behavior = "CONTINUE" THEN Blockers ELSE Blockers \cup {w}
        /\ PendingBlockers' = PendingBlockers \ {t}
        /\ t \in pending_tasks_
        /\ tasks[t].behavior # "BLOCK" => t \notin PendingBlockers
    BY <1>2, GetWorkHeld
  <2>2. /\ blocking_shutdown_pending_task_count_' =
             blocking_shutdown_pending_task_count_ - IF tasks[t].behavior = "BLOCK" THEN 1 ELSE 0
        /\ blocking_shutdown_thread_count_' =
             blocking_shutdown_thread_count_ + IF tasks[t].behavior = "CONTINUE" THEN 0 ELSE 1
        /\ UNCHANGED waiting_thread_count_
    BY <1>2 DEF GetWork
  <2>3. Idlers' = Idlers
    BY <1>2, GetWorkKeeps
  <2> HIDE DEF t
  <2>4. blocking_shutdown_thread_count_' = Cardinality(Blockers')
    <3>1. CASE tasks[t].behavior = "CONTINUE"
      <4>1. Blockers' = Blockers /\ blocking_shutdown_thread_count_' = blocking_shutdown_thread_count_ + 0
        BY <2>1, <2>2, <3>1
      <4>2. Cardinality(Blockers) \in Nat
        BY <1>0, FS_CardinalityType
      <4> QED
        BY <4>1, <4>2 DEF CountInv
    <3>2. CASE tasks[t].behavior # "CONTINUE"
      <4>1. Blockers' = Blockers \cup {w} /\ w \notin Blockers
        BY <2>1, <3>2 DEF Blockers
      <4>2. Cardinality(Blockers') = Cardinality(Blockers) + 1
        BY <1>0, <4>1, OneMore
      <4> QED
        BY <2>2, <3>2, <4>2 DEF CountInv
    <3> QED
      BY <3>1, <3>2
  <2>5. blocking_shutdown_pending_task_count_' = Cardinality(PendingBlockers')
    <3>1. CASE tasks[t].behavior = "BLOCK"
      <4>1. t \in PendingBlockers
        BY <2>1, <3>1 DEF PendingBlockers
      <4>2. Cardinality(PendingBlockers') = Cardinality(PendingBlockers) - 1
        BY <1>0, <2>1, <4>1, OneLess
      <4> QED
        BY <2>2, <3>1, <4>2 DEF CountInv
    <3>2. CASE tasks[t].behavior # "BLOCK"
      <4>1. PendingBlockers' = PendingBlockers
            /\ blocking_shutdown_pending_task_count_' = blocking_shutdown_pending_task_count_ - 0
        BY <2>1, <2>2, <3>2
      <4>2. Cardinality(PendingBlockers) \in Nat
        BY <1>0, FS_CardinalityType
      <4> QED
        BY <4>1, <4>2 DEF CountInv
    <3> QED
      BY <3>1, <3>2
  <2> QED
    BY <2>2, <2>3, <2>4, <2>5 DEF CountInv
<1>3. ASSUME NEW w \in Worker, DidRunWorkerTask(w)
      PROVE  CountInv'
  <2>1. /\ w \in Blockers <=> tasks[worker[w].task].behavior # "CONTINUE"
        /\ Blockers' = Blockers \ {w} /\ UNCHANGED tasks
    BY <1>3, DidRunHeld
  <2>2. /\ blocking_shutdown_thread_count_' =
             blocking_shutdown_thread_count_
               - IF tasks[worker[w].task].behavior = "CONTINUE" THEN 0 ELSE 1
        /\ UNCHANGED <<waiting_thread_count_, pending_tasks_, blocking_shutdown_pending_task_count_>>
    BY <1>3 DEF DidRunWorkerTask, taskList
  <2>3. Idlers' = Idlers
    BY <1>3, DidRunKeeps
  <2>4. PendingBlockers' = PendingBlockers
    BY <2>1, <2>2, TasksStay, PendingStays
  <2>5. blocking_shutdown_thread_count_' = Cardinality(Blockers')
    <3>1. CASE w \in Blockers
      <4>1. Cardinality(Blockers') = Cardinality(Blockers) - 1
        BY <1>0, <2>1, <3>1, OneLess
      <4>2. blocking_shutdown_thread_count_' = blocking_shutdown_thread_count_ - 1
        BY <2>1, <2>2, <3>1
      <4> QED
        BY <4>1, <4>2 DEF CountInv
    <3>2. CASE w \notin Blockers
      <4>1. Blockers' = Blockers
            /\ blocking_shutdown_thread_count_' = blocking_shutdown_thread_count_ - 0
        BY <2>1, <2>2, <3>2
      <4>2. Cardinality(Blockers) \in Nat
        BY <1>0, FS_CardinalityType
      <4> QED
        BY <4>1, <4>2 DEF CountInv
    <3> QED
      BY <3>1, <3>2
  <2> QED
    BY <2>2, <2>3, <2>4, <2>5 DEF CountInv
<1>4. ASSUME NEW w \in Worker, Break(w)
      PROVE  CountInv'
  <2>1. /\ pending_tasks_' = pending_tasks_ \ Dropped
        /\ UNCHANGED <<tasks, waiting_thread_count_, blocking_shutdown_thread_count_,
                       blocking_shutdown_pending_task_count_>>
    BY <1>4 DEF Break, inTasks
  <2>2. Idlers' = Idlers /\ \A v \in Worker : worker'[v].task = worker[v].task
    BY <1>4, BreakKeeps
  <2>3. Blockers' = Blockers
    BY <2>1, <2>2, TasksStay, HeldStays
  <2>4. \A d \in Dropped : tasks[d].behavior # "BLOCK"
    BY WorkFacts
  <2>5. PendingBlockers' = PendingBlockers
    BY <2>1, <2>4 DEF PendingBlockers
  <2> QED
    BY <2>1, <2>2, <2>3, <2>5, CountsStay
<1>5. ASSUME NEW c \in Client \cup Worker, NEW token \in 0..MaxTokens,
             NEW behavior \in Behavior, PostTask(c, token, behavior)
      PROVE  CountInv'
  <2> DEFINE n == Len(tasks) + 1
  <2>1. /\ UNCHANGED worker /\ SameTasks /\ n \notin 1..Len(tasks)
        /\ tasks'[n] = [token |-> token, behavior |-> behavior]
        /\ pending_tasks_' = pending_tasks_ \cup {n}
    BY <1>5, PostKeeps DEF SameTasks
  <2>2. /\ blocking_shutdown_pending_task_count_' =
             blocking_shutdown_pending_task_count_ + IF behavior = "BLOCK" THEN 1 ELSE 0
        /\ UNCHANGED <<waiting_thread_count_, blocking_shutdown_thread_count_>>
    BY <1>5 DEF PostTask, inTasks
  <2>3. Blockers' = Blockers
    BY <2>1, HeldStays
  <2>4. Idlers' = Idlers
    BY <2>1 DEF Idlers, At
  <2> HIDE DEF n
  <2>5. \A t \in pending_tasks_ : tasks'[t] = tasks[t] /\ t # n
    BY <2>1 DEF SameTasks, PoolTyped
  <2>6. blocking_shutdown_pending_task_count_' = Cardinality(PendingBlockers')
    <3>1. CASE behavior = "BLOCK"
      <4>1. PendingBlockers' = PendingBlockers \cup {n} /\ n \notin PendingBlockers
        BY <2>1, <2>5, <3>1 DEF PendingBlockers
      <4>2. Cardinality(PendingBlockers') = Cardinality(PendingBlockers) + 1
        BY <1>0, <4>1, OneMore
      <4> QED
        BY <2>2, <3>1, <4>2 DEF CountInv
    <3>2. CASE behavior # "BLOCK"
      <4>1. PendingBlockers' = PendingBlockers
        BY <2>1, <2>5, <3>2 DEF PendingBlockers
      <4>2. blocking_shutdown_pending_task_count_' = blocking_shutdown_pending_task_count_ + 0
        BY <2>2, <3>2
      <4>3. Cardinality(PendingBlockers) \in Nat
        BY <1>0, FS_CardinalityType
      <4> QED
        BY <4>1, <4>2, <4>3 DEF CountInv
    <3> QED
      BY <3>1, <3>2
  <2> QED
    BY <2>2, <2>3, <2>4, <2>6 DEF CountInv
<1> QED
  BY <1>1, <1>2, <1>3, <1>4, <1>5, StepKinds DEF TaskStep

-----------------------------------------------------------------------------
(* A sequence runs one task at a time, and what is dropped precedes what is  *)
(* left of it.                                                               *)

LEMMA SequenceStays ==
  ASSUME SequenceInv, Held' = Held, UNCHANGED current_sequences_,
         \A v \in Held : worker'[v].task = worker[v].task /\ TokenOf(v)' = TokenOf(v),
         \A v \in Held : worker[v].task \notin pending_tasks_'
  PROVE  SequenceInv'
<1>1. {TokenOf(w) : w \in Held}' = {TokenOf(w) : w \in Held}
  OBVIOUS
<1> QED
  BY <1>1 DEF SequenceInv

LEMMA StepSequences ==
  ASSUME PoolInv, PoolNext
  PROVE  SequenceInv'
<1> USE DEF PoolInv
<1>1. CASE Plain
  <2>1. /\ UNCHANGED <<pending_tasks_, current_sequences_>>
        /\ \A v \in Worker : worker'[v].task = worker[v].task
    BY <1>1 DEF Plain, KeepsWork, taskList, inTasks
  <2>2. Held' = Held /\ \A v \in Held : TokenOf(v)' = TokenOf(v)
    BY <1>1, PlainFacts
  <2>3. \A v \in Held : worker[v].task \notin pending_tasks_'
    BY <2>1 DEF SequenceInv
  <2> QED
    BY <2>1, <2>2, <2>3, HeldTyped, SequenceStays
<1>2. ASSUME NEW w \in Worker, Break(w)
      PROVE  SequenceInv'
  <2>1. /\ pending_tasks_' = pending_tasks_ \ Dropped
        /\ UNCHANGED <<tasks, current_sequences_>>
    BY <1>2 DEF Break, inTasks
  <2>2. \A v \in Worker : worker'[v].task = worker[v].task
    BY <1>2, BreakKeeps
  <2>3. Held' = Held /\ \A v \in Held : TokenOf(v)' = TokenOf(v)
    BY <2>1, <2>2, TasksStay, HeldStays
  <2>4. \A v \in Held : worker[v].task \notin pending_tasks_'
    BY <2>1 DEF SequenceInv
  <2> QED
    BY <2>1, <2>2, <2>3, <2>4, HeldTyped, SequenceStays
<1>3. ASSUME NEW c \in Client \cup Worker, NEW token \in 0..MaxTokens,
             NEW behavior \in Behavior, PostTask(c, token, behavior)
      PROVE  SequenceInv'
  <2> DEFINE n == Len(tasks) + 1
  <2>1. /\ UNCHANGED worker /\ SameTasks /\ n \notin 1..Len(tasks)
        /\ pending_tasks_' = pending_tasks_ \cup {n}
    <3>1. /\ UNCHANGED worker /\ Len(tasks) \in Nat /\ pending_tasks_' = pending_tasks_ \cup {n}
          /\ \A t \in 1..Len(tasks) : tasks'[t] = tasks[t]
      BY <1>3, PostKeeps
    <3>2. n \notin 1..Len(tasks)
      BY <3>1
    <3> QED
      BY <3>1, <3>2 DEF SameTasks
  <2> HIDE DEF n
  <2>2. UNCHANGED current_sequences_
    BY <1>3 DEF PostTask, inTasks
  <2>3. Held' = Held /\ \A v \in Held : TokenOf(v)' = TokenOf(v)
    BY <2>1, HeldStays
  <2>4. \A v \in Held : worker[v].task \notin pending_tasks_'
    BY <2>1, HeldTyped DEF SequenceInv
  <2> QED
    BY <2>1, <2>2, <2>3, <2>4, HeldTyped, SequenceStays
<1>4. ASSUME NEW w \in Worker, GetWork(w)
      PROVE  SequenceInv'
  <2> DEFINE t == Min(Found)
  <2>1. /\ t \in pending_tasks_ /\ w \notin Held /\ Held' = Held \cup {w}
        /\ worker'[w].task = t /\ TokenOf(w)' = tasks[t].token
        /\ \A v \in Held : worker'[v].task = worker[v].task /\ TokenOf(v)' = TokenOf(v)
    BY <1>4, GetWorkHeld
  <2>2. /\ t \in Runnable /\ pending_tasks_' = pending_tasks_ \ (Dropped \cup {t})
        /\ current_sequences_' = current_sequences_ \cup ({tasks[t].token} \ {0})
    BY <1>4, GetWorkFacts, WorkFacts
  <2>3. tasks[t].token = 0 \/ tasks[t].token \notin current_sequences_
    BY <2>2, WorkFacts
  <2> HIDE DEF t
  <2>4. {TokenOf(v) : v \in Held}' = {TokenOf(v) : v \in Held} \cup {tasks[t].token}
    BY <2>1
  <2>5. current_sequences_' = {TokenOf(v) : v \in Held}' \ {0}
    BY <2>2, <2>4 DEF SequenceInv
  <2>6. \A v \in Held : /\ worker[v].task # t
                        /\ TokenOf(v) = 0 \/ TokenOf(v) # tasks[t].token
    BY <2>1, <2>3 DEF SequenceInv
  <2>7. \A v \in Held' : worker'[v].task \notin pending_tasks_'
    BY <2>1, <2>2 DEF SequenceInv
  <2>8. ASSUME NEW u \in Held', NEW v \in Held', u # v
        PROVE  /\ worker'[u].task # worker'[v].task
               /\ TokenOf(u)' = 0 \/ TokenOf(u)' # TokenOf(v)'
    BY <2>1, <2>6, <2>8 DEF SequenceInv
  <2> QED
    BY <2>5, <2>7, <2>8 DEF SequenceInv
<1>5. ASSUME NEW w \in Worker, DidRunWorkerTask(w)
      PROVE  SequenceInv'
  <2>1. /\ w \in Held /\ Held' = Held \ {w}
        /\ \A v \in Worker : v # w => worker'[v] = worker[v]
        /\ \A v \in Held' : TokenOf(v)' = TokenOf(v)
    BY <1>5, DidRunHeld
  <2>2. UNCHANGED pending_tasks_ /\ current_sequences_' = current_sequences_ \ {TokenOf(w)}
    BY <1>5 DEF DidRunWorkerTask, taskList, TokenOf
  <2>3. \A v \in Held' : v \in Held /\ worker'[v].task = worker[v].task
    BY <2>1 DEF Held
  <2>4. {TokenOf(v) : v \in Held}' = {TokenOf(v) : v \in Held \ {w}}
    BY <2>1
  <2>5. \A v \in Held \ {w} : TokenOf(v) = 0 \/ TokenOf(v) # TokenOf(w)
    BY <2>1 DEF SequenceInv
  <2>6. current_sequences_' = {TokenOf(v) : v \in Held}' \ {0}
    BY <2>1, <2>2, <2>4, <2>5 DEF SequenceInv
  <2>7. \A v \in Held' : worker'[v].task \notin pending_tasks_'
    BY <2>2, <2>3 DEF SequenceInv
  <2>8. ASSUME NEW u \in Held', NEW v \in Held', u # v
        PROVE  /\ worker'[u].task # worker'[v].task
               /\ TokenOf(u)' = 0 \/ TokenOf(u)' # TokenOf(v)'
    BY <2>1, <2>3, <2>8 DEF SequenceInv
  <2> QED
    BY <2>6, <2>7, <2>8 DEF SequenceInv
<1> QED
  BY <1>1, <1>2, <1>3, <1>4, <1>5, StepKinds DEF TaskStep

\* A task of a sequence that runs is not runnable.
LEMMA RunsAlone ==
  ASSUME PoolInv, NEW s \in Runnable, NEW v \in Worker, At(v, "task")
  PROVE  ~SameSequence(s, worker[v].task)
<1>1. v \in Held
  BY DEF PoolInv, ShapeInv, Held
<1>2. TokenOf(v) # 0 => TokenOf(v) \in current_sequences_
  BY <1>1 DEF PoolInv, SequenceInv
<1> QED
  BY <1>2, WorkFacts DEF PoolInv, SameSequence, TokenOf

LEMMA SameRunnable ==
  ASSUME NEW s \in Runnable, NEW p \in pending_tasks_, SameSequence(s, p)
  PROVE  p \in Runnable
  BY DEF Runnable, SameSequence, IsSequenceTokenRunnable

\* What is to be deleted precedes what runs and what is pending.
DoomedBy(w, D) ==
  \A t \in D :
    /\ \A v \in Worker : At(v, "task") /\ SameSequence(t, worker[v].task)
                           => t < worker[v].task
    /\ \A p \in pending_tasks_ : SameSequence(t, p) => t < p

LEMMA DoomedStays ==
  ASSUME PoolTyped, ShapeInv, DoomedInv, SameTasks, pending_tasks_' \subseteq pending_tasks_,
         \A v \in Worker : /\ worker'[v].doomed \subseteq worker[v].doomed
                           /\ At(v, "task")' => At(v, "task") /\ worker'[v].task = worker[v].task
  PROVE  DoomedInv'
<1> SUFFICES ASSUME NEW w \in Worker, NEW t \in worker'[w].doomed
             PROVE  /\ \A v \in Worker : At(v, "task")' /\ SameSequence(t, worker[v].task)'
                                           => t < worker'[v].task
                    /\ \A p \in pending_tasks_' : SameSequence(t, p)' => t < p
  BY DEF DoomedInv
<1>1. t \in worker[w].doomed /\ t \in 1..Len(tasks)
  BY WorkerTyped
<1>2. ASSUME NEW v \in Worker, At(v, "task")', SameSequence(t, worker[v].task)'
      PROVE  t < worker'[v].task
  <2>1. At(v, "task") /\ worker'[v].task = worker[v].task
    BY <1>2
  <2>2. worker[v].task \in 1..Len(tasks)
    BY <2>1, WorkerTyped DEF ShapeInv
  <2> QED
    BY <1>1, <1>2, <2>1, <2>2 DEF DoomedInv, SameSequence, SameTasks
<1>3. ASSUME NEW p \in pending_tasks_', SameSequence(t, p)'
      PROVE  t < p
  <2>1. p \in pending_tasks_ /\ p \in 1..Len(tasks)
    BY DEF PoolTyped
  <2> QED
    BY <1>1, <1>3, <2>1 DEF DoomedInv, SameSequence, SameTasks
<1> QED
  BY <1>2, <1>3

\* What GetWork drops is in the right place, and what others have to delete too.
LEMMA DroppedFirst ==
  ASSUME PoolInv, NEW t \in Dropped
  PROVE  /\ \A v \in Worker : At(v, "task") => ~SameSequence(t, worker[v].task)
         /\ Found # {} => t < Min(Found)
         /\ \A p \in pending_tasks_ \ Dropped : SameSequence(t, p) => Found # {} /\ t < p
<1>1. t \in Runnable /\ t \in Nat
  BY WorkFacts, WorkerTyped DEF PoolInv
<1>2. \A v \in Worker : At(v, "task") => ~SameSequence(t, worker[v].task)
  BY <1>1, RunsAlone
<1>3. Found # {} => t < Min(Found)
  BY WorkFacts DEF PoolInv
<1>4. ASSUME NEW p \in pending_tasks_ \ Dropped, SameSequence(t, p)
      PROVE  Found # {} /\ t < p
  <2>1. p \in Runnable \ Dropped
    BY <1>1, <1>4, SameRunnable
  <2>2. Found # {} /\ p \in Nat /\ Min(Found) \in Nat /\ ~(p < Min(Found))
    <3>1. p \in Found \/ (Found # {} /\ ~(p < Min(Found)))
      BY <2>1, WorkFacts DEF PoolInv
    <3>2. Runnable \subseteq 1..Len(tasks) /\ Found \subseteq Runnable
          /\ (Found # {} => Min(Found) \in Found /\ \A f \in Found : Min(Found) <= f)
      BY WorkFacts DEF PoolInv
    <3>3. 1..Len(tasks) \subseteq Nat
      <4>1. Len(tasks) \in Nat
        BY DEF PoolInv, PoolTyped
      <4> QED
        BY <4>1
    <3>4. p \in Nat /\ (Found # {} => Min(Found) \in Nat)
      BY <2>1, <3>2, <3>3
    <3> QED
      BY <3>1, <3>2, <3>4
  <2> QED
    BY <1>1, <1>3, <2>2
<1> QED
  BY <1>2, <1>3, <1>4

LEMMA GetWorkDoomed ==
  ASSUME PoolInv, NEW w \in Worker, GetWork(w)
  PROVE  DoomedInv'
<1> DEFINE t == Min(Found)
<1>1. /\ At(w, "look") /\ t \in Found /\ Becomes(w, "task", t, Dropped)
      /\ pending_tasks_' = pending_tasks_ \ (Dropped \cup {t})
  BY GetWorkFacts DEF PoolInv
<1>2. t \in pending_tasks_ /\ UNCHANGED tasks
  BY <1>1, WorkFacts DEF PoolInv, GetWork
<1>3. \A d \in Dropped : /\ \A v \in Worker : At(v, "task") => ~SameSequence(d, worker[v].task)
                         /\ d < t
                         /\ \A p \in pending_tasks_ \ Dropped : SameSequence(d, p) => d < p
  BY <1>1, DroppedFirst
<1> HIDE DEF t
<1>4. /\ worker'[w].at = "task" /\ worker'[w].task = t /\ worker'[w].doomed = Dropped
      /\ \A v \in Worker : v # w => worker'[v] = worker[v]
  BY <1>1 DEF Becomes
<1>5. \A s, p : SameSequence(s, p)' <=> SameSequence(s, p)
  BY <1>2 DEF SameSequence
<1>6. ASSUME NEW d \in Dropped
      PROVE  /\ \A v \in Worker : worker'[v].at = "task" /\ SameSequence(d, worker'[v].task)
                                    => d < worker'[v].task
             /\ \A p \in pending_tasks_' : SameSequence(d, p) => d < p
  <2>1. ASSUME NEW v \in Worker, worker'[v].at = "task", SameSequence(d, worker'[v].task)
        PROVE  d < worker'[v].task
    BY <1>3, <1>4, <2>1 DEF At
  <2> QED
    BY <1>1, <1>3, <2>1
<1>7. ASSUME NEW u \in Worker, u # w, NEW d \in worker[u].doomed
      PROVE  /\ \A v \in Worker : worker'[v].at = "task" /\ SameSequence(d, worker'[v].task)
                                    => d < worker'[v].task
             /\ \A p \in pending_tasks_' : SameSequence(d, p) => d < p
  <2>1. ASSUME NEW v \in Worker, worker'[v].at = "task", SameSequence(d, worker'[v].task)
        PROVE  d < worker'[v].task
    <3>1. CASE v = w
      BY <1>2, <1>4, <1>7, <2>1, <3>1 DEF PoolInv, DoomedInv
    <3>2. CASE v # w
      BY <1>4, <1>7, <2>1, <3>2 DEF PoolInv, DoomedInv, At
    <3> QED
      BY <3>1, <3>2
  <2>2. \A p \in pending_tasks_' : SameSequence(d, p) => d < p
    BY <1>1, <1>7 DEF PoolInv, DoomedInv
  <2> QED
    BY <2>1, <2>2
<1>8. ASSUME NEW u \in Worker, NEW d \in worker'[u].doomed
      PROVE  /\ \A v \in Worker : worker'[v].at = "task" /\ SameSequence(d, worker'[v].task)
                                    => d < worker'[v].task
             /\ \A p \in pending_tasks_' : SameSequence(d, p) => d < p
  <2>1. CASE u = w
    BY <1>4, <1>6, <2>1
  <2>2. CASE u # w
    BY <1>4, <1>7, <1>8, <2>2
  <2> QED
    BY <2>1, <2>2
<1>9. ASSUME NEW u \in Worker, NEW d \in worker'[u].doomed
      PROVE  /\ \A v \in Worker : At(v, "task")' /\ SameSequence(d, worker[v].task)'
                                    => d < worker'[v].task
             /\ \A p \in pending_tasks_' : SameSequence(d, p)' => d < p
  <2>1. \A v \in Worker : At(v, "task")' /\ SameSequence(d, worker[v].task)'
                            => worker'[v].at = "task" /\ SameSequence(d, worker'[v].task)
    BY <1>2 DEF At, SameSequence
  <2> QED
    BY <1>5, <1>8, <2>1
<1> QED
  BY <1>9 DEF DoomedInv

LEMMA BreakDoomed ==
  ASSUME PoolInv, NEW w \in Worker, Break(w)
  PROVE  DoomedInv'
<1>1. /\ At(w, "look") /\ Becomes(w, "drop", worker[w].task, Dropped)
      /\ pending_tasks_' = pending_tasks_ \ Dropped /\ UNCHANGED tasks /\ Found = {}
  BY DeleteFacts DEF PoolInv, Break
<1>2. \A d \in Dropped : /\ \A v \in Worker : At(v, "task") => ~SameSequence(d, worker[v].task)
                         /\ \A p \in pending_tasks_ \ Dropped : ~SameSequence(d, p)
  BY <1>1, DroppedFirst
<1>3. /\ worker'[w].at = "drop" /\ worker'[w].doomed = Dropped
      /\ \A v \in Worker : v # w => worker'[v] = worker[v]
  BY <1>1 DEF Becomes
<1>4. \A v \in Worker : At(v, "task")' => At(v, "task") /\ worker'[v].task = worker[v].task
  BY <1>3 DEF At
<1>5. ASSUME NEW u \in Worker, NEW d \in worker'[u].doomed
      PROVE  /\ \A v \in Worker : At(v, "task")' /\ SameSequence(d, worker[v].task)'
                                    => d < worker'[v].task
             /\ \A p \in pending_tasks_' : SameSequence(d, p)' => d < p
  <2>1. \A v \in Worker : At(v, "task")' /\ SameSequence(d, worker[v].task)'
                            => At(v, "task") /\ worker'[v].task = worker[v].task
                               /\ SameSequence(d, worker[v].task)
    BY <1>1, <1>4 DEF SameSequence
  <2>2. \A p \in pending_tasks_' : SameSequence(d, p)' => p \in pending_tasks_ \ Dropped
                                                          /\ SameSequence(d, p)
    BY <1>1 DEF SameSequence
  <2>3. CASE u = w
    BY <1>2, <1>3, <2>1, <2>2, <2>3
  <2>4. CASE u # w
    <3>1. d \in worker[u].doomed
      BY <1>3, <1>5, <2>4
    <3>2. /\ \A v \in Worker : At(v, "task") /\ SameSequence(d, worker[v].task)
                                 => d < worker[v].task
          /\ \A p \in pending_tasks_ : SameSequence(d, p) => d < p
      BY <3>1 DEF PoolInv, DoomedInv
    <3> QED
      BY <2>1, <2>2, <3>2
  <2> QED
    BY <2>3, <2>4
<1> QED
  BY <1>5 DEF DoomedInv

LEMMA PostDoomed ==
  ASSUME PoolInv, NEW c \in Client \cup Worker, NEW token \in 0..MaxTokens,
         NEW behavior \in Behavior, PostTask(c, token, behavior)
  PROVE  DoomedInv'
<1> DEFINE n == Len(tasks) + 1
<1>1. /\ UNCHANGED worker /\ SameTasks /\ \A t \in 1..Len(tasks) : t < n
      /\ pending_tasks_' = pending_tasks_ \cup {n}
  <2>1. /\ UNCHANGED worker /\ Len(tasks) \in Nat /\ pending_tasks_' = pending_tasks_ \cup {n}
        /\ \A t \in 1..Len(tasks) : tasks'[t] = tasks[t]
    BY PostKeeps DEF PoolInv
  <2>2. \A t \in 1..Len(tasks) : t < n
    BY <2>1
  <2> QED
    BY <2>1, <2>2 DEF SameTasks
<1> HIDE DEF n
<1>2. ASSUME NEW w \in Worker, NEW t \in worker'[w].doomed
      PROVE  /\ \A v \in Worker : At(v, "task")' /\ SameSequence(t, worker[v].task)'
                                    => t < worker'[v].task
             /\ \A p \in pending_tasks_' : SameSequence(t, p)' => t < p
  <2>1. t \in worker[w].doomed /\ t \in 1..Len(tasks)
    BY <1>1, WorkerTyped DEF PoolInv
  <2>2. ASSUME NEW v \in Worker, At(v, "task")', SameSequence(t, worker[v].task)'
        PROVE  t < worker'[v].task
    <3>1. At(v, "task") /\ worker'[v].task = worker[v].task
      BY <1>1, <2>2 DEF At
    <3>2. worker[v].task \in 1..Len(tasks)
      BY <3>1, WorkerTyped DEF PoolInv, ShapeInv
    <3> QED
      BY <1>1, <2>1, <2>2, <3>1, <3>2 DEF PoolInv, DoomedInv, SameSequence, SameTasks
  <2>3. ASSUME NEW p \in pending_tasks_', SameSequence(t, p)'
        PROVE  t < p
    <3>1. CASE p = n
      BY <1>1, <2>1, <3>1
    <3>2. CASE p \in pending_tasks_
      <4>1. p \in 1..Len(tasks)
        BY <3>2 DEF PoolInv, PoolTyped
      <4> QED
        BY <1>1, <2>1, <2>3, <3>2, <4>1 DEF PoolInv, DoomedInv, SameSequence, SameTasks
    <3> QED
      BY <1>1, <3>1, <3>2
  <2> QED
    BY <2>2, <2>3
<1> QED
  BY <1>2 DEF DoomedInv

LEMMA StepDoomed ==
  ASSUME PoolInv, PoolNext
  PROVE  DoomedInv'
<1>1. CASE Plain
  <2>1. /\ UNCHANGED <<tasks, pending_tasks_>>
        /\ \A v \in Worker : /\ worker'[v].doomed \subseteq worker[v].doomed
                             /\ At(v, "task")' => At(v, "task") /\ worker'[v].task = worker[v].task
    BY <1>1 DEF Plain, KeepsWork, taskList, At
  <2> QED
    BY <2>1, TasksStay, DoomedStays DEF PoolInv
<1>2. ASSUME NEW w \in Worker, DidRunWorkerTask(w)
      PROVE  DoomedInv'
  <2>1. /\ UNCHANGED tasks /\ worker'[w].at = "look" /\ worker'[w].doomed = {}
        /\ \A v \in Worker : v # w => worker'[v] = worker[v]
    BY <1>2, DidRunHeld
  <2>2. UNCHANGED pending_tasks_
    BY <1>2 DEF DidRunWorkerTask, taskList
  <2>3. \A v \in Worker : /\ worker'[v].doomed \subseteq worker[v].doomed
                          /\ At(v, "task")' => At(v, "task") /\ worker'[v].task = worker[v].task
    BY <2>1 DEF At
  <2> QED
    BY <2>1, <2>2, <2>3, TasksStay, DoomedStays DEF PoolInv
<1> QED
  BY <1>1, <1>2, GetWorkDoomed, BreakDoomed, PostDoomed, StepKinds DEF TaskStep

-----------------------------------------------------------------------------
(* The invariant and what follows from it.                                   *)

LEMMA PoolInit_Inv ==
  ASSUME PoolInit
  PROVE  PoolInv
<1> USE DEF PoolInit
<1>1. PoolTyped
  <2>1. worker \in [Worker -> Working]
    BY DEF Working, Places
  <2>2. tasks \in Seq(Posted) /\ pending_tasks_ \in SUBSET (1..Len(tasks))
    OBVIOUS
  <2>3. \A w \in Worker : /\ worker[w].task \in 0..Len(tasks)
                          /\ worker[w].doomed \subseteq 1..Len(tasks)
    BY <2>2
  <2> QED
    BY <2>1, <2>2, <2>3 DEF PoolTyped
<1>2. ShapeInv
  BY DEF ShapeInv, At
<1>3. CreationInv
  <2>1. Starters = {} /\ Created = {}
    BY DEF Starters, Created, At
  <2>2. \A w \in Worker : ~(w <= threads_)
    BY DEF Worker
  <2>3. Starters \cup Created = {}
    BY <2>1
  <2> QED
    BY <2>1, <2>2, <2>3 DEF CreationInv, At
<1>4. LockInv
  BY DEF LockInv, InLock, At
<1>5. Held = {}
  BY DEF Held
<1>6. CountInv
  <2>1. Idlers = {} /\ Blockers = {} /\ PendingBlockers = {}
    BY <1>5 DEF Idlers, Blockers, PendingBlockers, At
  <2> QED
    BY <2>1, FS_EmptySet DEF CountInv
<1>7. SequenceInv
  BY <1>5 DEF SequenceInv
<1>8. DoomedInv
  BY DEF DoomedInv
<1>9. ClientInv
  BY PoolAssumption DEF ClientInv
<1> QED
  BY <1>1, <1>2, <1>3, <1>4, <1>6, <1>7, <1>8, <1>9 DEF PoolInv

LEMMA PoolStutter ==
  ASSUME PoolInv, UNCHANGED poolVars
  PROVE  PoolInv'
<1> USE DEF PoolInv, poolVars, taskList, inTasks, creation, tokens, object
<1>1. PoolTyped'
  BY DEF PoolTyped
<1>2. ShapeInv'
  BY DEF ShapeInv, At
<1>3. CreationInv'
  BY DEF CreationInv, Starters, Created, At
<1>4. LockInv'
  BY DEF LockInv, InLock, At
<1>5. CountInv'
  BY DEF CountInv, Idlers, Blockers, PendingBlockers, Held, At
<1>6. SequenceInv'
  BY DEF SequenceInv, TokenOf, Held
<1>7. DoomedInv'
  BY DEF DoomedInv, SameSequence, At
<1>8. ClientInv'
  BY DEF ClientInv, At
<1> QED
  BY <1>1, <1>2, <1>3, <1>4, <1>5, <1>6, <1>7, <1>8

LEMMA PoolStep ==
  ASSUME PoolInv, [PoolNext]_poolVars
  PROVE  PoolInv'
<1>1. CASE PoolNext
  BY <1>1, StepTyped, StepShapes, StepCreates, StepCounts, StepSequences, StepDoomed,
     StepClients DEF PoolInv
<1> QED
  BY <1>1, PoolStutter

LEMMA PoolInvHolds == PoolSpec => []PoolInv
<1>1. PoolInit => PoolInv
  BY PoolInit_Inv
<1>2. PoolInv /\ [PoolNext]_poolVars => PoolInv'
  BY PoolStep
<1> QED
  BY <1>1, <1>2, PTL DEF PoolSpec

LEMMA InvIsSafe ==
  ASSUME PoolInv
  PROVE  PoolSafe
<1> USE DEF PoolInv
<1>1. /\ waiting_thread_count_ =
           Cardinality({w \in Worker : At(w, "wait") \/ At(w, "woken")})
      /\ blocking_shutdown_thread_count_ =
           Cardinality({w \in Held : tasks[worker[w].task].behavior # "CONTINUE"})
      /\ blocking_shutdown_pending_task_count_ =
           Cardinality({t \in pending_tasks_ : tasks[t].behavior = "BLOCK"})
  BY DEF CountInv, Idlers, Blockers, PendingBlockers
<1>2. current_sequences_ = {tasks[worker[w].task].token : w \in Held} \ {0}
  BY DEF SequenceInv, TokenOf
<1>3. Cardinality(Starters \cup Created) = IF thread_being_created_ THEN 1 ELSE 0
  <2>1. CASE thread_being_created_
    <3>1. PICK c \in Client \cup Worker : Starters \cup Created = {c}
      BY <2>1 DEF CreationInv
    <3> QED
      BY <2>1, <3>1, FS_Singleton
  <2>2. CASE ~thread_being_created_
    <3>1. Starters \cup Created = {}
      BY <2>2 DEF CreationInv
    <3> QED
      BY <2>2, <3>1, FS_EmptySet
  <2> QED
    BY <2>1, <2>2
<1>4. CountersAgree
  BY <1>1, <1>2, <1>3 DEF CountersAgree, Starters, Created
<1>5. DeletedInTurn
  BY DEF DeletedInTurn, DoomedInv, SameSequence
<1>6. DeletedAlone
  <2>1. ASSUME pool # "live"
        PROVE  /\ shutdown_called_ /\ \A w \in Worker : At(w, "none") \/ At(w, "ended")
               /\ \A c \in Client : client[c] \in {"idle", "down"} /\ duty[c] = {}
    BY <2>1, PoolAssumption DEF ClientInv
  <2> QED
    BY <2>1 DEF DeletedAlone
<1> QED
  BY <1>4, <1>5, <1>6 DEF PoolSafe

\* In every run the counters are what they count, no task of a sequence is
\* deleted before one of it that runs, and the pool is deleted when nobody is
\* in it: for any number of clients, workers, tasks and tokens.
THEOREM PoolIsSafe == PoolSpec => []PoolSafe
<1>1. PoolInv => PoolSafe
  BY InvIsSafe
<1> QED
  BY <1>1, PoolInvHolds, PTL

-----------------------------------------------------------------------------
(* The pool does what SequencedTasks promises.                               *)

Running == {worker[w].task : w \in {v \in Worker : At(v, "task")}}
Phase == IF client[Main] = "down" THEN "closed"
         ELSE IF shutdown_called_ THEN "closing" ELSE "open"

\* The steps that the promise does not see.
KeepsRunning ==
  \A v \in Worker : /\ At(v, "task")' <=> At(v, "task")
                    /\ At(v, "task") => worker'[v].task = worker[v].task
KeepsPhase ==
  UNCHANGED shutdown_called_ /\ (client'[Main] = "down" <=> client[Main] = "down")

LEMMA SameRunning ==
  ASSUME KeepsRunning
  PROVE  Running' = Running
BY DEF KeepsRunning, Running

LEMMA SamePhase ==
  ASSUME KeepsPhase
  PROVE  Phase' = Phase
BY DEF KeepsPhase, Phase

Unseen == UNCHANGED taskList /\ KeepsRunning /\ KeepsPhase

LEMMA UnseenStutters ==
  ASSUME Unseen
  PROVE  UNCHANGED Promise!taskVars
<1>1. Running' = Running /\ Phase' = Phase /\ UNCHANGED <<tasks, pending_tasks_>>
  BY SameRunning, SamePhase DEF Unseen, taskList
<1> QED
  BY <1>1 DEF Promise!taskVars, Running, Phase

LEMMA MovesUnseen ==
  ASSUME PoolTyped, NEW w \in Worker, NEW from, NEW to, Moves(w, from, to),
         from # "task", to # "task"
  PROVE  KeepsRunning
BY DEF Moves, Becomes, KeepsRunning, At

LEMMA SignalUnseen ==
  ASSUME PoolTyped, SignalHasWork
  PROVE  KeepsRunning
<1>1. CASE worker' = worker
  BY <1>1 DEF KeepsRunning, At
<1>2. ASSUME NEW w \in Worker, Moves(w, "wait", "woken")
      PROVE  KeepsRunning
  BY <1>2, MovesUnseen
<1> QED
  BY <1>1, <1>2, SignalFacts

LEMMA ClientsUnseen ==
  ASSUME PoolTyped, UNCHANGED shutdown_called_,
         \/ UNCHANGED client
         \/ SignalClients("flushing", "flush")
         \/ SignalClients("closing", "shutdown")
  PROVE  KeepsPhase
<1>1. \A c \in Client : \/ client'[c] = client[c]
                        \/ client[c] = "flushing" /\ client'[c] = "flush"
                        \/ client[c] = "closing" /\ client'[c] = "shutdown"
  BY ClientsTyped
<1> QED
  BY <1>1, PoolAssumption DEF KeepsPhase

\* The steps that start, drop, post or end a task, and the shutdown.
Seen ==
  \/ \E w \in Worker : GetWork(w) \/ Break(w) \/ TaskDone(w)
  \/ \E c \in Client \cup Worker :
       \E token \in 0..MaxTokens, behavior \in Behavior : PostTask(c, token, behavior)
  \/ Shutdown \/ WaitForShutdown

LEMMA StepUnseen ==
  ASSUME PoolInv, PoolNext, ~Seen
  PROVE  Unseen
<1> USE DEF PoolInv
<1> DEFINE Good == UNCHANGED taskList /\ KeepsRunning /\ KeepsPhase
<1> SUFFICES Good
  BY DEF Unseen
<1>1. ASSUME NEW w \in Worker, NEW from, NEW to, Moves(w, from, to),
             from # "task", to # "task"
      PROVE  KeepsRunning
  BY <1>1, MovesUnseen
<1>2. ASSUME NEW w \in Worker, Enter(w)
      PROVE  Good
  BY <1>1, <1>2, MoveFacts, ClientsUnseen DEF Enter
<1>3. ASSUME NEW w \in Worker, WakeUp(w)
      PROVE  Good
  BY <1>1, <1>3, MoveFacts, ClientsUnseen DEF WakeUp
<1>4. ASSUME NEW w \in Worker, WaitForWork(w)
      PROVE  Good
  <2>1. KeepsRunning
    BY <1>1, <1>4, MoveFacts
  <2> QED
    BY <1>4, <2>1, ClientsUnseen DEF WaitForWork
<1>5. ASSUME NEW w \in Worker, SignalCanShutdown(w)
      PROVE  Good
  BY <1>1, <1>5, MoveFacts, ClientsUnseen DEF SignalCanShutdown
<1>6. ASSUME NEW w \in Worker, ReleaseByWorker(w)
      PROVE  Good
  BY <1>1, <1>6, MoveFacts, ClientsUnseen DEF ReleaseByWorker
<1>7. ASSUME NEW w \in Worker, DidRunWorkerTask(w)
      PROVE  Good
  <2>1. At(w, "done") /\ Becomes(w, "look", 0, worker[w].doomed)
    BY <1>7, DidRunFacts
  <2>2. KeepsRunning
    BY <2>1 DEF Becomes, KeepsRunning, At
  <2> QED
    BY <1>7, <2>2, ClientsUnseen DEF DidRunWorkerTask
<1>8. ASSUME NEW w \in Worker, DeleteOutsideLock(w)
      PROVE  Good
  <2>1. At(w, "task") /\ Becomes(w, "task", worker[w].task, {})
    BY <1>8, DeleteFacts
  <2>2. KeepsRunning
    BY <2>1 DEF Becomes, KeepsRunning, At
  <2> QED
    BY <1>8, <2>2, ClientsUnseen DEF DeleteOutsideLock
<1>9. ASSUME NEW w \in Worker, DeleteUnderLock(w)
      PROVE  Good
  <2>1. At(w, "drop") /\ Becomes(w, "leave", worker[w].task, {})
    BY <1>9, DeleteFacts
  <2>2. KeepsRunning
    BY <2>1 DEF Becomes, KeepsRunning, At
  <2> QED
    BY <1>9, <2>2, ClientsUnseen DEF DeleteUnderLock
<1>10. ASSUME NEW c \in Client \cup Worker, Signal(c) \/ SignalHasWorkForTesting(c)
       PROVE  Good
  BY <1>10, SignalUnseen, ClientsUnseen DEF Signal, SignalHasWorkForTesting
<1>11. ASSUME NEW c \in Client \cup Worker, FinishStartingAdditionalThread(c)
       PROVE  Good
  <2>1. KeepsRunning
    BY <1>1, <1>11, FinishKeeps
  <2> QED
    BY <1>11, <2>1, ClientsUnseen DEF FinishStartingAdditionalThread
<1>12. ASSUME UNCHANGED <<taskList, worker, client, shutdown_called_>>
       PROVE  Good
  BY <1>12, ClientsUnseen DEF KeepsRunning, At
<1>13. ASSUME NEW c \in Client \cup Worker, GetSequenceToken(c)
       PROVE  Good
  BY <1>12, <1>13 DEF GetSequenceToken
<1>14. ASSUME NEW c \in Client, ReleaseByClient(c)
       PROVE  Good
  BY <1>12, <1>14 DEF ReleaseByClient
<1>15. CASE DeleteSoon
  <2>1. UNCHANGED <<taskList, worker, client, shutdown_called_>>
    BY <1>15 DEF DeleteSoon
  <2> QED
    BY <1>12, <2>1
<1>16. ASSUME NEW c \in Client, FlushForTesting(c)
       PROVE  Good
  <2>1. /\ CanCall(c) \/ client[c] = "flush"
        /\ client' = [client EXCEPT ![c] = IF IsIdle(waiting_thread_count_)
                                           THEN "idle" ELSE "flushing"]
        /\ UNCHANGED <<taskList, shutdown_called_, worker>>
    BY <1>16 DEF FlushForTesting
  <2>2. client[c] # "down" /\ client'[c] # "down"
        /\ \A d \in Client : d # c => client'[d] = client[d]
    BY <2>1 DEF CanCall, PoolTyped
  <2>3. KeepsPhase
    BY <2>1, <2>2, PoolAssumption DEF KeepsPhase
  <2>4. KeepsRunning
    BY <2>1 DEF KeepsRunning, At
  <2> QED
    BY <2>1, <2>3, <2>4
<1>17. ASSUME NEW w \in Worker, Locked(w)
       PROVE  Good
  BY <1>2, <1>3, <1>7, <1>17 DEF Locked
<1>18. ASSUME NEW w \in Worker, WorkerStep(w)
       PROVE  Good
  BY <1>4, <1>5, <1>6, <1>8, <1>9, <1>18 DEF WorkerStep, Seen
<1>19. ASSUME NEW c \in Client \cup Worker, Duty(c)
       PROVE  Good
  BY <1>10, <1>11, <1>19 DEF Duty
<1>20. ASSUME NEW c \in Client \cup Worker, NEW token \in 0..MaxTokens,
              NEW behavior \in Behavior, PostTask(c, token, behavior)
       PROVE  Good
  BY <1>20 DEF Seen
<1>21. CASE Shutdown \/ WaitForShutdown
  BY <1>21 DEF Seen
<1> QED
  BY <1>10, <1>13, <1>14, <1>15, <1>16, <1>17, <1>18, <1>19, <1>20, <1>21 DEF PoolNext

\* The steps of the promise, in terms of the pool.
Before(t) ==
  {s \in 1..(t - 1) : tasks[s].token # 0 /\ tasks[s].token = tasks[t].token}
Settled == DOMAIN tasks \ (pending_tasks_ \cup Running)

LEMMA ProceedMaps ==
  ASSUME NEW D \in SUBSET pending_tasks_, NEW B \in SUBSET pending_tasks_,
         Cardinality(B) <= 1,
         \A t \in D \cup B : Before(t) \subseteq Settled \cup D,
         \A t \in D : Phase # "open" /\ tasks[t].behavior # "BLOCK",
         \A t \in B : Phase = "open" \/ tasks[t].behavior = "BLOCK",
         pending_tasks_' = pending_tasks_ \ (D \cup B),
         Running' = Running \cup B,
         UNCHANGED tasks, Phase' = Phase
  PROVE  Promise!Next
<1>1. \A t : Promise!Before(t) = Before(t)
  BY DEF Promise!Before, Before
<1>2. Promise!Settled = Settled
  BY DEF Promise!Settled, Settled, Running
<1>3. \A t \in D \cup B : Promise!Before(t) \subseteq Promise!Settled \cup D
  BY <1>1, <1>2
<1>4. Promise!Proceed(D, B)
  <2>1. D \cup B \subseteq pending_tasks_
    OBVIOUS
  <2>2. /\ \A t \in D : Phase # "open" /\ tasks[t].behavior # "BLOCK"
        /\ \A t \in B : Phase = "open" \/ tasks[t].behavior = "BLOCK"
    OBVIOUS
  <2>3. /\ pending_tasks_' = pending_tasks_ \ (D \cup B) /\ Running' = Running \cup B
        /\ Cardinality(B) <= 1
    OBVIOUS
  <2>4. UNCHANGED <<tasks, Phase>>
    OBVIOUS
  <2>5. Promise!Cardinality(B) = Cardinality(B)
    BY Zenon DEF Cardinality, Promise!Cardinality
  <2> QED
    BY <1>3, <2>1, <2>2, <2>3, <2>4, <2>5, Zenon DEF Promise!Proceed, Running, Phase
<1>5. \E d, b \in SUBSET pending_tasks_ : Promise!Proceed(d, b)
  BY <1>4
<1> QED
  BY <1>5 DEF Promise!Next

LEMMA EndMaps ==
  ASSUME NEW t \in Running, Running' = Running \ {t}, Phase' = Phase,
         UNCHANGED <<tasks, pending_tasks_>>
  PROVE  Promise!Next
<1>1. Promise!End(t)
  BY DEF Promise!End, Running, Phase
<1>2. \E u \in Running : Promise!End(u)
  BY <1>1
<1> QED
  BY <1>2 DEF Promise!Next, Running

\* What must come before a task that is taken has settled or is dropped with it.
LEMMA BeforeSettled ==
  ASSUME PoolInv, NEW t \in Runnable, Found # {} => t <= Min(Found)
  PROVE  Before(t) \subseteq Settled \cup Dropped
<1> SUFFICES ASSUME NEW s \in Before(t), s \notin Dropped
             PROVE  s \in Settled
  OBVIOUS
<1>1. t \in 1..Len(tasks) /\ Len(tasks) \in Nat
  <2>1. t \in 1..Len(tasks)
    BY WorkFacts DEF PoolInv
  <2>2. Len(tasks) \in Nat
    BY DEF PoolInv, PoolTyped
  <2> QED
    BY <2>1, <2>2
<1>2. s \in 1..Len(tasks) /\ s < t /\ SameSequence(s, t) /\ SameSequence(t, s)
  BY <1>1 DEF Before, SameSequence
<1>3. s \in DOMAIN tasks
  BY <1>2 DEF PoolInv, PoolTyped
<1>4. s \notin pending_tasks_
  <2>1. SUFFICES ASSUME s \in pending_tasks_
                 PROVE  FALSE
    OBVIOUS
  <2>2. s \in Runnable
    BY <1>2, <2>1, SameRunnable
  <2>3. CASE Found = {}
    BY <2>2, <2>3 DEF Dropped
  <2>4. CASE Found # {}
    <3>1. Min(Found) \in Found /\ \A f \in Found : Min(Found) <= f
      BY <2>4, WorkFacts DEF PoolInv
    <3>2. Min(Found) \in 1..Len(tasks)
      BY <3>1, WorkFacts DEF PoolInv
    <3>3. s < Min(Found)
      BY <1>1, <1>2, <2>4, <3>2
    <3>4. s \notin Found
      BY <1>1, <1>2, <3>1, <3>2, <3>3
    <3> QED
      BY <2>2, <3>3, <3>4 DEF Dropped
  <2> QED
    BY <2>3, <2>4
<1>5. s \notin Running
  <2>1. SUFFICES ASSUME NEW v \in Worker, At(v, "task"), s = worker[v].task
                 PROVE  FALSE
    BY DEF Running
  <2> QED
    BY <1>2, <2>1, RunsAlone
<1> QED
  BY <1>3, <1>4, <1>5 DEF Settled

LEMMA PhaseOpen ==
  ASSUME PoolInv
  PROVE  Phase = "open" <=> ~shutdown_called_
BY DEF PoolInv, ClientInv, Phase

LEMMA GetWorkMaps ==
  ASSUME PoolInv, NEW w \in Worker, GetWork(w)
  PROVE  Promise!Next
<1> DEFINE t == Min(Found)
<1>1. /\ At(w, "look") /\ t \in Found /\ Becomes(w, "task", t, Dropped)
      /\ pending_tasks_' = pending_tasks_ \ (Dropped \cup {t})
  BY GetWorkFacts DEF PoolInv
<1>2. Runnable \subseteq pending_tasks_ /\ Found \subseteq Runnable /\ Dropped \subseteq Runnable
  BY WorkFacts DEF PoolInv
<1>3. t \in 1..Len(tasks) /\ Dropped \subseteq 1..Len(tasks) /\ Len(tasks) \in Nat
  <2>1. t \in 1..Len(tasks) /\ Dropped \subseteq 1..Len(tasks)
    BY <1>1, WorkFacts DEF PoolInv
  <2>2. Len(tasks) \in Nat
    BY DEF PoolInv, PoolTyped
  <2> QED
    BY <2>1, <2>2
<1>4. \A d \in Dropped : shutdown_called_ /\ tasks[d].behavior # "BLOCK" /\ d < t
  BY <1>1, WorkFacts DEF PoolInv
<1>5. UNCHANGED <<tasks, client, shutdown_called_>>
  BY DEF GetWork
<1>6. ~shutdown_called_ \/ tasks[t].behavior = "BLOCK"
  BY <1>1 DEF Found
<1> HIDE DEF t
<1>7. \A d \in Dropped \cup {t} : d <= t
  BY <1>3, <1>4
<1>8. \A d \in Dropped \cup {t} : Before(d) \subseteq Settled \cup Dropped
  BY <1>1, <1>2, <1>7, BeforeSettled DEF t
<1>9. Running' = Running \cup {t}
  <2>1. /\ worker'[w].at = "task" /\ worker'[w].task = t
        /\ \A v \in Worker : v # w => worker'[v] = worker[v]
    BY <1>1 DEF Becomes
  <2>2. worker[w].at = "look"
    BY <1>1 DEF At
  <2> QED
    BY <2>1, <2>2 DEF Running, At
<1>10. Phase' = Phase
  BY <1>5 DEF Phase
<1>11. Cardinality({t}) <= 1
  <2>1. Cardinality({t}) = 1
    BY FS_Singleton
  <2> QED
    BY <2>1
<1>12. \A d \in Dropped : Phase # "open" /\ tasks[d].behavior # "BLOCK"
  BY <1>4, PhaseOpen
<1>13. \A d \in {t} : Phase = "open" \/ tasks[d].behavior = "BLOCK"
  BY <1>6, PhaseOpen
<1>14. Dropped \in SUBSET pending_tasks_ /\ {t} \in SUBSET pending_tasks_
  BY <1>1, <1>2
<1> QED
  BY <1>1, <1>5, <1>8, <1>9, <1>10, <1>11, <1>12, <1>13, <1>14, ProceedMaps

LEMMA BreakMaps ==
  ASSUME PoolInv, NEW w \in Worker, Break(w)
  PROVE  Promise!Next
<1>1. /\ At(w, "look") /\ Becomes(w, "drop", worker[w].task, Dropped)
      /\ pending_tasks_' = pending_tasks_ \ Dropped /\ Found = {}
      /\ UNCHANGED <<tasks, client, shutdown_called_>>
  BY DeleteFacts DEF PoolInv, Break
<1>2. Runnable \subseteq pending_tasks_ /\ Dropped \subseteq Runnable
  BY WorkFacts DEF PoolInv
<1>3. \A d \in Dropped : shutdown_called_ /\ tasks[d].behavior # "BLOCK"
  BY WorkFacts DEF PoolInv
<1>4. \A d \in Dropped : Before(d) \subseteq Settled \cup Dropped
  BY <1>1, <1>2, BeforeSettled
<1>5. Running' = Running
  <2>1. /\ worker'[w].at = "drop"
        /\ \A v \in Worker : v # w => worker'[v] = worker[v]
    BY <1>1 DEF Becomes
  <2>2. worker[w].at = "look"
    BY <1>1 DEF At
  <2> QED
    BY <2>1, <2>2 DEF Running, At
<1>6. Phase' = Phase
  BY <1>1 DEF Phase
<1>7. Cardinality({}) <= 1
  <2>1. Cardinality({}) = 0
    BY FS_EmptySet
  <2> QED
    BY <2>1
<1>8. \A d \in Dropped : Phase # "open" /\ tasks[d].behavior # "BLOCK"
  BY <1>3, PhaseOpen
<1>9. Dropped \in SUBSET pending_tasks_ /\ {} \in SUBSET pending_tasks_
  BY <1>2
<1>10. /\ pending_tasks_' = pending_tasks_ \ (Dropped \cup {}) /\ Running' = Running \cup {}
       /\ \A d \in Dropped \cup {} : Before(d) \subseteq Settled \cup Dropped
  BY <1>1, <1>4, <1>5
<1> QED
  BY <1>1, <1>6, <1>7, <1>8, <1>9, <1>10, ProceedMaps

LEMMA TaskDoneMaps ==
  ASSUME PoolInv, NEW w \in Worker, TaskDone(w)
  PROVE  Promise!Next
<1> DEFINE t == worker[w].task
<1>1. At(w, "task") /\ Becomes(w, "done", worker[w].task, worker[w].doomed)
  BY MoveFacts DEF PoolInv, Moves
<1>2. UNCHANGED <<tasks, pending_tasks_, client, shutdown_called_>>
  BY DEF TaskDone, taskList
<1>3. \A v \in Worker : At(v, "task") => v \in Held
  BY DEF PoolInv, ShapeInv, Held
<1>4. \A v \in Worker : At(v, "task") /\ v # w => worker[v].task # t
  BY <1>1, <1>3 DEF PoolInv, SequenceInv
<1>5. /\ worker'[w].at = "done" /\ \A v \in Worker : v # w => worker'[v] = worker[v]
  BY <1>1 DEF Becomes
<1>6. t \in Running
  BY <1>1 DEF Running
<1> HIDE DEF t
<1>7. ASSUME NEW x
      PROVE  x \in Running' <=> x \in Running \ {t}
  <2>1. x \in Running' <=> \E v \in Worker : worker'[v].at = "task" /\ x = worker'[v].task
    BY DEF Running, At
  <2>2. x \in Running <=> \E v \in Worker : At(v, "task") /\ x = worker[v].task
    BY DEF Running
  <2>3. ASSUME x \in Running'
        PROVE  x \in Running \ {t}
    <3>1. PICK v \in Worker : worker'[v].at = "task" /\ x = worker'[v].task
      BY <2>1, <2>3
    <3>2. v # w /\ At(v, "task") /\ x = worker[v].task
      BY <1>5, <3>1 DEF At
    <3> QED
      BY <1>4, <2>2, <3>2
  <2>4. ASSUME x \in Running \ {t}
        PROVE  x \in Running'
    <3>1. PICK v \in Worker : At(v, "task") /\ x = worker[v].task
      BY <2>2, <2>4
    <3>2. v # w
      BY <2>4, <3>1 DEF t
    <3> QED
      BY <1>5, <2>1, <3>1, <3>2 DEF At
  <2> QED
    BY <2>3, <2>4
<1>8. Running' = Running \ {t}
  BY <1>7
<1>9. Phase' = Phase
  BY <1>2 DEF Phase
<1> QED
  BY <1>2, <1>6, <1>8, <1>9, EndMaps

LEMMA PostMaps ==
  ASSUME PoolInv, NEW c \in Client \cup Worker, NEW token \in 0..MaxTokens,
         NEW behavior \in Behavior, PostTask(c, token, behavior)
  PROVE  Promise!Next
<1>1. /\ ~shutdown_called_ /\ Len(tasks) < MaxTasks
      /\ tasks' = Append(tasks, [token |-> token, behavior |-> behavior])
      /\ UNCHANGED <<worker, client, shutdown_called_>>
  BY DEF PostTask
<1>2. pending_tasks_' = pending_tasks_ \cup {Len(tasks) + 1}
  BY PostKeeps DEF PoolInv
<1>3. Phase = "open" /\ Phase' = Phase /\ Running' = Running
  BY <1>1, PhaseOpen DEF Phase, Running, At
<1>4. behavior \in {"BLOCK", "SKIP", "CONTINUE"}
  BY DEF Behavior
<1>5. Promise!Post
  BY <1>1, <1>2, <1>3, <1>4 DEF Promise!Post, Running, Phase
<1> QED
  BY <1>5 DEF Promise!Next

\* When Shutdown returns no task is left that it must wait for.
LEMMA ReturnMaps ==
  ASSUME PoolInv, CanShutdown, UNCHANGED taskList, Running' = Running,
         Phase # "closed", Phase' = "closed"
  PROVE  Promise!Next
<1>1. Blockers = {} /\ PendingBlockers = {}
  BY SetsFinite, FS_EmptySet DEF PoolInv, CountInv, CanShutdown
<1>2. \A t \in pending_tasks_ : tasks[t].behavior # "BLOCK"
  BY <1>1 DEF PendingBlockers
<1>3. \A t \in Running : tasks[t].behavior = "CONTINUE"
  BY <1>1 DEF Running, Blockers, Held, PoolInv, ShapeInv
<1>4. Promise!Return
  BY <1>2, <1>3 DEF Promise!Return, Running, Phase, taskList
<1> QED
  BY <1>4 DEF Promise!Next

LEMMA ShutdownMaps ==
  ASSUME PoolInv, Shutdown
  PROVE  Promise!Next
<1>1. /\ ~shutdown_called_ /\ shutdown_called_' = TRUE /\ SignalHasWork /\ UNCHANGED taskList
      /\ client' = [client EXCEPT ![Main] = IF CanShutdown THEN "down" ELSE "shutdown"]
  BY DEF Shutdown
<1>2. Running' = Running
  BY <1>1, SignalUnseen, SameRunning DEF PoolInv
<1>3. Phase = "open"
  BY <1>1, PhaseOpen
<1>4. client'[Main] = IF CanShutdown THEN "down" ELSE "shutdown"
  BY <1>1, PoolAssumption DEF PoolInv, PoolTyped
<1>5. CASE CanShutdown
  BY <1>1, <1>2, <1>3, <1>4, <1>5, ReturnMaps DEF Phase
<1>6. CASE ~CanShutdown
  <2>1. Phase' = "closing"
    BY <1>1, <1>4, <1>6 DEF Phase
  <2>2. Promise!Close
    BY <1>1, <1>2, <1>3, <2>1 DEF Promise!Close, Running, Phase, taskList
  <2> QED
    BY <2>2 DEF Promise!Next
<1> QED
  BY <1>5, <1>6

LEMMA WaitForShutdownMaps ==
  ASSUME PoolInv, WaitForShutdown
  PROVE  Promise!Next \/ UNCHANGED Promise!taskVars
<1>1. /\ client[Main] = "shutdown" /\ UNCHANGED <<taskList, worker, shutdown_called_>>
      /\ client' = [client EXCEPT ![Main] = IF CanShutdown THEN "down" ELSE "closing"]
  BY DEF WaitForShutdown
<1>2. client'[Main] = IF CanShutdown THEN "down" ELSE "closing"
  BY <1>1, PoolAssumption DEF PoolInv, PoolTyped
<1>3. KeepsRunning /\ Running' = Running
  BY <1>1 DEF Running, KeepsRunning, At
<1>4. CASE CanShutdown
  <2>1. Phase # "closed" /\ Phase' = "closed"
    BY <1>1, <1>2, <1>4 DEF Phase
  <2> QED
    BY <1>1, <1>3, <1>4, <2>1, ReturnMaps
<1>5. CASE ~CanShutdown
  <2>1. KeepsPhase
    BY <1>1, <1>2, <1>5 DEF KeepsPhase
  <2> QED
    BY <1>1, <1>3, <2>1, UnseenStutters DEF Unseen
<1> QED
  BY <1>4, <1>5

LEMMA StepMaps ==
  ASSUME PoolInv, [PoolNext]_poolVars
  PROVE  [Promise!Next]_(Promise!taskVars)
<1>1. CASE PoolNext /\ ~Seen
  BY <1>1, StepUnseen, UnseenStutters
<1>2. CASE Seen
  BY <1>2, GetWorkMaps, BreakMaps, TaskDoneMaps, PostMaps, ShutdownMaps, WaitForShutdownMaps
     DEF Seen
<1>3. CASE UNCHANGED poolVars
  <2>1. Unseen
    BY <1>3 DEF poolVars, Unseen, taskList, KeepsRunning, KeepsPhase, At
  <2> QED
    BY <2>1, UnseenStutters
<1> QED
  BY <1>1, <1>2, <1>3

LEMMA InitMaps ==
  ASSUME PoolInit
  PROVE  Promise!Init
<1>1. Running = {} /\ Phase = "open"
  BY PoolAssumption DEF PoolInit, Running, Phase, At
<1> QED
  BY <1>1 DEF Promise!Init, PoolInit, Running, Phase

\* The pool implements the promise of its header: for any number of clients and
\* workers, tasks of a sequence run one at a time and in the order of their
\* posts, and Shutdown returns when no task it must wait for is left.
THEOREM PoolImplements == PoolSpec => ImplementsSequencedTasks
<1>1. PoolInit => Promise!Init
  BY InitMaps
<1>2. PoolInv /\ [PoolNext]_poolVars => [Promise!Next]_(Promise!taskVars)
  BY StepMaps
<1> QED
  BY <1>1, <1>2, PoolInvHolds, PTL DEF PoolSpec, ImplementsSequencedTasks, Promise!Safety
===============================================================================
