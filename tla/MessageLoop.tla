----------------------------- MODULE MessageLoop ------------------------------
(***************************************************************************)
(* One message loop with its default pump (base/message_loop.cc,           *)
(* message_pump_default.cc), the run loops that nest on its thread         *)
(* (run_loop.cc), and other threads that post to it through its proxy      *)
(* (message_loop_proxy_impl.cc).  The locks, the event that wakes the pump *)
(* and the deletion of the loop are steps of their own.                    *)
(***************************************************************************)
EXTENDS Integers, Sequences, SequencesExt, FiniteSetsExt

CONSTANTS
  Poster,    \* the other threads that post
  MaxTasks,  \* bound: tasks posted
  MaxDepth,  \* bound: nested run loops
  MaxTicks   \* bound: when the clock stops

ASSUME LoopAssumption ==
  MaxTasks \in Nat /\ MaxDepth \in Nat /\ MaxTicks \in Nat

VARIABLES
  loop,       \* the MessageLoop object
  target,     \* the proxy still points to it
  poster,     \* where each other thread is in a call that posts a task
  tasks,      \* history: the tasks posted; queues hold indexes into it
  ticks,        \* TimeTicks::Now()
  incoming_queue_, work_queue_, deferred_non_nestable_work_queue_,
  delayed_work_queue_,      \* a set, ordered by Earlier
  event_,                   \* the pump's auto-reset event is signalled
  keep_running_,
  delayed_work_time_,       \* 0 is the null time
  nestable_tasks_allowed_,
  run_loops,  \* the RunLoops on the stack and where their pump's Run is
  started     \* history: the tasks started

queues == <<incoming_queue_, work_queue_, delayed_work_queue_,
            deferred_non_nestable_work_queue_>>
proxyVars == <<loop, target, poster>>
pumpVars == <<keep_running_, delayed_work_time_>>
loopVars == <<proxyVars, queues, pumpVars, tasks, ticks, event_,
              nestable_tasks_allowed_, run_loops, started>>

NoCall == [at |-> "idle"]

LoopInit ==
  /\ loop = "up"
  /\ target = TRUE
  /\ poster = [p \in Poster |-> NoCall]
  /\ tasks = <<>>
  /\ ticks = 0
  /\ incoming_queue_ = <<>>
  /\ work_queue_ = <<>>
  /\ delayed_work_queue_ = {}
  /\ deferred_non_nestable_work_queue_ = <<>>
  /\ event_ = FALSE
  /\ keep_running_ = TRUE
  /\ delayed_work_time_ = 0
  /\ nestable_tasks_allowed_ = TRUE
  /\ run_loops = <<>>
  /\ started = <<>>

\* A task without delay has the null run time.
NewTasks ==
  [nestable : BOOLEAN, time : {0} \cup (ticks + 1)..MaxTicks]

-----------------------------------------------------------------------------
(* Posting: AddToIncomingQueue under the lock of the queue, then           *)
(* ScheduleWork if the queue was empty.                                     *)

InCall(p) == poster[p].at # "idle"

\* message_loop_lock_, which a thread holds while it posts through the proxy.
LockFree == \A p \in Poster : ~(InCall(p) /\ poster[p].proxy)

Calls == {p \in Poster : poster[p].at = "push"}

\* Through the proxy, if the loop is alive, or directly to a loop the caller
\* knows to be alive (main.cc, Thread::Stop).
PostBegin(p) ==
  /\ ~InCall(p)
  /\ Len(tasks) + Cardinality(Calls) < MaxTasks
  /\ \E t \in NewTasks, proxy \in BOOLEAN :
       /\ IF proxy THEN LockFree /\ target ELSE loop = "up"
       /\ poster' = [poster EXCEPT ![p] =
                       [at |-> "push", task |-> t, proxy |-> proxy]]
  /\ UNCHANGED <<loop, target, queues, pumpVars, tasks, ticks, event_,
                 nestable_tasks_allowed_, run_loops, started>>

PostPush(p) ==
  /\ poster[p].at = "push"
  /\ tasks' = Append(tasks, poster[p].task)
  /\ incoming_queue_' = Append(incoming_queue_, Len(tasks) + 1)
  /\ poster' = [poster EXCEPT ![p] =
                  IF incoming_queue_ = <<>>
                  THEN [at |-> "signal", proxy |-> poster[p].proxy] ELSE NoCall]
  /\ UNCHANGED <<loop, target, work_queue_, delayed_work_queue_,
                 deferred_non_nestable_work_queue_, pumpVars, ticks, event_,
                 nestable_tasks_allowed_, run_loops, started>>

\* The bug of a post that wakes the pump only if no other post is about to.
PostSignalOnce(p) ==
  /\ poster[p].at = "signal"
  /\ event_' = (event_ \/ Len(incoming_queue_) = 1)
  /\ poster' = [poster EXCEPT ![p] = NoCall]
  /\ UNCHANGED <<loop, target, queues, pumpVars, tasks, ticks,
                 nestable_tasks_allowed_, run_loops, started>>

PostSignal(p) ==
  /\ poster[p].at = "signal"
  /\ event_' = TRUE
  /\ poster' = [poster EXCEPT ![p] = NoCall]
  /\ UNCHANGED <<loop, target, queues, pumpVars, tasks, ticks,
                 nestable_tasks_allowed_, run_loops, started>>

Top == Last(run_loops)

\* Client code runs on the loop's thread: a task, or main before and after Run.
ClientRuns ==
  /\ loop = "up"
  /\ IF run_loops = <<>> THEN TRUE ELSE Top.at = "task"

\* The loop's thread posts to its own loop, which needs no proxy.
PostSelf ==
  /\ ClientRuns
  /\ Len(tasks) + Cardinality(Calls) < MaxTasks
  /\ \E t \in NewTasks : tasks' = Append(tasks, t)
  /\ incoming_queue_' = Append(incoming_queue_, Len(tasks) + 1)
  /\ event_' = (event_ \/ incoming_queue_ = <<>>)
  /\ UNCHANGED <<proxyVars, work_queue_, delayed_work_queue_,
                 deferred_non_nestable_work_queue_, pumpVars, ticks,
                 nestable_tasks_allowed_, run_loops, started>>

-----------------------------------------------------------------------------
(* Run loops.                                                               *)

\* RunLoop::Run, in a task with or without a ScopedNestableTaskAllower, whose
\* SetNestableTasksAllowed wakes the pump.
Run ==
  /\ ClientRuns
  /\ Len(run_loops) < MaxDepth
  /\ \E untilIdle, allow \in BOOLEAN :
       /\ run_loops' = Append(run_loops,
            [at |-> "work", did_work |-> FALSE, from |-> "none", task |-> 0,
             quit_called_ |-> FALSE, quit_when_idle |-> untilIdle])
       /\ nestable_tasks_allowed_' = (nestable_tasks_allowed_ \/ allow)
       /\ event_' = (event_ \/ (allow /\ ~nestable_tasks_allowed_))
  /\ UNCHANGED <<proxyVars, queues, pumpVars, tasks, ticks, started>>

\* The pump's Run returns: AfterRun, and the allower goes out of scope.
ReturnFromRun ==
  /\ run_loops' = Front(run_loops)
  /\ keep_running_' = ~(Len(run_loops) > 1 /\ Last(Front(run_loops)).quit_called_)
  /\ nestable_tasks_allowed_' = (Len(run_loops) = 1)
  /\ UNCHANGED <<proxyVars, queues, delayed_work_time_, tasks, ticks, event_,
                 started>>

\* RunLoop::Quit of any of the loops; only the innermost one stops the pump.
Quit(d) ==
  /\ ClientRuns
  /\ d \in DOMAIN run_loops
  /\ run_loops' = [run_loops EXCEPT ![d].quit_called_ = TRUE]
  /\ keep_running_' = (keep_running_ /\ d # Len(run_loops))
  /\ UNCHANGED <<proxyVars, queues, delayed_work_time_, tasks, ticks, event_,
                 nestable_tasks_allowed_, started>>

\* MessageLoop::QuitWhenIdle, which MessageLoop::Quit is short for.
QuitWhenIdle ==
  /\ ClientRuns
  /\ run_loops # <<>>
  /\ run_loops' = [run_loops EXCEPT ![Len(run_loops)].quit_when_idle = TRUE]
  /\ UNCHANGED <<proxyVars, queues, pumpVars, tasks, ticks, event_,
                 nestable_tasks_allowed_, started>>

-----------------------------------------------------------------------------
(* MessagePumpDefault::Run and the work it delegates.                       *)

At(pc) == run_loops # <<>> /\ Top.at = pc

GoTo(pc, didWork) ==
  run_loops' = [run_loops EXCEPT ![Len(run_loops)].at = pc,
                                 ![Len(run_loops)].did_work = didWork]

RunTask(t, from) ==
  /\ run_loops' = [run_loops EXCEPT ![Len(run_loops)] =
       [@ EXCEPT !.at = "task", !.task = t, !.from = from]]
  /\ nestable_tasks_allowed_' = FALSE
  /\ started' = Append(started, t)

\* The bug of a priority queue that breaks ties the wrong way.
EarlierNewest(s, t) ==
  \/ tasks[s].time < tasks[t].time
  \/ tasks[s].time = tasks[t].time /\ s >= t

Earlier(s, t) ==
  \/ tasks[s].time < tasks[t].time
  \/ tasks[s].time = tasks[t].time /\ s <= t

Soonest(queue) == CHOOSE t \in queue : \A u \in queue : Earlier(t, u)

\* DeferOrRunPendingTask; a deferred task does not count as work.
MayRun(t) == tasks[t].nestable \/ Len(run_loops) = 1

ReloadWorkQueue ==
  /\ At("work") /\ nestable_tasks_allowed_
  /\ work_queue_ = <<>> /\ incoming_queue_ # <<>>
  /\ work_queue_' = incoming_queue_
  /\ incoming_queue_' = <<>>
  /\ UNCHANGED <<proxyVars, delayed_work_queue_,
                 deferred_non_nestable_work_queue_, pumpVars, tasks, ticks,
                 event_, nestable_tasks_allowed_, run_loops, started>>

\* DoWork: a delayed task only moves to its own queue.
AddToDelayedWorkQueue ==
  /\ At("work") /\ nestable_tasks_allowed_
  /\ work_queue_ # <<>>
  /\ LET t == Head(work_queue_)
     IN  /\ tasks[t].time > 0
         /\ delayed_work_queue_' = delayed_work_queue_ \cup {t}
         /\ delayed_work_time_' = IF Soonest(delayed_work_queue_') = t
                                  THEN tasks[t].time ELSE delayed_work_time_
  /\ work_queue_' = Tail(work_queue_)
  /\ UNCHANGED <<proxyVars, incoming_queue_, deferred_non_nestable_work_queue_,
                 keep_running_, tasks, ticks, event_, nestable_tasks_allowed_,
                 run_loops, started>>

\* The bug of a DoWork that takes the newest task first.
DoWorkNewest ==
  /\ At("work") /\ nestable_tasks_allowed_
  /\ work_queue_ # <<>>
  /\ LET t == Last(work_queue_)
     IN  /\ tasks[t].time = 0
         /\ MayRun(t)
         /\ RunTask(t, "work")
  /\ work_queue_' = Front(work_queue_)
  /\ UNCHANGED <<proxyVars, incoming_queue_, delayed_work_queue_,
                 deferred_non_nestable_work_queue_, pumpVars, tasks, ticks, event_>>

DoWork ==
  /\ At("work") /\ nestable_tasks_allowed_
  /\ work_queue_ # <<>>
  /\ LET t == Head(work_queue_)
     IN  /\ tasks[t].time = 0
         /\ MayRun(t)
         /\ RunTask(t, "work")
  /\ work_queue_' = Tail(work_queue_)
  /\ UNCHANGED <<proxyVars, incoming_queue_, delayed_work_queue_,
                 deferred_non_nestable_work_queue_, pumpVars, tasks, ticks, event_>>

DeferWork ==
  /\ At("work") /\ nestable_tasks_allowed_
  /\ work_queue_ # <<>>
  /\ LET t == Head(work_queue_)
     IN  /\ tasks[t].time = 0
         /\ ~MayRun(t)
         /\ deferred_non_nestable_work_queue_' =
              Append(deferred_non_nestable_work_queue_, t)
  /\ work_queue_' = Tail(work_queue_)
  /\ UNCHANGED <<proxyVars, incoming_queue_, delayed_work_queue_, pumpVars,
                 tasks, ticks, event_, nestable_tasks_allowed_, run_loops, started>>

\* DoWork returns false: nothing to do, or a task runs that is not nestable.
NoWork ==
  /\ At("work")
  /\ nestable_tasks_allowed_ => work_queue_ = <<>> /\ incoming_queue_ = <<>>
  /\ GoTo("delayed", FALSE)
  /\ UNCHANGED <<proxyVars, queues, pumpVars, tasks, ticks, event_,
                 nestable_tasks_allowed_, started>>

\* A callout to foreign code is over and the pump was told to quit.
Break ==
  /\ At("delayed") \/ At("again")
  /\ ~keep_running_
  /\ ReturnFromRun

Again ==
  /\ At("again")
  /\ keep_running_
  /\ GoTo("work", FALSE)
  /\ UNCHANGED <<proxyVars, queues, pumpVars, tasks, ticks, event_,
                 nestable_tasks_allowed_, started>>

NextPhase == IF Top.did_work THEN "work" ELSE "idle"

\* The bug of a pump that sleeps although the next delayed task is known.
NoDelayedWorkForgets ==
  /\ At("delayed") /\ keep_running_
  /\ IF ~nestable_tasks_allowed_ \/ delayed_work_queue_ = {}
     THEN TRUE ELSE tasks[Soonest(delayed_work_queue_)].time > ticks
  /\ delayed_work_time_' = 0
  /\ GoTo(NextPhase, FALSE)
  /\ UNCHANGED <<proxyVars, queues, keep_running_, tasks, ticks, event_,
                 nestable_tasks_allowed_, started>>

\* DoDelayedWork finds nothing due and says when to call it again.
NoDelayedWork ==
  /\ At("delayed") /\ keep_running_
  /\ IF ~nestable_tasks_allowed_ \/ delayed_work_queue_ = {}
     THEN delayed_work_time_' = 0
     ELSE /\ tasks[Soonest(delayed_work_queue_)].time > ticks
          /\ delayed_work_time_' = tasks[Soonest(delayed_work_queue_)].time
  /\ GoTo(NextPhase, FALSE)
  /\ UNCHANGED <<proxyVars, queues, keep_running_, tasks, ticks, event_,
                 nestable_tasks_allowed_, started>>

DoDelayedWork ==
  /\ At("delayed") /\ keep_running_
  /\ nestable_tasks_allowed_
  /\ delayed_work_queue_ # {}
  /\ LET t    == Soonest(delayed_work_queue_)
         rest == delayed_work_queue_ \ {t}
     IN  /\ tasks[t].time <= ticks
         /\ delayed_work_queue_' = rest
         /\ delayed_work_time_' = IF rest = {} THEN delayed_work_time_
                                  ELSE tasks[Soonest(rest)].time
         /\ IF MayRun(t)
            THEN /\ RunTask(t, "delayed")
                 /\ UNCHANGED deferred_non_nestable_work_queue_
            ELSE /\ deferred_non_nestable_work_queue_' =
                      Append(deferred_non_nestable_work_queue_, t)
                 /\ GoTo(NextPhase, FALSE)
                 /\ UNCHANGED <<nestable_tasks_allowed_, started>>
  /\ UNCHANGED <<proxyVars, incoming_queue_, work_queue_, keep_running_, tasks,
                 ticks, event_>>

\* The bug of a task that is followed by no look at the quit flag.
TaskDoneGoesOn ==
  /\ At("task")
  /\ nestable_tasks_allowed_' = TRUE
  /\ GoTo("work", FALSE)
  /\ UNCHANGED <<proxyVars, queues, pumpVars, tasks, ticks, event_, started>>

TaskDone ==
  /\ At("task")
  /\ nestable_tasks_allowed_' = TRUE
  /\ IF Top.from = "work" THEN GoTo("delayed", TRUE) ELSE GoTo("again", FALSE)
  /\ UNCHANGED <<proxyVars, queues, pumpVars, tasks, ticks, event_, started>>

\* DoIdleWork: the deferred tasks, in the outermost run loop.
RunDeferred ==
  /\ At("idle")
  /\ Len(run_loops) = 1
  /\ deferred_non_nestable_work_queue_ # <<>>
  /\ RunTask(Head(deferred_non_nestable_work_queue_), "idle")
  /\ deferred_non_nestable_work_queue_' = Tail(deferred_non_nestable_work_queue_)
  /\ UNCHANGED <<proxyVars, incoming_queue_, work_queue_, delayed_work_queue_,
                 pumpVars, tasks, ticks, event_>>

Idle ==
  /\ At("idle")
  /\ ~(Len(run_loops) = 1 /\ deferred_non_nestable_work_queue_ # <<>>)
  /\ IF Top.quit_when_idle
     THEN ReturnFromRun
     ELSE /\ GoTo("wait", FALSE)
          /\ UNCHANGED <<proxyVars, queues, pumpVars, tasks, ticks, event_,
                         nestable_tasks_allowed_, started>>

\* event_.Wait or event_.TimedWait returns because the event was signalled,
\* which resets it.
WakeUp ==
  /\ At("wait")
  /\ event_
  /\ event_' = FALSE
  /\ GoTo("work", FALSE)
  /\ UNCHANGED <<proxyVars, queues, pumpVars, tasks, ticks,
                 nestable_tasks_allowed_, started>>

\* TimedWait times out, or the time had passed before it was called.
TimeOut ==
  /\ At("wait")
  /\ delayed_work_time_ > 0
  /\ delayed_work_time_ <= ticks
  /\ delayed_work_time_' \in {0, delayed_work_time_}
  /\ GoTo("work", FALSE)
  /\ UNCHANGED <<proxyVars, queues, keep_running_, tasks, ticks, event_,
                 nestable_tasks_allowed_, started>>

-----------------------------------------------------------------------------
(* ~MessageLoop: what is pending is deleted, then the proxy is told, under  *)
(* its lock.                                                                *)

DeletePendingTasks ==
  /\ loop = "up"
  /\ run_loops = <<>>
  /\ loop' = "deleting"
  /\ incoming_queue_' = <<>>
  /\ work_queue_' = <<>>
  /\ delayed_work_queue_' = {}
  /\ deferred_non_nestable_work_queue_' = <<>>
  /\ UNCHANGED <<target, poster, pumpVars, tasks, ticks, event_,
                 nestable_tasks_allowed_, run_loops, started>>

\* Who posts directly sees to it that the loop outlives the call; the pump it
\* wakes up is counted.
WillDestroyCurrentMessageLoop ==
  /\ loop = "deleting"
  /\ LockFree
  /\ \A p \in Calls : poster[p].proxy
  /\ target' = FALSE
  /\ loop' = "gone"
  /\ incoming_queue_' = <<>>
  /\ UNCHANGED <<poster, work_queue_, delayed_work_queue_,
                 deferred_non_nestable_work_queue_, pumpVars, tasks, ticks,
                 event_, nestable_tasks_allowed_, run_loops, started>>

LoopTick ==
  /\ ticks < MaxTicks
  /\ ticks' = ticks + 1
  /\ UNCHANGED <<proxyVars, queues, pumpVars, tasks, event_,
                 nestable_tasks_allowed_, run_loops, started>>

PumpStep ==
  \/ ReloadWorkQueue
  \/ AddToDelayedWorkQueue
  \/ DoWork
  \/ DeferWork
  \/ NoWork
  \/ Break
  \/ Again
  \/ NoDelayedWork
  \/ DoDelayedWork
  \/ RunDeferred
  \/ Idle
  \/ WakeUp
  \/ TimeOut

LoopNext ==
  \/ \E p \in Poster : PostBegin(p) \/ PostPush(p) \/ PostSignal(p)
  \/ PostSelf
  \/ Run
  \/ \E d \in 1..MaxDepth : Quit(d)
  \/ QuitWhenIdle
  \/ PumpStep
  \/ TaskDone
  \/ DeletePendingTasks
  \/ WillDestroyCurrentMessageLoop
  \/ LoopTick

LoopSpec == LoopInit /\ [][LoopNext]_loopVars

\* The threads run and the clock goes on.  Tasks return: without nested run
\* loops nothing keeps them from it.
LoopFairness ==
  /\ WF_loopVars(run_loops # <<>> /\ PumpStep)
  /\ WF_loopVars(TaskDone)
  /\ \A p \in Poster : WF_loopVars(PostPush(p) \/ PostSignal(p))
  /\ WF_loopVars(tasks # <<>> /\ LoopTick)

-----------------------------------------------------------------------------
\* The types of the loop (message_loop.h:461-509), its pump, proxy and run
\* loops (run_loop.h:94-115).  A task is in one place at most.
LoopTypeOK ==
  /\ loop \in {"up", "deleting", "gone"}
  /\ target \in BOOLEAN
  /\ \A p \in Poster : poster[p].at \in {"idle", "push", "signal"}
  /\ tasks \in Seq([nestable : BOOLEAN, time : Nat])
  /\ ticks \in Nat
  /\ {incoming_queue_, work_queue_, deferred_non_nestable_work_queue_, started}
       \subseteq Seq(DOMAIN tasks)
  /\ delayed_work_queue_ \subseteq DOMAIN tasks
  /\ {event_, keep_running_, nestable_tasks_allowed_} \subseteq BOOLEAN
  /\ delayed_work_time_ \in Nat
  /\ run_loops \in Seq([at : {"work", "task", "delayed", "again", "idle", "wait"},
                        did_work : BOOLEAN,
                        from : {"none", "work", "delayed", "idle"},
                        task : Nat, quit_called_ : BOOLEAN,
                        quit_when_idle : BOOLEAN])
  /\ IsInjective(started \o work_queue_ \o incoming_queue_
                   \o deferred_non_nestable_work_queue_)

\* No wakeup is lost (message_loop.cc:580-603, message_pump_default.cc:20-63):
\* a pump that sleeps will be woken for what is in the incoming queue, and no
\* later than its first delayed task is due, also when nested pumps consumed
\* the event or overwrote the time.
NeverOversleeps ==
  (At("wait") /\ nestable_tasks_allowed_) =>
    /\ \/ incoming_queue_ = <<>>
       \/ event_
       \/ \E p \in Poster : poster[p].at = "signal"
    /\ work_queue_ = <<>>
    /\ delayed_work_queue_ # {} =>
         delayed_work_time_ \in 1..tasks[Soonest(delayed_work_queue_)].time
    /\ Len(run_loops) = 1 => deferred_non_nestable_work_queue_ = <<>>

\* "Since the incoming_queue_ may contain a task that destroys this message
\* loop" (message_loop.cc:597): a thread that is about to push through the
\* proxy finds the loop alive, however it raced with the loop's destructor.
PostsReachLiveLoop == \A p \in Calls : loop # "gone"

\* "a non-nestable task is one that is guaranteed to not be run from within an
\* already-running task" (sequenced_task_runner.h:30), wherever it waited.
NonNestableAlone ==
  \A d \in DOMAIN run_loops :
    (run_loops[d].at = "task" /\ ~tasks[run_loops[d].task].nestable) => d = 1

\* What posts and wakeups rely on: both, however they race with the pump and with
\* the end of the loop.
LoopSafe == NeverOversleeps /\ PostsReachLiveLoop

HasStarted(t) == t \in Range(started)

\* The order sequenced_task_runner.h:37-41 guarantees, as far as it holds: a
\* task posted later and due no earlier than a nestable one starts after it.
StartInOrder ==
  \A s, t \in DOMAIN tasks :
    (s < t /\ tasks[s].time <= tasks[t].time /\ tasks[s].nestable
       /\ HasStarted(t)) => HasStarted(s)

\* The order of the tasks, and where they run.
StartsRight == LoopTypeOK /\ NonNestableAlone /\ StartInOrder

Plain(t) == tasks[t] = [nestable |-> TRUE, time |-> 0]

Abstract == INSTANCE TaskQueue
  WITH Task    <- 1..MaxTasks,
       open    <- loop # "gone",
       queue   <- SelectSeq(work_queue_ \o incoming_queue_, Plain),
       started <- SelectSeq(started, Plain)

\* "Tasks posted via PostTask are run in FIFO order" (sequenced_task_runner.h:66):
\* each is started once, whichever of the nested run loops takes it.
ImplementsTaskQueue == Abstract!QueueSafety

\* "No further work is done once the quit flag is set" (message_pump.h:94): a
\* run loop that was told to quit starts no task any more, also when nested
\* loops ran and reset the flag of the pump they share.
QuitEndsWork ==
  [][\A d \in DOMAIN run_loops \cap DOMAIN run_loops' :
       (run_loops[d].quit_called_ /\ run_loops'[d].at = "task")
         => run_loops[d].at = "task"]_loopVars

\* What the event, the queues and the delayed work time are for: a task that
\* was posted starts, or the loop does not run.
PostedTasksStart ==
  \A t \in 1..MaxTasks :
    []<>(t \in DOMAIN tasks => HasStarted(t) \/ run_loops = <<>>)
=============================================================================
