----------------------------- MODULE BaseThread ------------------------------
(***************************************************************************)
(* A Thread with a message loop (threading/thread.cc): its owner starts it *)
(* and waits for its loop, posts tasks, stops and joins it, and may start  *)
(* it again.  The loop lives on the thread's stack.                        *)
(***************************************************************************)
EXTENDS Integers, Sequences

CONSTANT MaxThreadTasks  \* bound: tasks posted in one life of the thread

ASSUME ThreadAssumption == MaxThreadTasks \in Nat

VARIABLES
  thread,        \* the members started_, stopping_, running_; message_loop_ is
                 \* TRUE if it points to the loop
  startup_event, \* startup_data_->event is signaled
  owner,         \* "idle", "starting" or "joining"
  main,          \* where ThreadMain is
  loop_tasks,    \* the tasks of the loop, ThreadQuitHelper's among them
  thread_posted, \* history: tasks of this life
  thread_ran     \* history: the ones that ran, in order

threadVars == <<thread, startup_event, owner, main, loop_tasks, thread_posted,
                thread_ran>>

ThreadQuitHelper == 0

ThreadInit ==
  /\ thread = [started_ |-> FALSE, stopping_ |-> FALSE, running_ |-> FALSE,
               message_loop_ |-> FALSE]
  /\ startup_event = FALSE
  /\ owner = "idle"
  /\ main = "none"
  /\ loop_tasks = <<>>
  /\ thread_posted = 0
  /\ thread_ran = <<>>

-----------------------------------------------------------------------------
(* The owner.                                                               *)

\* The contract: a thread that was started is stopped before it is again.
StartThread ==
  /\ owner = "idle"
  /\ ~thread.started_ /\ ~thread.message_loop_
  /\ owner' = "starting"
  /\ main' = "created"
  /\ startup_event' = FALSE
  /\ thread_posted' = 0
  /\ thread_ran' = <<>>
  /\ UNCHANGED <<thread, loop_tasks>>

StartReturns ==
  /\ owner = "starting" /\ startup_event
  /\ owner' = "idle"
  /\ startup_event' = FALSE
  /\ thread' = [thread EXCEPT !.started_ = TRUE]
  /\ UNCHANGED <<main, loop_tasks, thread_posted, thread_ran>>

\* Tasks for a loop that is not about to go.
PostToThread ==
  /\ owner = "idle"
  /\ thread.message_loop_ /\ ~thread.stopping_
  /\ thread_posted < MaxThreadTasks
  /\ thread_posted' = thread_posted + 1
  /\ loop_tasks' = Append(loop_tasks, thread_posted + 1)
  /\ UNCHANGED <<thread, startup_event, owner, main, thread_ran>>

\* What StopSoon does.
PostQuit ==
  IF thread.stopping_ \/ ~thread.message_loop_
  THEN UNCHANGED <<thread, loop_tasks>>
  ELSE /\ thread' = [thread EXCEPT !.stopping_ = TRUE]
       /\ loop_tasks' = Append(loop_tasks, ThreadQuitHelper)

StopSoon ==
  /\ owner = "idle"
  /\ PostQuit
  /\ UNCHANGED <<startup_event, owner, main, thread_posted, thread_ran>>

StopThread ==
  /\ owner = "idle" /\ thread.started_
  /\ PostQuit
  /\ owner' = "joining"
  /\ UNCHANGED <<startup_event, main, thread_posted, thread_ran>>

\* The bug of a thread that cannot be stopped when it is started again.
JoinOnly ==
  /\ owner = "joining" /\ main = "exited"
  /\ owner' = "idle"
  /\ thread' = [thread EXCEPT !.started_ = FALSE]
  /\ UNCHANGED <<startup_event, main, loop_tasks, thread_posted, thread_ran>>

Join ==
  /\ owner = "joining" /\ main = "exited"
  /\ owner' = "idle"
  /\ thread' = [thread EXCEPT !.started_ = FALSE, !.stopping_ = FALSE]
  /\ UNCHANGED <<startup_event, main, loop_tasks, thread_posted, thread_ran>>

-----------------------------------------------------------------------------
(* ThreadMain.                                                              *)

MainStep(from, to) == main = from /\ main' = to

\* The loop is made, and Init may post to it.
EnterMain ==
  /\ MainStep("created", "init")
  /\ thread' = [thread EXCEPT !.message_loop_ = TRUE]
  /\ UNCHANGED <<startup_event, owner, loop_tasks, thread_posted, thread_ran>>

SignalStarted ==
  /\ MainStep("init", "run")
  /\ thread' = [thread EXCEPT !.running_ = TRUE]
  /\ startup_event' = TRUE
  /\ UNCHANGED <<owner, loop_tasks, thread_posted, thread_ran>>

\* ThreadQuitHelper makes Run return once it has run.
RunThreadTask ==
  /\ main = "run" /\ loop_tasks # <<>>
  /\ loop_tasks' = Tail(loop_tasks)
  /\ IF Head(loop_tasks) = ThreadQuitHelper
     THEN main' = "cleanup" /\ UNCHANGED thread_ran
     ELSE thread_ran' = Append(thread_ran, Head(loop_tasks)) /\ UNCHANGED main
  /\ UNCHANGED <<thread, startup_event, owner, thread_posted>>

\* CleanUp runs between these two, with the loop in place.
CleanUp ==
  /\ MainStep("cleanup", "leave")
  /\ thread' = [thread EXCEPT !.running_ = FALSE, !.message_loop_ = FALSE]
  /\ UNCHANGED <<startup_event, owner, loop_tasks, thread_posted, thread_ran>>

DestroyLoop ==
  /\ MainStep("leave", "exited")
  /\ loop_tasks' = <<>>
  /\ UNCHANGED <<thread, startup_event, owner, thread_posted, thread_ran>>

ThreadMain ==
  EnterMain \/ SignalStarted \/ RunThreadTask \/ CleanUp \/ DestroyLoop

ThreadNext ==
  \/ StartThread \/ StartReturns
  \/ PostToThread \/ StopSoon \/ StopThread \/ Join
  \/ ThreadMain

ThreadSpec == ThreadInit /\ [][ThreadNext]_threadVars

\* The thread runs, its tasks return, and so do the owner's waits.
ThreadFairness ==
  WF_threadVars(ThreadMain) /\ WF_threadVars(StartReturns) /\ WF_threadVars(Join)

-----------------------------------------------------------------------------
(* Properties.                                                              *)

\* The owner's use of message_loop_ without a lock is safe: from Start to Stop
\* it sees the loop, and the loop it sees is there.
LoopIsSafe ==
  owner = "idle" /\ ~thread.stopping_ =>
    /\ thread.started_ => thread.message_loop_
    /\ thread.message_loop_ => main = "run"

\* When Stop returns every task posted before it has run, in order.
StopRunsTasks ==
  owner = "idle" /\ ~thread.started_ =>
    thread_ran = [i \in 1..thread_posted |-> i]

\* What of it a state can break.
ThreadSafe == LoopIsSafe /\ StopRunsTasks

\* What the owner relies on, in every life of the thread.
ThreadSound ==
  /\ [](LoopIsSafe /\ StopRunsTasks)
  /\ []<>(owner \notin {"starting", "joining"})
=============================================================================
