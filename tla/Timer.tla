-------------------------------- MODULE Timer ---------------------------------
(***************************************************************************)
(* A Timer (timer.cc) on the task runner of its thread, which keeps its    *)
(* delayed tasks until they are due.  A timer that is stopped or reset     *)
(* leaves its task where it is, and a task it has no more use for is       *)
(* abandoned.  Times are relative to now; one in the past is Past, and a   *)
(* time that will not come is Never.                                       *)
(***************************************************************************)
EXTENDS Integers, FiniteSets

CONSTANTS
  Delay,         \* what a user may set
  MaxTimerTasks  \* bound: tasks of one timer in the runner, by address

ASSUME TimerAssumption == Delay \subseteq Nat /\ MaxTimerTasks \in Nat

VARIABLES
  timer,         \* the members of the timer, or those of one that is deleted
  timer_tasks,   \* per address a BaseTimerTaskInternal in the runner: when it
                 \* is due and whether its timer_ is set
  runner_alive,  \* the task runner has not been destroyed
  promised,      \* history: when the user's task may run, or Never
  early,         \* history: the user's task ran before it may
  last_step      \* history: the user's task "ran", a "call" of the user, or less

timerVars == <<timer, timer_tasks, runner_alive, promised, early, last_step>>

NoTask == 0
Past == -1
Never == -2

\* The user's task and delay are set at once; a timer begins without them.
TimerInit ==
  /\ timer \in [alive : {TRUE}, is_running_ : {FALSE}, scheduled_task_ : {NoTask},
                desired : {Past}, scheduled : {Past}, delay_ : {0},
                user_task_ : {FALSE}, is_repeating_ : BOOLEAN,
                retain_user_task_ : BOOLEAN]
  /\ timer_tasks = [i \in {} |-> 0]
  /\ runner_alive = TRUE
  /\ promised = Never
  /\ early = FALSE
  /\ last_step = "none"

InRunner == DOMAIN timer_tasks

-----------------------------------------------------------------------------
(* The members, as functions of a timer and the runner's tasks.             *)

Stopped(tm) ==
  [tm EXCEPT !.is_running_ = FALSE,
             !.user_task_ = @ /\ tm.retain_user_task_]

\* PostNewScheduledTask: the task goes to a free address, and the clock, read
\* again after the post, may have moved on by late, which makes both times
\* later than the task is due.
Posted(tm, i, delay, late) ==
  [tm EXCEPT !.is_running_ = TRUE, !.scheduled_task_ = i,
             !.scheduled = delay + late, !.desired = delay + late]

WithTask(tasks, i, delay) ==
  [j \in DOMAIN tasks \cup {i} |->
     IF j = i THEN [due |-> delay, linked |-> TRUE] ELSE tasks[j]]

Abandoned(tasks, i) ==
  [j \in DOMAIN tasks |-> [tasks[j] EXCEPT !.linked = @ /\ j # i]]

Without(tasks, i) == [j \in DOMAIN tasks \ {i} |-> tasks[j]]

\* Reset of a timer whose task and delay are set: what can be reused is.
ResetTimer(tm) ==
  LET reusable == tm.delay_ > tm.scheduled
  IN  IF tm.scheduled_task_ # NoTask /\ reusable
      THEN /\ timer' = [tm EXCEPT !.desired = tm.delay_, !.is_running_ = TRUE]
           /\ UNCHANGED timer_tasks
      ELSE \E i \in 1..MaxTimerTasks \ InRunner, late \in {0, 1} :
             /\ timer' = Posted(tm, i, tm.delay_, late)
             /\ timer_tasks' = WithTask(Abandoned(timer_tasks, tm.scheduled_task_),
                                        i, tm.delay_)

-----------------------------------------------------------------------------
(* The user, on the timer's thread, between tasks or in the timer's own.    *)

Start(delay) ==
  /\ timer.alive /\ runner_alive
  /\ ResetTimer([timer EXCEPT !.delay_ = delay, !.user_task_ = TRUE])
  /\ promised' = delay
  /\ last_step' = "call"
  /\ UNCHANGED <<runner_alive, early>>

Reset ==
  /\ timer.alive /\ runner_alive /\ timer.user_task_
  /\ ResetTimer(timer)
  /\ promised' = timer.delay_
  /\ last_step' = "call"
  /\ UNCHANGED <<runner_alive, early>>

Stop ==
  /\ timer.alive
  /\ timer' = Stopped(timer)
  /\ promised' = Never
  /\ last_step' = "call"
  /\ UNCHANGED <<timer_tasks, runner_alive, early>>

\* StopAndAbandon, which ~Timer calls and a task deleted while it is linked.
StopAndAbandon(alive) ==
  /\ timer' = [Stopped(timer) EXCEPT !.alive = alive, !.scheduled_task_ = NoTask]
  /\ promised' = Never
  /\ last_step' = "call"

DeleteTimer ==
  /\ timer.alive
  /\ StopAndAbandon(FALSE)
  /\ timer_tasks' = Abandoned(timer_tasks, timer.scheduled_task_)
  /\ UNCHANGED <<runner_alive, early>>

-----------------------------------------------------------------------------
(* The task runner.                                                         *)

\* The user's task runs; a timer that repeats has posted the next task, which
\* goes to an address other than that of the task that runs.
RunUserTask(i) ==
  /\ early' = (early \/ promised > 0 \/ promised = Never)
  /\ last_step' = "ran"
  /\ IF timer.is_repeating_
     THEN \E j \in 1..MaxTimerTasks \ InRunner, late \in {0, 1} :
            /\ timer' = Posted(timer, j, timer.delay_, late)
            /\ timer_tasks' = WithTask(Without(timer_tasks, i), j, timer.delay_)
            /\ promised' = timer.delay_
     ELSE /\ timer' = Stopped([timer EXCEPT !.scheduled_task_ = NoTask])
          /\ timer_tasks' = Without(timer_tasks, i)
          /\ promised' = Never

\* The task arrives before the time the timer was reset to.
PostContinuation(i) ==
  \E j \in 1..MaxTimerTasks \ InRunner, late \in {0, 1} :
    /\ timer' = Posted(timer, j, timer.desired, late)
    /\ timer_tasks' = WithTask(Without(timer_tasks, i), j, timer.desired)
    /\ last_step' = "none"
    /\ UNCHANGED <<promised, early>>

\* The bug of a task that does not look at the time it was reset to.
RunNow(i) == RunUserTask(i)

RunScheduledTask(i) ==
  IF timer.desired > timer.scheduled /\ timer.desired > 0
  THEN PostContinuation(i) ELSE RunUserTask(i)

RunTimerTask(i) ==
  /\ runner_alive
  /\ i \in InRunner /\ timer_tasks[i].due <= 0
  /\ IF timer_tasks[i].linked /\ timer.is_running_
     THEN RunScheduledTask(i)
     ELSE /\ timer_tasks' = Without(timer_tasks, i)
          /\ timer' = IF timer_tasks[i].linked
                      THEN [timer EXCEPT !.scheduled_task_ = NoTask] ELSE timer
          /\ last_step' = "none"
          /\ UNCHANGED <<promised, early>>
  /\ UNCHANGED runner_alive

\* The runner is destroyed with its tasks.
DestroyRunner ==
  /\ runner_alive
  /\ runner_alive' = FALSE
  /\ timer_tasks' = [i \in {} |-> 0]
  /\ IF \E i \in InRunner : timer_tasks[i].linked
     THEN StopAndAbandon(timer.alive)
     ELSE UNCHANGED <<timer, promised, last_step>>
  /\ UNCHANGED early

Sooner(time) == IF time > Past THEN time - 1 ELSE time

TimerTick ==
  /\ timer' = [timer EXCEPT !.desired = Sooner(@), !.scheduled = Sooner(@)]
  /\ timer_tasks' = [i \in InRunner |-> [timer_tasks[i] EXCEPT !.due = Sooner(@)]]
  /\ promised' = IF promised = Never THEN Never ELSE Sooner(promised)
  /\ last_step' = IF timer_tasks # <<>> THEN "none" ELSE last_step
  /\ UNCHANGED <<runner_alive, early>>

TimerNext ==
  \/ \E delay \in Delay : Start(delay)
  \/ Reset \/ Stop \/ DeleteTimer
  \/ \E i \in 1..MaxTimerTasks : RunTimerTask(i)
  \/ DestroyRunner
  \/ TimerTick

TimerSpec == TimerInit /\ [][TimerNext]_timerVars

\* The runner runs the tasks that are due, and time passes.
TimerFairness ==
  /\ WF_timerVars(\E i \in 1..MaxTimerTasks : RunTimerTask(i))
  /\ WF_timerVars(TimerTick)

-----------------------------------------------------------------------------
(* Properties.                                                              *)

\* The timer and its task know each other: exactly the scheduled task points
\* to the timer, so a task that outlives the timer does not touch it, and a
\* timer that outlives the runner does not touch its task; a timer that runs
\* has one.
TaskIsLinked ==
  /\ {i \in InRunner : timer_tasks[i].linked} = {timer.scheduled_task_} \ {NoTask}
  /\ timer.is_running_ <=> promised # Never
  /\ timer.is_running_ => timer.alive /\ timer.scheduled_task_ # NoTask

\* What of it a state can break.
TimerSafe == ~early /\ TaskIsLinked

\* What a user of a timer relies on: the task never runs before the delay since
\* the last Start, Reset or run is over, nor after Stop, although a task posted
\* for an earlier time is used again; and it runs unless the user calls again.
TimerSound ==
  /\ [](~early /\ TaskIsLinked)
  /\ []<>(promised = Never \/ last_step \in {"ran", "call"})
=============================================================================
