------------------------------- MODULE Watchdog -------------------------------
(***************************************************************************)
(* Watchdogs (threading/watchdog.cc): a user arms one and disarms it, and  *)
(* its thread raises an alarm if the time is up before that.  An alarm     *)
(* that takes its time was a stop in a debugger, and the other watchdogs   *)
(* do not count that time.  A critical section of lock_ is one step.       *)
(***************************************************************************)
EXTENDS Integers

CONSTANTS
  Dog,           \* the watchdogs, which one thread uses
  duration_,
  Ago,           \* how long ago ArmSomeTimeDeltaAgo may start the clock
  MaxWatchTime,  \* bound: when the clock stops
  MaxArms        \* bound: calls of Arm for each watchdog

ASSUME WatchdogAssumption ==
  /\ duration_ \in Nat \ {0}
  /\ Ago \subseteq Nat
  /\ MaxWatchTime \in Nat /\ MaxArms \in Nat

VARIABLES
  clock,       \* TimeTicks::Now()
  state_,
  start_time_,
  dog,         \* where each thread is: "look", "wait", "timed", "alarm", "exited"
  since,       \* when the thread began to raise the alarm
  user,        \* per watchdog where its user is: "idle", "signal", or in the
               \* destructor "cleanup", "wake", "join", and then "gone"
  g_last_debugged_alarm_time, g_last_debugged_alarm_delay,
  armed,       \* history: the calls of Arm
  answer       \* history: the last Arm is "due", was answered by an "alarm", or
               \* was "dropped"; "twice" if an alarm had no Arm

globals == <<g_last_debugged_alarm_time, g_last_debugged_alarm_delay>>
dogVars == <<clock, state_, start_time_, dog, since, user, globals, armed,
             answer>>

\* The null time, before every start.
NoAlarm == -100

WatchdogInit ==
  /\ clock = 0
  /\ state_ = [d \in Dog |-> "DISARMED"]
  /\ start_time_ = [d \in Dog |-> 0]
  /\ dog = [d \in Dog |-> "look"]
  /\ since = [d \in Dog |-> 0]
  /\ user = [d \in Dog |-> "idle"]
  /\ g_last_debugged_alarm_time = NoAlarm
  /\ g_last_debugged_alarm_delay = 0
  /\ armed = [d \in Dog |-> 0]
  /\ answer = [d \in Dog |-> "none"]

Puts(f, d, v) == f' = [f EXCEPT ![d] = v]

-----------------------------------------------------------------------------
(* The user.                                                                *)

Free(d) == user[d] = "idle" /\ \A e \in Dog : user[e] \in {"idle", "gone"}

\* The bug of an Arm that expects the thread to wake up some day, as Disarm does.
ArmQuietly(d) ==
  /\ Free(d) /\ state_[d] \in {"DISARMED", "ARMED"}
  /\ armed[d] < MaxArms
  /\ Puts(armed, d, armed[d] + 1)
  /\ Puts(answer, d, "due")
  /\ Puts(start_time_, d, clock)
  /\ Puts(state_, d, "ARMED")
  /\ UNCHANGED <<clock, dog, since, user, globals>>

ArmAtStartTime(d) ==
  /\ Free(d) /\ state_[d] \in {"DISARMED", "ARMED"}
  /\ armed[d] < MaxArms
  /\ Puts(armed, d, armed[d] + 1)
  /\ Puts(answer, d, "due")
  /\ \E ago \in Ago : Puts(start_time_, d, clock - ago)
  /\ Puts(state_, d, "ARMED")
  /\ Puts(user, d, "signal")
  /\ UNCHANGED <<clock, dog, since, globals>>

Disarm(d) ==
  /\ Free(d) /\ state_[d] \in {"DISARMED", "ARMED"}
  /\ Puts(state_, d, "DISARMED")
  /\ Puts(answer, d, "none")
  /\ UNCHANGED <<armed, clock, start_time_, dog, since, user, globals>>

\* Cleanup, which a user calls first or leaves to the destructor.
Cleanup(d) ==
  /\ \/ Free(d) /\ Puts(user, d, "signal")
     \/ user[d] = "cleanup" /\ Puts(user, d, "wake")
  /\ Puts(state_, d, "SHUTDOWN")
  /\ Puts(answer, d, "none")
  /\ UNCHANGED <<armed, clock, start_time_, dog, since, globals>>

Wakes(d) == dog' = IF dog[d] \in {"wait", "timed"} THEN [dog EXCEPT ![d] = "look"] ELSE dog

\* The condition variable is signalled outside the lock.
SignalDog(d) ==
  /\ \/ user[d] = "signal" /\ Puts(user, d, "idle")
     \/ user[d] = "wake" /\ Puts(user, d, "join")
  /\ Wakes(d)
  /\ UNCHANGED <<clock, state_, start_time_, since, globals, armed, answer>>

\* ~Watchdog: is it joinable?
BeginDelete(d) ==
  /\ Free(d)
  /\ Puts(user, d, IF state_[d] = "JOINABLE" THEN "wake" ELSE "cleanup")
  /\ UNCHANGED <<clock, state_, start_time_, dog, since, globals, armed, answer>>

EndDelete(d) ==
  /\ user[d] = "join" /\ dog[d] = "exited"
  /\ Puts(user, d, "gone")
  /\ UNCHANGED <<clock, state_, start_time_, dog, since, globals, armed, answer>>

-----------------------------------------------------------------------------
(* ThreadMain, from one acquisition of the lock to the next.                *)

Remaining(d) == duration_ - (clock - start_time_[d])
Sleep(d) ==
  /\ dog[d] = "look"
  /\ \/ state_[d] = "DISARMED" /\ Puts(dog, d, "wait")
     \/ state_[d] = "ARMED" /\ Remaining(d) > 0 /\ Puts(dog, d, "timed")
  /\ UNCHANGED <<clock, state_, start_time_, since, user, globals, armed, answer>>

Exit(d) ==
  /\ dog[d] = "look"
  /\ state_[d] = "SHUTDOWN"
  /\ Puts(state_, d, "JOINABLE")
  /\ Puts(dog, d, "exited")
  /\ UNCHANGED <<clock, start_time_, since, user, globals, armed, answer>>

Expired(d) == dog[d] = "look" /\ state_[d] = "ARMED" /\ Remaining(d) <= 0

\* The clock was started before the last stop in a debugger.
FalseAlarm(d) ==
  LET start == start_time_[d] + g_last_debugged_alarm_delay
      tooMany == g_last_debugged_alarm_time > start
  IN  /\ Expired(d)
      /\ g_last_debugged_alarm_time > start_time_[d]
      /\ Puts(start_time_, d, start)
      /\ Puts(state_, d, IF tooMany THEN "DISARMED" ELSE "ARMED")
      /\ Puts(answer, d, IF tooMany THEN "dropped" ELSE answer[d])
      /\ UNCHANGED <<clock, dog, since, user, globals, armed>>

Alarm(d) ==
  /\ Expired(d)
  /\ g_last_debugged_alarm_time <= start_time_[d]
  /\ Puts(state_, d, "DISARMED")
  /\ Puts(dog, d, "alarm")
  /\ Puts(since, d, clock)
  /\ Puts(answer, d, IF answer[d] = "due" THEN "alarm" ELSE "twice")
  /\ UNCHANGED <<clock, start_time_, user, globals, armed>>

\* Two alarms at the same time race, and the last one to return is remembered.
AlarmReturns(d) ==
  /\ dog[d] = "alarm"
  /\ Puts(dog, d, "look")
  /\ Puts(since, d, 0)
  /\ IF clock > since[d]
     THEN /\ g_last_debugged_alarm_time' = since[d]
          /\ g_last_debugged_alarm_delay' = clock - since[d]
     ELSE UNCHANGED globals
  /\ UNCHANGED <<clock, state_, start_time_, user, armed, answer>>

\* The time is up, or a wait is over for no reason.
WaitReturns(d) ==
  /\ dog[d] \in {"wait", "timed"}
  /\ Wakes(d)
  /\ UNCHANGED <<clock, state_, start_time_, since, user, globals, armed, answer>>

WatchTick ==
  /\ clock < MaxWatchTime
  /\ clock' = clock + 1
  /\ UNCHANGED <<state_, start_time_, dog, since, user, globals, armed, answer>>

DogStep(d) == Sleep(d) \/ Exit(d) \/ FalseAlarm(d) \/ Alarm(d) \/ AlarmReturns(d)

\* What the thread and the user do in the end, for a watchdog in use.
ThreadRuns(d) ==
  \/ (state_[d] # "DISARMED" \/ dog[d] = "alarm") /\ DogStep(d)
  \/ dog[d] = "timed" /\ Remaining(d) <= 0 /\ WaitReturns(d)

UserRuns(d) ==
  (user[d] = "cleanup" /\ Cleanup(d)) \/ SignalDog(d) \/ EndDelete(d)

WatchdogNext ==
  \/ \E d \in Dog :
       \/ ArmAtStartTime(d) \/ Disarm(d) \/ Cleanup(d)
       \/ SignalDog(d) \/ BeginDelete(d) \/ EndDelete(d)
       \/ DogStep(d) \/ WaitReturns(d)
  \/ WatchTick

\* The threads run, a timed wait ends in time, an alarm returns and the clock
\* goes on.
WatchdogFairness ==
  /\ \A d \in Dog : WF_dogVars(ThreadRuns(d)) /\ WF_dogVars(UserRuns(d))
  /\ WF_dogVars((\E d \in Dog : armed[d] > 0) /\ WatchTick)

-----------------------------------------------------------------------------
(* Properties.                                                              *)

\* What a user relies on: an alarm is raised once for an Arm, and one that is
\* due is raised, unless the clock was started so long before a stop in a
\* debugger that it is dropped (watchdog.cc:142-144); and the destructor
\* returns, whatever the thread was about to do.
WatchdogSound ==
  /\ [](\A d \in Dog : answer[d] # "twice")
  /\ \A d \in Dog :
       []<>~(answer[d] = "due" /\ start_time_[d] + duration_ <= MaxWatchTime)
  /\ \A d \in Dog : []<>(user[d] \notin {"cleanup", "wake", "join"})
=============================================================================
