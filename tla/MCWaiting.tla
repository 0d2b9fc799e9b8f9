------------------------------- MODULE MCWaiting -------------------------------
(* Parts of the library that wait for an event or for the time to pass,      *)
(* checked for liveness too, one at a time: a message loop, a timer on its   *)
(* task runner, the condition variable of Windows XP and the events of POSIX. *)
(* What the initial state picks as part takes steps, the others do not.      *)
EXTENDS MessageLoop, Timer, WinXPCondVar, WaitableEvent

VARIABLE part

Init ==
  /\ part \in {"loop", "timer", "condition", "events"}
  /\ LoopInit
  /\ TimerInit /\ (part = "timer" \/ ~(timer.is_repeating_ \/ timer.retain_user_task_))
  /\ CondInit
  /\ EventInit

Next ==
  /\ part' = part
  /\ \/ /\ part = "loop" /\ LoopNext
        /\ UNCHANGED <<timerVars, condVars, eventVars>>
     \/ /\ part = "timer" /\ TimerNext
        /\ UNCHANGED <<loopVars, condVars, eventVars>>
     \/ /\ part = "condition" /\ CondNext
        /\ UNCHANGED <<loopVars, timerVars, eventVars>>
     \/ /\ part = "events" /\ EventNext
        /\ UNCHANGED <<loopVars, timerVars, condVars>>

vars == <<part, loopVars, timerVars, condVars, eventVars>>

\* What is fair in one part has nothing to do in the initial state of the
\* others.
Fairness == LoopFairness /\ TimerFairness /\ CondFairness /\ EventFairness

Spec == Init /\ [][Next]_vars /\ Fairness
=============================================================================
