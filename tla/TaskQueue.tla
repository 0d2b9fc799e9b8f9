------------------------------ MODULE TaskQueue -------------------------------
(***************************************************************************)
(* What a message loop promises for nestable tasks without delay: a queue  *)
(* that any thread may post to and that starts the tasks in the order in   *)
(* which they were posted, each once, until it goes away.                  *)
(***************************************************************************)
EXTENDS Sequences, SequencesExt

CONSTANTS Task

VARIABLES
  open,     \* tasks can be posted
  queue,    \* those posted and not started
  started   \* those started, in order

queueVars == <<open, queue, started>>

QueueInit ==
  /\ open = TRUE
  /\ queue = <<>>
  /\ started = <<>>

Post(t) ==
  /\ open
  /\ t \notin Range(queue) \cup Range(started)
  /\ queue' = Append(queue, t)
  /\ UNCHANGED <<open, started>>

StartNext ==
  /\ queue # <<>>
  /\ started' = Append(started, Head(queue))
  /\ queue' = Tail(queue)
  /\ UNCHANGED open

\* The tasks that were not started are deleted.
Discard ==
  /\ queue' = <<>>
  /\ UNCHANGED <<open, started>>

Close ==
  /\ open
  /\ open' = FALSE
  /\ queue' = <<>>
  /\ UNCHANGED started

QueueNext ==
  \/ \E t \in Task : Post(t)
  \/ StartNext
  \/ Discard
  \/ Close

QueueSafety == QueueInit /\ [][QueueNext]_queueVars
=============================================================================
