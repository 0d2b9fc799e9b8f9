---------------------------- MODULE SequencedTasks ----------------------------
(***************************************************************************)
(* What sequenced_worker_pool.h promises about the tasks posted to a pool: *)
(* those with the same token run one at a time and in the order of their   *)
(* posts, and shutting down keeps, drops or ignores a task by its behavior.*)
(***************************************************************************)
EXTENDS Integers, Sequences, FiniteSets

CONSTANTS MaxTasks, MaxTokens  \* bounds: tasks posted, sequence tokens

VARIABLES
  tasks,    \* the tasks posted; the other variables hold indexes into it
  pending,  \* not started
  running,
  phase     \* of the pool: "open", "closing" or "closed" as Shutdown returned

taskVars == <<tasks, pending, running, phase>>

Settled == DOMAIN tasks \ (pending \cup running)

\* The tasks a task must come after; the token 0 asks for no order.
Before(t) ==
  {s \in 1..(t - 1) : tasks[s].token # 0 /\ tasks[s].token = tasks[t].token}

Init ==
  /\ tasks = <<>>
  /\ pending = {}
  /\ running = {}
  /\ phase = "open"

Post ==
  /\ phase = "open"
  /\ Len(tasks) < MaxTasks
  /\ \E token \in 0..MaxTokens, behavior \in {"BLOCK", "SKIP", "CONTINUE"} :
       tasks' = Append(tasks, [token |-> token, behavior |-> behavior])
  /\ pending' = pending \cup {Len(tasks) + 1}
  /\ UNCHANGED <<running, phase>>

\* A thread drops tasks that do not block the shutdown and starts one, or none.
Proceed(dropped, begun) ==
  /\ dropped \cup begun \subseteq pending
  /\ Cardinality(begun) <= 1
  /\ \A t \in dropped \cup begun : Before(t) \subseteq Settled \cup dropped
  /\ \A t \in dropped : phase # "open" /\ tasks[t].behavior # "BLOCK"
  /\ \A t \in begun : phase = "open" \/ tasks[t].behavior = "BLOCK"
  /\ pending' = pending \ (dropped \cup begun)
  /\ running' = running \cup begun
  /\ UNCHANGED <<tasks, phase>>

End(t) ==
  /\ t \in running
  /\ running' = running \ {t}
  /\ UNCHANGED <<tasks, pending, phase>>

Close ==
  /\ phase = "open"
  /\ phase' = "closing"
  /\ UNCHANGED <<tasks, pending, running>>

\* Shutdown returns, if it can at once.
Return ==
  /\ phase # "closed"
  /\ \A t \in pending : tasks[t].behavior # "BLOCK"
  /\ \A t \in running : tasks[t].behavior = "CONTINUE"
  /\ phase' = "closed"
  /\ UNCHANGED <<tasks, pending, running>>

Next ==
  \/ Post
  \/ \E dropped, begun \in SUBSET pending : Proceed(dropped, begun)
  \/ \E t \in running : End(t)
  \/ Close
  \/ Return

Safety == Init /\ [][Next]_taskVars
=============================================================================
