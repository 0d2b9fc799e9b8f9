----------------------------- MODULE FactoryTimed -----------------------------
(***************************************************************************)
(* The factory of Factory.tla with its clock: each Schedule task has the   *)
(* time at which it is due, Produce takes time, and the message loop runs  *)
(* a due task with some delay.                                             *)
(***************************************************************************)
EXTENDS Integers, Sequences, SequencesExt

CONSTANTS
  Period,       \* 1e6 / speed_: the delay Schedule posts itself with
  Late,         \* bound: how long the loop leaves a due task waiting
  ProduceTime,  \* bound: how long Produce takes
  MaxId,        \* bound: how many data are produced
  MaxPending,   \* bound: Schedule tasks in the queue at once
  MaxTime       \* bound: when the clock stops

ASSUME TimedAssumption ==
  /\ Period \in Nat \ {0}
  /\ Late \in Nat /\ ProduceTime \in Nat
  /\ MaxId \in Nat /\ MaxPending \in Nat /\ MaxTime \in Nat
  /\ ProduceTime <= Period + Late

VARIABLES
  factory, start_, id, data_,  \* as in Factory
  due,      \* when the Schedule tasks with a valid weak pointer are due
  stale,    \* when those with an invalidated weak pointer are due
  now,      \* TimeTicks::Now()
  produced  \* history: when the last data was produced, or Start called

timedVars == <<factory, start_, stale, id, data_, due, now, produced>>

TimedInit ==
  /\ factory = "none"
  /\ start_ = FALSE
  /\ stale = <<>>
  /\ id = 0
  /\ data_ = -1
  /\ due = <<>>
  /\ now = 0
  /\ produced = 0

CreateFactory ==
  /\ factory = "none"
  /\ factory' = "idle"
  /\ start_' = FALSE
  /\ data_' = -1
  /\ UNCHANGED <<stale, id, due, now, produced>>

Start ==
  /\ factory = "idle"
  /\ ~start_
  /\ Len(due) + Len(stale) < MaxPending
  /\ start_' = TRUE
  /\ due' = Append(due, now)
  /\ produced' = now
  /\ UNCHANGED <<factory, stale, id, data_, now>>

Stop ==
  /\ factory = "idle"
  /\ start_
  /\ start_' = FALSE
  /\ UNCHANGED <<factory, stale, id, data_, due, now, produced>>

\* The bug of a Schedule that posts the next Schedule for the time at which
\* Produce is expected to be done.
ScheduleAfterProduce ==
  /\ factory = "idle"
  /\ start_
  /\ id < MaxId
  /\ \E i \in DOMAIN due :
       /\ due[i] <= now
       /\ due' = [due EXCEPT ![i] = now + ProduceTime + Period]
  /\ factory' = "notify"
  /\ data_' = id
  /\ produced' = now
  /\ UNCHANGED <<start_, stale, id, now>>

\* The bug of a Schedule that keeps the task that runs in the queue.
SchedulePostsTwice ==
  /\ factory = "idle"
  /\ start_
  /\ id < MaxId
  /\ \E i \in DOMAIN due :
       /\ due[i] <= now
       /\ due' = Append(due, now + Period)
  /\ factory' = "notify"
  /\ data_' = id
  /\ produced' = now
  /\ UNCHANGED <<start_, stale, id, now>>

\* The bug of a Schedule that uses PostTask.
ScheduleNoDelay ==
  /\ factory = "idle"
  /\ start_
  /\ id < MaxId
  /\ \E i \in DOMAIN due :
       /\ due[i] <= now
       /\ due' = [due EXCEPT ![i] = now]
  /\ factory' = "notify"
  /\ data_' = id
  /\ produced' = now
  /\ UNCHANGED <<start_, stale, id, now>>

\* A due Schedule task is replaced by the next one, before Produce.
ScheduleProduce ==
  /\ factory = "idle"
  /\ start_
  /\ id < MaxId
  /\ \E i \in DOMAIN due :
       /\ due[i] <= now
       /\ due' = [due EXCEPT ![i] = now + Period]
  /\ factory' = "notify"
  /\ data_' = id
  /\ produced' = now
  /\ UNCHANGED <<start_, stale, id, now>>

ScheduleStopped ==
  /\ factory = "idle"
  /\ ~start_
  /\ \E i \in DOMAIN due :
       /\ due[i] <= now
       /\ due' = RemoveAt(due, i)
  /\ UNCHANGED <<factory, start_, stale, id, data_, now, produced>>

ScheduleCancelled ==
  /\ factory \in {"none", "idle"}
  /\ \E i \in DOMAIN stale :
       /\ stale[i] <= now
       /\ stale' = RemoveAt(stale, i)
  /\ UNCHANGED <<factory, start_, id, data_, due, now, produced>>

ProduceDone ==
  /\ factory = "notify"
  /\ factory' = "idle"
  /\ id' = id + 1
  /\ UNCHANGED <<start_, stale, data_, due, now, produced>>

Destroy ==
  /\ factory = "idle"
  /\ factory' = "destroy"
  /\ UNCHANGED <<start_, stale, id, data_, due, now, produced>>

DestroyDone ==
  /\ factory = "destroy"
  /\ factory' = "none"
  /\ start_' = FALSE
  /\ stale' = stale \o due
  /\ due' = <<>>
  /\ UNCHANGED <<id, data_, now, produced>>

\* Time passes while the loop is idle or Produce runs, up to the bounds.
Tick ==
  /\ now < MaxTime
  /\ factory # "destroy"
  /\ IF factory = "notify"
     THEN now < produced + ProduceTime
     ELSE \A t \in Range(due) \cup Range(stale) : now < t + Late
  /\ now' = now + 1
  /\ UNCHANGED <<factory, start_, stale, id, data_, due, produced>>

TimedNext ==
  \/ CreateFactory
  \/ Start
  \/ Stop
  \/ ScheduleProduce
  \/ ScheduleStopped
  \/ ScheduleCancelled
  \/ ProduceDone
  \/ Destroy
  \/ DestroyDone
  \/ Tick

TimedSpec == TimedInit /\ [][TimedNext]_timedVars

-----------------------------------------------------------------------------
\* The types of the timed factory (factory.h:69-82).
TimedTypeOK ==
  /\ factory \in {"none", "idle", "notify", "destroy"}
  /\ start_ \in BOOLEAN
  /\ stale \in Seq(Nat)
  /\ id \in Nat
  /\ data_ \in Int
  /\ due \in Seq(Nat)
  /\ now \in Nat
  /\ produced \in Nat

\* The untimed factory, which only counts the Schedule tasks.
Untimed == INSTANCE Factory WITH pending <- Len(due), stale <- Len(stale)

\* Due times and delays are an implementation of Factory: with them the
\* Schedule tasks appear and disappear exactly as Factory says.
ImplementsFactory == Untimed!FactorySafety

\* "post task before Produce(), so no delay is no add up Produce() time"
\* (factory.cc:59): while started, the factory produces a data at least once
\* per period and delay of the loop, however long Produce takes.
KeepsPeriod ==
  (factory = "idle" /\ start_) => now <= produced + Period + Late

\* "speed ad 1000 a second" (factory.cc:83), as far as it holds: with at most
\* MaxPending Schedule tasks in the queue, dead ones included, no history of
\* Start, Stop, Destroy and Create makes more than MaxPending data per period.
SpeedLimit == id <= MaxPending * ((now \div Period) + 1)
=============================================================================
