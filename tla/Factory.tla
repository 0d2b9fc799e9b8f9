------------------------------- MODULE Factory -------------------------------
(***************************************************************************)
(* The data factory (osc_data_process/factory.{h,cc}): one object, used on *)
(* one thread only, that produces numbered data at a fixed rate by posting *)
(* its own Schedule method back to the factory thread as a delayed task    *)
(* bound to a weak pointer.                                                *)
(*                                                                         *)
(* Time is abstracted: `pending' counts the Schedule tasks that sit in the *)
(* thread's delayed queue, and any of them may run next.  A run of the     *)
(* observer loop is two steps (enter, leave) so that a module composed     *)
(* with this one can put one step per observer in between.                 *)
(***************************************************************************)
EXTENDS Integers

CONSTANTS MaxId,      \* bound: how many data are produced (static int id)
          MaxPending  \* bound: Schedule tasks in the queue at once

ASSUME FactoryAssumption == MaxId \in Nat /\ MaxPending \in Nat

VARIABLES
  factory,  \* "none": g_factory is NULL; "idle": between tasks;
            \* "notify", "destroy": inside NotifyProduced, NotifyDestroy
  start_,   \* Factory::start_
  pending,  \* Schedule tasks bound to a valid weak pointer
  stale,    \* Schedule tasks whose weak pointer was invalidated
  id,       \* the static counter of Produce, which outlives the factory
  data_     \* the id of the last produced data, -1 before the first

factoryVars == <<factory, start_, pending, stale, id, data_>>

FactoryInit ==
  /\ factory = "none"
  /\ start_ = FALSE
  /\ pending = 0
  /\ stale = 0
  /\ id = 0
  /\ data_ = -1

\* `new Factory(...)', done by the client when there is none.
CreateFactory ==
  /\ factory = "none"
  /\ factory' = "idle"
  /\ start_' = FALSE
  /\ data_' = -1
  /\ UNCHANGED <<pending, stale, id>>

\* The bug of a Start that relies on a Schedule task left over by Stop.
StartReusesChain ==
  /\ factory = "idle"
  /\ ~start_
  /\ pending + stale < MaxPending
  /\ start_' = TRUE
  /\ pending' = IF id > 0 THEN pending ELSE pending + 1
  /\ UNCHANGED <<factory, stale, id, data_>>

\* A second Start only logs a warning, so it is a stuttering step.
Start ==
  /\ factory = "idle"
  /\ ~start_
  /\ pending + stale < MaxPending
  /\ start_' = TRUE
  /\ pending' = pending + 1
  /\ UNCHANGED <<factory, stale, id, data_>>

\* Stop leaves the posted Schedule tasks where they are.
Stop ==
  /\ factory = "idle"
  /\ start_
  /\ start_' = FALSE
  /\ UNCHANGED <<factory, pending, stale, id, data_>>

\* The bug of a Schedule that does not post itself again.
ScheduleProduceOnce ==
  /\ factory = "idle"
  /\ pending > 0
  /\ start_
  /\ id < MaxId
  /\ data_' = id
  /\ factory' = "notify"
  /\ pending' = pending - 1
  /\ UNCHANGED <<start_, stale, id>>

\* Schedule while started: the next Schedule is posted before Produce, whose
\* observer loop is entered by this step.
ScheduleProduce ==
  /\ factory = "idle"
  /\ pending > 0
  /\ start_
  /\ id < MaxId
  /\ data_' = id
  /\ factory' = "notify"
  /\ UNCHANGED <<start_, pending, stale, id>>

\* Schedule after Stop returns without posting itself again.
ScheduleStopped ==
  /\ factory = "idle"
  /\ pending > 0
  /\ ~start_
  /\ pending' = pending - 1
  /\ UNCHANGED <<factory, start_, stale, id, data_>>

\* The bug of counting a cancelled task twice.
ScheduleCancelledUnguarded ==
  /\ factory \in {"none", "idle"}
  /\ stale' = stale - 1
  /\ UNCHANGED <<factory, start_, pending, id, data_>>

\* A Schedule task of a destroyed factory: the weak pointer is invalid and
\* the closure does nothing.
ScheduleCancelled ==
  /\ factory \in {"none", "idle"}
  /\ stale > 0
  /\ stale' = stale - 1
  /\ UNCHANGED <<factory, start_, pending, id, data_>>

\* The bug of a Produce that gives two data the same id.
ProduceDoneForgetsId ==
  /\ factory = "notify"
  /\ factory' = "idle"
  /\ UNCHANGED <<start_, pending, stale, id, data_>>

\* The end of Produce.
ProduceDone ==
  /\ factory = "notify"
  /\ factory' = "idle"
  /\ id' = id + 1
  /\ UNCHANGED <<start_, pending, stale, data_>>

\* Factory::Destroy enters NotifyDestroy.
Destroy ==
  /\ factory = "idle"
  /\ factory' = "destroy"
  /\ UNCHANGED <<start_, pending, stale, id, data_>>

\* InvalidateWeakPtrs and `delete this'; start_ dies with the object.
DestroyDone ==
  /\ factory = "destroy"
  /\ factory' = "none"
  /\ start_' = FALSE
  /\ stale' = stale + pending
  /\ pending' = 0
  /\ UNCHANGED <<id, data_>>

FactoryNext ==
  \/ CreateFactory
  \/ Start
  \/ Stop
  \/ ScheduleProduce
  \/ ScheduleStopped
  \/ ScheduleCancelled
  \/ ProduceDone
  \/ Destroy
  \/ DestroyDone

\* The thread's message loop keeps running due tasks and finishes the task
\* it runs; nobody has to call Start, Stop, Create or Destroy.
FactoryFairness ==
  /\ WF_factoryVars(ScheduleProduce \/ ScheduleStopped)
  /\ WF_factoryVars(ScheduleCancelled)
  /\ WF_factoryVars(ProduceDone)
  /\ WF_factoryVars(DestroyDone)

FactorySafety == FactoryInit /\ [][FactoryNext]_factoryVars

FactorySpec == FactorySafety /\ FactoryFairness

-----------------------------------------------------------------------------
\* The types of the factory's variables (factory.h:69-82).
FactoryTypeOK ==
  /\ factory \in {"none", "idle", "notify", "destroy"}
  /\ start_ \in BOOLEAN
  /\ pending \in Nat
  /\ stale \in Nat
  /\ id \in Nat
  /\ data_ \in Int

\* A started factory always has a Schedule task on its way: no order of
\* Start, Stop and half-finished Schedule chains makes production stall.
NeverStalls == (factory # "none" /\ start_) => pending >= 1

\* After `delete this' no Schedule task reaches the freed factory: each one
\* left in the queue holds an invalidated weak pointer.
NoScheduleAfterDelete == (factory = "none") => pending = 0

\* Speed `1000 a second' (factory.cc:83): one Schedule chain, so that one
\* data is produced per period.
OneScheduleChain == pending <= 1

\* What a Schedule relies on: its chain keeps a started factory going, and ends
\* before the factory is deleted.
FactorySafe == NeverStalls /\ NoScheduleAfterDelete

\* While the factory stays started it produces again and again (up to the
\* bound): the chain of delayed tasks never dies.
KeepsProducing == []<>~(factory = "idle" /\ start_ /\ id < MaxId)

\* A stopped factory goes quiet: the chains that Stop left behind end, unless
\* the factory is started again or destroyed first.
StopDrains == []<>~(factory = "idle" /\ ~start_ /\ pending > 0)

\* Both, whatever the order of Start, Stop, Create and Destroy.
FactoryLive == KeepsProducing /\ StopDrains
=============================================================================
