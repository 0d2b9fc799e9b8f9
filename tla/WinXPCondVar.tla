----------------------------- MODULE WinXPCondVar ------------------------------
(***************************************************************************)
(* The condition variable of Windows XP (condition_variable_win.cc), which *)
(* keeps a recycled event per waiting thread, used as condition_variable.h *)
(* asks: consumers wait in a loop, with the user's lock, for items that    *)
(* producers add under that lock before they signal.                       *)
(***************************************************************************)
EXTENDS Integers, Sequences, SequencesExt, FiniteSets

CONSTANTS
  Consumer, Producer,
  MaxItems  \* bound: items produced

ASSUME CondVarAssumption ==
  Consumer \cap Producer = {} /\ MaxItems \in Nat

VARIABLES
  user_lock_,          \* the threads that hold it: one or none
  items,               \* what the consumers wait for
  produced,            \* history: the items produced
  waiting_list_,       \* events, which are numbers
  recycling_list_,
  allocation_counter_, \* events allocated
  signalled,           \* the events that are set
  consumer,            \* where each consumer is, its event, and whether it
                       \* waits with a timeout
  producer             \* where each producer is and the events it has to set

condVars == <<user_lock_, items, produced, waiting_list_, recycling_list_,
              allocation_counter_, signalled, consumer, producer>>
lists == <<waiting_list_, recycling_list_, allocation_counter_>>
buffer == <<items, produced>>

CondInit ==
  /\ user_lock_ = {}
  /\ items = 0
  /\ produced = 0
  /\ waiting_list_ = <<>>
  /\ recycling_list_ = <<>>
  /\ allocation_counter_ = 0
  /\ signalled = {}
  /\ consumer = [c \in Consumer |-> [at |-> "idle", event |-> 0, timed |-> FALSE]]
  /\ producer = [p \in Producer |-> [at |-> "idle", handles |-> <<>>]]

ConsumerAt(c, pc) == consumer[c].at = pc
Move(c, pc) == consumer' = [consumer EXCEPT ![c].at = pc]

-----------------------------------------------------------------------------
(* A consumer: lock, while there is no item wait, take one, unlock.         *)

Begin(c) ==
  /\ ConsumerAt(c, "idle")
  /\ Move(c, "lock")
  /\ UNCHANGED <<user_lock_, buffer, lists, signalled, producer>>

AcquireUserLock(c) ==
  /\ ConsumerAt(c, "lock")
  /\ user_lock_ = {}
  /\ user_lock_' = {c}
  /\ Move(c, "test")
  /\ UNCHANGED <<buffer, lists, signalled, producer>>

TakeItem(c) ==
  /\ ConsumerAt(c, "test")
  /\ items > 0
  /\ items' = items - 1
  /\ user_lock_' = {}
  /\ Move(c, "idle")
  /\ UNCHANGED <<produced, lists, signalled, producer>>

\* TimedWait, its first section: the thread waits from here on, though it still
\* holds the user's lock.
GetEventForWaiting(c) ==
  /\ ConsumerAt(c, "test")
  /\ items = 0
  /\ \E timed \in BOOLEAN :
       LET event == IF recycling_list_ = <<>> THEN allocation_counter_ + 1
                    ELSE Head(recycling_list_)
       IN  /\ waiting_list_' = Append(waiting_list_, event)
           /\ consumer' = [consumer EXCEPT ![c] =
                             [at |-> "unlock", event |-> event, timed |-> timed]]
  /\ IF recycling_list_ = <<>>
     THEN /\ allocation_counter_' = allocation_counter_ + 1
          /\ UNCHANGED recycling_list_
     ELSE /\ recycling_list_' = Tail(recycling_list_)
          /\ UNCHANGED allocation_counter_
  /\ UNCHANGED <<user_lock_, buffer, signalled, producer>>

ReleaseUserLock(c) ==
  /\ ConsumerAt(c, "unlock")
  /\ user_lock_' = {}
  /\ Move(c, "wait")
  /\ UNCHANGED <<buffer, lists, signalled, producer>>

\* WaitForSingleObject returns as the event is set, and resets it.
EventSet(c) ==
  /\ ConsumerAt(c, "wait")
  /\ consumer[c].event \in signalled
  /\ signalled' = signalled \ {consumer[c].event}
  /\ Move(c, "recycle")
  /\ UNCHANGED <<user_lock_, buffer, lists, producer>>

\* It returns as the time is up; the event may be set right after.
WaitTimesOut(c) ==
  /\ ConsumerAt(c, "wait")
  /\ consumer[c].timed
  /\ consumer[c].event \notin signalled
  /\ Move(c, "recycle")
  /\ UNCHANGED <<user_lock_, buffer, lists, signalled, producer>>

\* The bug of an event that is recycled but stays on the waiting list.
RecycleEventOnly(c) ==
  /\ ConsumerAt(c, "recycle")
  /\ recycling_list_' = Append(recycling_list_, consumer[c].event)
  /\ consumer' = [consumer EXCEPT ![c] = [at |-> "lock", event |-> 0, timed |-> FALSE]]
  /\ UNCHANGED <<user_lock_, buffer, waiting_list_, allocation_counter_, signalled,
                 producer>>

\* Extract does nothing to an event that is on no list.
RecycleEvent(c) ==
  /\ ConsumerAt(c, "recycle")
  /\ waiting_list_' = SelectSeq(waiting_list_, LAMBDA e : e # consumer[c].event)
  /\ recycling_list_' = Append(recycling_list_, consumer[c].event)
  /\ consumer' = [consumer EXCEPT ![c] = [at |-> "lock", event |-> 0, timed |-> FALSE]]
  /\ UNCHANGED <<user_lock_, buffer, allocation_counter_, signalled, producer>>

-----------------------------------------------------------------------------
(* A producer: add an item under the lock, then Signal or Broadcast.        *)

Produce(p) ==
  /\ producer[p].at = "idle"
  /\ produced < MaxItems
  /\ user_lock_ = {}
  /\ items' = items + 1
  /\ produced' = produced + 1
  /\ producer' = [producer EXCEPT ![p].at = "signal"]
  /\ UNCHANGED <<user_lock_, lists, signalled, consumer>>

\* Signal takes the thread that went to sleep last.
CvSignal(p) ==
  /\ producer[p].at = "signal"
  /\ LET n == Len(waiting_list_)
     IN  /\ waiting_list_' = IF n = 0 THEN <<>> ELSE Front(waiting_list_)
         /\ producer' = [producer EXCEPT ![p] =
              IF n = 0 THEN [at |-> "idle", handles |-> <<>>]
              ELSE [at |-> "set", handles |-> <<Last(waiting_list_)>>]]
  /\ UNCHANGED <<user_lock_, buffer, recycling_list_, allocation_counter_,
                 signalled, consumer>>

\* The handles come off the stack in the order of the list.
CvBroadcast(p) ==
  /\ producer[p].at = "signal"
  /\ waiting_list_ # <<>>
  /\ waiting_list_' = <<>>
  /\ producer' = [producer EXCEPT ![p] = [at |-> "set", handles |-> waiting_list_]]
  /\ UNCHANGED <<user_lock_, buffer, recycling_list_, allocation_counter_,
                 signalled, consumer>>

SetEvent(p) ==
  /\ producer[p].at = "set"
  /\ signalled' = signalled \cup {Head(producer[p].handles)}
  /\ LET rest == Tail(producer[p].handles)
     IN  producer' = [producer EXCEPT ![p] =
                        [at |-> IF rest = <<>> THEN "idle" ELSE "set", handles |-> rest]]
  /\ UNCHANGED <<user_lock_, buffer, lists, consumer>>

-----------------------------------------------------------------------------
ConsumerStep(c) ==
  \/ TakeItem(c)
  \/ GetEventForWaiting(c)
  \/ ReleaseUserLock(c)
  \/ EventSet(c)
  \/ RecycleEvent(c)

SignalStep(p) == CvSignal(p) \/ CvBroadcast(p) \/ SetEvent(p)

CondNext ==
  \/ \E c \in Consumer :
       ConsumerStep(c) \/ Begin(c) \/ AcquireUserLock(c) \/ WaitTimesOut(c)
  \/ \E p \in Producer : Produce(p) \/ SignalStep(p)

\* Threads run and the lock is granted; nothing makes a client call, and a
\* timeout may be far away.
CondFairness ==
  /\ \A c \in Consumer :
       WF_condVars(ConsumerStep(c)) /\ SF_condVars(AcquireUserLock(c))
  /\ \A p \in Producer : WF_condVars(SignalStep(p))

-----------------------------------------------------------------------------
Asleep(c) == ConsumerAt(c, "unlock") \/ ConsumerAt(c, "wait")
InUse == {c \in Consumer : Asleep(c) \/ ConsumerAt(c, "recycle")}

\* Events are not leaked (condition_variable_win.cc:166-190, FAQ 12): each is on
\* the recycling list or belongs to one thread, whatever timeouts, late
\* SetEvents and recycled events there were.
EventsAccounted ==
  /\ IsInjective(waiting_list_) /\ IsInjective(recycling_list_)
  /\ Len(recycling_list_) + Cardinality(InUse) = allocation_counter_
  /\ \A c, d \in InUse : consumer[c].event = consumer[d].event => c = d
  /\ \A c \in InUse : consumer[c].event \notin ToSet(recycling_list_)

\* A thread whose event left the waiting list is going to be woken.
SleepersAreKnown ==
  \A c \in Consumer :
    Asleep(c) => \/ consumer[c].event \in ToSet(waiting_list_) \cup signalled
                 \/ \E p \in Producer :
                      consumer[c].event \in ToSet(producer[p].handles)

\* No event is leaked and no wakeup is lost: a consumer does not sleep on while
\* there is an item for it (condition_variable.h:14-66, condition_variable_win.cc
\* FAQ 6).
CondVarSound ==
  /\ [](EventsAccounted /\ SleepersAreKnown)
  /\ \A c \in Consumer : []<>~(Asleep(c) /\ items > 0)
=============================================================================
