----------------------------- MODULE WaitableEvent -----------------------------
(***************************************************************************)
(* The events of POSIX (synchronization/waitable_event_posix.cc): threads  *)
(* that signal, reset, poll and wait for one of several events.  Each event *)
(* has a lock and a list of waiters; a waiter has a flag that the first    *)
(* event to fire it sets, under the waiter's own lock.                     *)
(***************************************************************************)
EXTENDS Integers, Sequences, SequencesExt, FiniteSets

CONSTANTS
  Waiting, Signaling,  \* the threads that wait, and those that signal
  Event,          \* numbers, in the order of their addresses
  ManualReset,    \* the events that stay signaled until they are reset
  NoEvent

ASSUME EventAssumption ==
  Waiting \cap Signaling = {} /\ Event \subseteq Nat /\ ManualReset \subseteq Event /\ NoEvent \notin Event

EventThread == Waiting \cup Signaling

VARIABLES
  signaled_,  \* the events that are signaled
  waiters_,   \* per event the threads on its list, once per wait
  lock_,      \* per event the threads that hold its lock: one or none
  waiter,     \* per thread its SyncWaiter: fired_ and signaling_event_
  caller,     \* where each thread is and which events it is about
  balance     \* history: per event that resets itself, the signals that counted
              \* less those that a wait, a poll or a reset used up

eventVars == <<signaled_, waiters_, lock_, waiter, caller, balance>>

IdleCaller == [at |-> "idle", events |-> <<>>, timed |-> FALSE, result |-> FALSE]
NotFired == [fired |-> FALSE, event |-> NoEvent]

EventInit ==
  /\ signaled_ = {}
  /\ waiters_ = [e \in Event |-> <<>>]
  /\ lock_ = [e \in Event |-> {}]
  /\ waiter = [t \in Waiting |-> NotFired]
  /\ caller = [t \in EventThread |-> IdleCaller]
  /\ balance = [e \in Event |-> 0]

CallerAt(t, pc) == caller[t].at = pc
First(t) == Head(caller[t].events)
Free(e) == lock_[e] = {}

\* The events used up by a look at them, which resets those that do so by
\* themselves.
Reset1(e) == signaled_ \ ({e} \ ManualReset)

\* Counts a signal of an event that resets itself, or one used up.
Counted(e, n) ==
  IF e \in ManualReset THEN balance ELSE [balance EXCEPT ![e] = @ + n]

-----------------------------------------------------------------------------
(* Signal: fires one waiter, or all of them, and pops it off the list.      *)

Signal(t, e) ==
  /\ CallerAt(t, "idle") /\ Free(e)
  /\ e \notin signaled_
  /\ lock_' = [lock_ EXCEPT ![e] = {t}]
  /\ caller' = [caller EXCEPT ![t] = [IdleCaller EXCEPT !.at = "signal", !.events = <<e>>]]
  /\ balance' = Counted(e, 1)
  /\ UNCHANGED <<signaled_, waiters_, waiter>>

\* Fire, which a waiter that has fired rejects; SignalOne then goes on.
Fire(t) ==
  /\ CallerAt(t, "signal")
  /\ LET e == First(t)
     IN  /\ waiters_[e] # <<>>
         /\ LET w == Head(waiters_[e])
            IN  /\ waiter' = IF waiter[w].fired THEN waiter
                             ELSE [waiter EXCEPT ![w] = [fired |-> TRUE, event |-> e]]
                /\ IF ~waiter[w].fired /\ e \notin ManualReset
                   THEN /\ caller' = [caller EXCEPT ![t] = IdleCaller]
                        /\ lock_' = [lock_ EXCEPT ![e] = {}]
                   ELSE UNCHANGED <<caller, lock_>>
         /\ waiters_' = [waiters_ EXCEPT ![e] = Tail(@)]
  /\ UNCHANGED <<signaled_, balance>>

\* Nobody is left to be woken, and the event remains signaled.
Remember(t) ==
  /\ CallerAt(t, "signal")
  /\ waiters_[First(t)] = <<>>
  /\ signaled_' = signaled_ \cup {First(t)}
  /\ lock_' = [lock_ EXCEPT ![First(t)] = {}]
  /\ caller' = [caller EXCEPT ![t] = IdleCaller]
  /\ UNCHANGED <<waiters_, waiter, balance>>

\* IsSignaled of an event that is, or Reset.
Poll(t, e) ==
  /\ CallerAt(t, "idle") /\ Free(e)
  /\ e \in signaled_
  /\ signaled_' \in {Reset1(e), signaled_ \ {e}}
  /\ balance' = Counted(e, -1)
  /\ UNCHANGED <<waiters_, lock_, waiter, caller>>

-----------------------------------------------------------------------------
(* Wait and TimedWait are a wait for one event; WaitMany sorts its events.  *)

InOrder(events) == {SetToSortSeq(events, <)}

BeginWait(t) ==
  /\ CallerAt(t, "idle")
  /\ \E events \in SUBSET Event \ {{}}, timed \in BOOLEAN :
       /\ timed => Cardinality(events) = 1
       /\ \E s \in InOrder(events) :
            caller' = [caller EXCEPT ![t] =
                         [at |-> "lock", events |-> s, timed |-> timed, result |-> FALSE]]
  /\ UNCHANGED <<signaled_, waiters_, lock_, waiter, balance>>

\* The events whose locks a WaitMany holds.
Locked(t) == {e \in Event : t \in lock_[e]}

\* EnqueueMany takes the next lock.  If the event is signaled it lets go of
\* all of them; after the last lock it enqueues the waiter everywhere, and the
\* locks are released once the waiter's own is taken.
EnqueueMany(t) ==
  /\ CallerAt(t, "lock")
  /\ LET e      == caller[t].events[Cardinality(Locked(t)) + 1]
         unlock == [f \in Event |-> lock_[f] \ {t}]
     IN  /\ Free(e)
         /\ IF e \in signaled_
            THEN /\ signaled_' = Reset1(e)
                 /\ balance' = Counted(e, -1)
                 /\ caller' = [caller EXCEPT ![t] = IdleCaller]
                 /\ lock_' = unlock
                 /\ UNCHANGED <<waiters_, waiter>>
            ELSE IF Cardinality(Locked(t)) + 1 < Len(caller[t].events)
            THEN /\ lock_' = [lock_ EXCEPT ![e] = {t}]
                 /\ UNCHANGED <<signaled_, waiters_, waiter, caller, balance>>
            ELSE /\ waiters_' = [f \in Event |->
                      IF f \in Range(caller[t].events) THEN Append(waiters_[f], t)
                      ELSE waiters_[f]]
                 /\ lock_' = unlock
                 /\ waiter' = [waiter EXCEPT ![t] = NotFired]
                 /\ caller' = [caller EXCEPT ![t].at = "wait"]
                 /\ UNCHANGED <<signaled_, balance>>

\* The waiter has fired; a wait for many events need not look at the list of
\* the one that fired it.
Wake(t) ==
  /\ CallerAt(t, "wait")
  /\ waiter[t].fired
  /\ caller' = [caller EXCEPT ![t] =
       [@ EXCEPT !.at = "dequeue", !.result = TRUE,
                 !.events = IF Len(@) = 1 THEN @
                            ELSE SelectSeq(@, LAMBDA e : e # waiter[t].event)]]
  /\ UNCHANGED <<signaled_, waiters_, lock_, waiter, balance>>

\* The bug of a timeout that lets a signal fire the waiter behind its back.
WaitTimeOutEnabled(t) ==
  /\ CallerAt(t, "wait")
  /\ caller[t].timed /\ ~waiter[t].fired
  /\ caller' = [caller EXCEPT ![t].at = "dequeue"]
  /\ UNCHANGED <<signaled_, waiters_, lock_, waiter, balance>>

\* The time is up: Disable makes the waiter reject a signal from now on.
WaitTimeOut(t) ==
  /\ CallerAt(t, "wait")
  /\ caller[t].timed /\ ~waiter[t].fired
  /\ waiter' = [waiter EXCEPT ![t].fired = TRUE]
  /\ caller' = [caller EXCEPT ![t].at = "dequeue"]
  /\ UNCHANGED <<signaled_, waiters_, lock_, balance>>

\* Dequeue from one event after the other; then the wait returns.
Dequeue(t) ==
  /\ CallerAt(t, "dequeue")
  /\ LET e    == First(t)
         rest == Tail(caller[t].events)
         used == rest = <<>> /\ caller[t].result
     IN  /\ Free(e)
         /\ waiters_' = [waiters_ EXCEPT ![e] = SelectSeq(@, LAMBDA w : w # t)]
         /\ caller' = [caller EXCEPT ![t] =
                         IF rest = <<>> THEN IdleCaller ELSE [@ EXCEPT !.events = rest]]
         /\ balance' = IF used THEN Counted(waiter[t].event, -1) ELSE balance
  /\ UNCHANGED <<signaled_, lock_, waiter>>

-----------------------------------------------------------------------------
LockStep(t) == EnqueueMany(t) \/ Dequeue(t)
EventSignalStep(t) == Fire(t) \/ Remember(t)

EventNext ==
  \/ \E t \in Signaling :
       \/ \E e \in Event : Signal(t, e) \/ Poll(t, e)
       \/ EventSignalStep(t)
  \/ \E t \in Waiting :
       BeginWait(t) \/ LockStep(t) \/ Wake(t) \/ WaitTimeOut(t)

\* Threads run, and a thread gets a lock that is free again and again.
EventFairness ==
  /\ \A t \in Waiting : SF_eventVars(LockStep(t)) /\ WF_eventVars(Wake(t))
  /\ \A t \in Signaling : WF_eventVars(EventSignalStep(t))

-----------------------------------------------------------------------------
\* The threads that have a signal of e and have not returned with it yet.
Granted(e) ==
  {t \in Waiting :
     /\ waiter[t].event = e
     /\ CallerAt(t, "wait") \/ (CallerAt(t, "dequeue") /\ caller[t].result)}

SignalingNow(e) == {t \in Signaling : CallerAt(t, "signal") /\ First(t) = e}

\* A signal of an event that resets itself is neither lost nor used twice: what
\* was signaled and not used up is the event's state, a thread on its way out
\* of a wait, or a Signal at work; a timeout that races with a signal, a waiter
\* that another event fires first and one left on a list take nothing
\* (SignalOne, Fire, Disable, Dequeue).
SignalsConserved(e) ==
  balance[e] = (IF e \in signaled_ THEN 1 ELSE 0) + Cardinality(Granted(e))
               + Cardinality(SignalingNow(e))

\* In no call, or in a wait for a signal that has not come.
Resting(t) ==
  CallerAt(t, "idle") \/ (CallerAt(t, "wait") /\ ~waiter[t].fired)

\* Every call but a wait for a signal that does not come returns, however the
\* locks of several events are taken (WaitMany's sort by address), and a waiter
\* that was fired returns from its wait; and no signal is lost.
EventsSound ==
  /\ [](\A e \in Event \ ManualReset : SignalsConserved(e))
  /\ \A t \in EventThread : []<>Resting(t)
=============================================================================
