------------------------- MODULE WaitableEventWatcher -------------------------
(***************************************************************************)
(* The POSIX watchers of events (waitable_event_watcher_posix.cc).  One    *)
(* thread with a message loop starts and stops watches; other threads      *)
(* signal the events, whose kernels hold AsyncWaiters.  A fired waiter is  *)
(* deleted, and its address may be used again: Compare tells two waiters   *)
(* apart by the flag of their watch.                                       *)
(***************************************************************************)
EXTENDS Integers, Sequences, SequencesExt, FiniteSets

CONSTANTS
  Watcher,
  Watched,     \* the events
  SelfReset,   \* the events that are not manual_reset_
  Address,     \* where an AsyncWaiter may be allocated
  MaxWatches,  \* bound: flags created
  NoKernel

ASSUME WatcherAssumption ==
  SelfReset \subseteq Watched /\ NoKernel \notin Watched /\ MaxWatches \in Nat

VARIABLES
  set_events,   \* the events that are signaled
  async_,       \* per event, its AsyncWaiters: an address and a flag
  watch,        \* per watcher its members; on_loop is message_loop_ # NULL
  flags_created,
  flags_set,
  callbacks,    \* the AsyncCallbackHelper tasks of the loop, by flag
  watch_loop,   \* "running", "dying" or "dead"
  delegated     \* history: the watches whose delegate was called, in order

watchVars == <<set_events, async_, watch, flags_created, flags_set, callbacks,
               watch_loop, delegated>>

NoFlag == 0

WatchInit ==
  /\ set_events = {}
  /\ async_ = [e \in Watched |-> <<>>]
  /\ watch = [w \in Watcher |->
       [flag |-> NoFlag, on_loop |-> FALSE, kernel |-> NoKernel, waiter |-> NoKernel]]
  /\ flags_created = 0
  /\ flags_set = {}
  /\ callbacks = <<>>
  /\ watch_loop = "running"
  /\ delegated = <<>>

Allocated == {x.address : x \in UNION {Range(async_[e]) : e \in Watched}}

-----------------------------------------------------------------------------
(* The loop's thread.                                                       *)

\* No watch is in progress; the last one may not have been noticed to be over.
StartWatching(w, e) ==
  /\ watch_loop = "running"
  /\ watch[w].flag \in {NoFlag} \cup flags_set
  /\ flags_created < MaxWatches
  /\ LET flag == flags_created + 1
     IN  /\ flags_created' = flag
         /\ \/ /\ e \in set_events
               /\ set_events' = set_events \ ({e} \cap SelfReset)
               /\ callbacks' = Append(callbacks, flag)
               /\ watch' = [watch EXCEPT ![w].flag = flag, ![w].on_loop = FALSE]
               /\ UNCHANGED async_
            \/ /\ e \notin set_events
               /\ \E a \in Address \ Allocated :
                    /\ async_' = [async_ EXCEPT ![e] =
                                    Append(@, [address |-> a, flag |-> flag])]
                    /\ watch' = [watch EXCEPT ![w] =
                         [flag |-> flag, on_loop |-> TRUE, kernel |-> e, waiter |-> a]]
               /\ UNCHANGED <<set_events, callbacks>>
  /\ UNCHANGED <<flags_set, watch_loop, delegated>>

\* The bug of a Dequeue that compares addresses only.
HasAddressOf(x, w) == x.address = watch[w].waiter

\* Dequeue's match: the waiter's address, and Compare of its flag.
IsWaiterOf(x, w) == x.address = watch[w].waiter /\ x.flag = watch[w].flag

\* What StopWatching does, which a kernel left from an earlier watch may make
\* look for its waiter in vain.
Stop(w) ==
  LET k      == watch[w].kernel
      over   == watch[w].flag \in {NoFlag} \cup flags_set
      queued == k # NoKernel /\ \E x \in Range(async_[k]) : IsWaiterOf(x, w)
  IN  /\ watch' = [watch EXCEPT ![w].flag = NoFlag, ![w].on_loop = FALSE]
      /\ async_' = IF ~over /\ queued
                   THEN [async_ EXCEPT ![k] =
                           SelectSeq(@, LAMBDA x : ~IsWaiterOf(x, w))]
                   ELSE async_
      /\ flags_set' = IF over \/ queued THEN flags_set
                      ELSE flags_set \cup {watch[w].flag}
      /\ UNCHANGED <<set_events, flags_created, callbacks, delegated>>

\* StopWatching, and ~WaitableEventWatcher.
StopWatching(w) ==
  /\ Stop(w)
  /\ UNCHANGED watch_loop

\* The loop runs a callback, which calls the delegate unless the flag is set.
AsyncCallbackHelper ==
  /\ watch_loop = "running"
  /\ callbacks # <<>>
  /\ callbacks' = Tail(callbacks)
  /\ flags_set' = flags_set \cup {Head(callbacks)}
  /\ delegated' = IF Head(callbacks) \in flags_set THEN delegated
                  ELSE Append(delegated, Head(callbacks))
  /\ UNCHANGED <<set_events, async_, watch, flags_created, watch_loop>>

\* The loop is destroyed: its tasks, then its observers one after the other.
DestroyWatchLoop ==
  /\ watch_loop = "running"
  /\ watch_loop' = "dying"
  /\ callbacks' = <<>>
  /\ UNCHANGED <<set_events, async_, watch, flags_created, flags_set, delegated>>

WillDestroyCurrentMessageLoop(w) ==
  /\ watch_loop = "dying"
  /\ watch[w].on_loop
  /\ StopWatching(w)

WatchLoopDies ==
  /\ watch_loop = "dying"
  /\ \A w \in Watcher : ~watch[w].on_loop
  /\ watch_loop' = "dead"
  /\ UNCHANGED <<set_events, async_, watch, flags_created, flags_set, callbacks,
                 delegated>>

-----------------------------------------------------------------------------
(* Other threads, under the kernel's lock.  Fire posts the callback unless  *)
(* the flag is set; the waiter is gone from the list either way.            *)

Unset(waiters) == SelectSeq(waiters, LAMBDA x : x.flag \notin flags_set)
Posted(waiters) == [i \in DOMAIN Unset(waiters) |-> Unset(waiters)[i].flag]

SignalWatched(e) ==
  /\ e \notin set_events
  /\ LET fired == IF e \in SelfReset /\ async_[e] # <<>> THEN <<Head(async_[e])>>
                  ELSE async_[e]
     IN  /\ callbacks' = callbacks \o Posted(fired)
         /\ async_' = [async_ EXCEPT ![e] = SubSeq(@, Len(fired) + 1, Len(@))]
         /\ set_events' = IF e \in SelfReset /\ fired # <<>> THEN set_events
                          ELSE set_events \cup {e}
  /\ UNCHANGED <<watch, flags_created, flags_set, watch_loop, delegated>>

ResetWatched(e) ==
  /\ e \in set_events
  /\ set_events' = set_events \ {e}
  /\ UNCHANGED <<async_, watch, flags_created, flags_set, callbacks, watch_loop,
                 delegated>>

WatchNext ==
  \/ \E w \in Watcher :
       \/ \E e \in Watched : StartWatching(w, e)
       \/ StopWatching(w)
       \/ WillDestroyCurrentMessageLoop(w)
  \/ AsyncCallbackHelper
  \/ DestroyWatchLoop
  \/ WatchLoopDies
  \/ \E e \in Watched : SignalWatched(e) \/ ResetWatched(e)

-----------------------------------------------------------------------------
(* Properties.                                                              *)

\* The watches that were started and not stopped, and wait for their delegate.
Pending == {watch[w].flag : w \in Watcher} \ ({NoFlag} \cup flags_set)

\* A watch in progress is either on the list of an event or in the loop's queue,
\* once: neither a stale kernel nor an address that is used again makes one
\* watch end another, so the signal reaches its delegate.
WatchesAreHeld ==
  watch_loop = "running" =>
    \A f \in Pending :
      LET waiting == {x \in UNION {Range(async_[e]) : e \in Watched} : x.flag = f}
          queued  == {i \in DOMAIN callbacks : callbacks[i] = f}
      IN  Cardinality(waiting) + Cardinality(queued) = 1

\* A loop that is gone is not posted to: no waiter is left to do that.
NoWaiterOutlivesLoop == watch_loop = "dead" => Allocated = {}

\* The delegate is called for a watch that was not stopped, once, although the
\* signal that leads to the call races with StopWatching.
DelegateIsWanted ==
  [][\A f \in Range(delegated') \ Range(delegated) : f \in Pending]_watchVars

\* What a user of the watchers relies on.
WatchesSound ==
  /\ [](WatchesAreHeld /\ NoWaiterOutlivesLoop /\ IsInjective(delegated))
  /\ DelegateIsWanted
=============================================================================
