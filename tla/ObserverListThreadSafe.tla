------------------------ MODULE ObserverListThreadSafe ------------------------
(***************************************************************************)
(* The observers of several threads (observer_list_threadsafe.h).  Each    *)
(* thread has a context with its observers, found in a map under a lock;   *)
(* Notify posts a NotifyWrapper to the loop of every context.  Contexts    *)
(* are deleted when they are empty, and their addresses are used again.    *)
(* The list of a context notifies all (ObserverList models the other kind). *)
(***************************************************************************)
EXTENDS Selection, SequencesExt

CONSTANTS
  ListThread, SharedObserver,
  ContextAddress,
  NoContext,
  Hole,          \* the NULL of an observer removed during an iteration
  MaxWrappers,   \* bound: tasks posted to a loop, and nested ones in progress
  MaxList        \* bound: the length of a list, with its holes

ASSUME SharedListAssumption ==
  /\ NoContext \notin ContextAddress
  /\ Hole \notin SharedObserver
  /\ MaxWrappers \in Nat
  /\ MaxList \in Nat \ {0}

VARIABLES
  observer_lists_,  \* the map: per thread its context
  context,          \* per address that is in use the list of a context
  wrappers,         \* per thread the NotifyWrapper tasks in its loop
  notifying,        \* per thread those that run, a nested one last: the
                    \* context and the index of the iterator
  removing,         \* per thread the RemoveObserver calls past the lock: one
                    \* or none, each a context and an observer
  registered        \* history: per thread the observers added and not removed

sharedVars == <<observer_lists_, context, wrappers, notifying, removing, registered>>

SharedInit ==
  /\ observer_lists_ = [t \in ListThread |-> NoContext]
  /\ context = [c \in {} |-> <<>>]
  /\ wrappers = [t \in ListThread |-> <<>>]
  /\ notifying = [t \in ListThread |-> <<>>]
  /\ removing = [t \in ListThread |-> {}]
  /\ registered = [t \in ListThread |-> {}]

Live == DOMAIN context
Freed(c) == [a \in Live \ {c} |-> context[a]]
WithList(c, list) == [a \in Live \cup {c} |-> IF a = c THEN list ELSE context[a]]
Iterating(t, c) == \E i \in DOMAIN notifying[t] : notifying[t][i].context = c

\* The list of c after o left it: a hole remains while c is iterated over.
Without(t, c, o) ==
  IF Iterating(t, c) THEN [i \in DOMAIN context[c] |->
                             IF context[c][i] = o THEN Hole ELSE context[c][i]]
  ELSE Erased(context[c], o)

-----------------------------------------------------------------------------
(* What a thread calls, between its tasks or in a notification.             *)

AddSharedObserver(t, o) ==
  /\ removing[t] = {}
  /\ \A u \in ListThread : o \notin registered[u]
  /\ \/ /\ observer_lists_[t] # NoContext
        /\ Len(context[observer_lists_[t]]) < MaxList
        /\ context' = WithList(observer_lists_[t],
                               Append(context[observer_lists_[t]], o))
        /\ UNCHANGED observer_lists_
     \/ /\ observer_lists_[t] = NoContext
        /\ \E c \in ContextAddress \ Live :
             /\ observer_lists_' = [observer_lists_ EXCEPT ![t] = c]
             /\ context' = WithList(c, <<o>>)
  /\ registered' = [registered EXCEPT ![t] = @ \cup {o}]
  /\ UNCHANGED <<wrappers, notifying, removing>>

\* Under the lock: the context leaves the map if the list will be empty.
RemoveSharedObserver(t, o) ==
  /\ removing[t] = {}
  /\ observer_lists_[t] # NoContext
  /\ LET c == observer_lists_[t]
     IN  /\ observer_lists_' = IF o \in Range(context[c]) /\ Len(context[c]) = 1
                               THEN [observer_lists_ EXCEPT ![t] = NoContext]
                               ELSE observer_lists_
         /\ removing' = [removing EXCEPT ![t] = {[context |-> c, observer |-> o]}]
  /\ UNCHANGED <<context, wrappers, notifying, registered>>

\* And after it: the context is deleted here unless a notification will do so.
FinishRemoving(t) ==
  /\ \E r \in removing[t] :
       LET list == Without(t, r.context, r.observer)
       IN  /\ context' = IF list = <<>> THEN Freed(r.context)
                         ELSE WithList(r.context, list)
           /\ registered' = [registered EXCEPT ![t] = @ \ {r.observer}]
  /\ removing' = [removing EXCEPT ![t] = {}]
  /\ UNCHANGED <<observer_lists_, wrappers, notifying>>

\* Any thread notifies.
Notify ==
  /\ \A t \in ListThread : Len(wrappers[t]) < MaxWrappers
  /\ wrappers' = [t \in ListThread |->
       IF observer_lists_[t] = NoContext THEN wrappers[t]
       ELSE Append(wrappers[t], observer_lists_[t])]
  /\ UNCHANGED <<observer_lists_, context, notifying, removing, registered>>

-----------------------------------------------------------------------------
(* NotifyWrapper, which a nested loop may run within a notification.        *)

\* The bug of a wrapper that trusts the context it was posted with.
BeginTrusting(t) ==
  /\ removing[t] = {}
  /\ wrappers[t] # <<>> /\ Len(notifying[t]) < MaxWrappers
  /\ wrappers' = [wrappers EXCEPT ![t] = Tail(@)]
  /\ notifying' = [notifying EXCEPT ![t] =
                     Append(@, [context |-> Head(wrappers[t]), index |-> 0])]
  /\ UNCHANGED <<observer_lists_, context, removing, registered>>

BeginWrapper(t) ==
  /\ removing[t] = {}
  /\ wrappers[t] # <<>> /\ Len(notifying[t]) < MaxWrappers
  /\ wrappers' = [wrappers EXCEPT ![t] = Tail(@)]
  /\ notifying' = IF observer_lists_[t] # Head(wrappers[t]) THEN notifying
                  ELSE [notifying EXCEPT ![t] =
                          Append(@, [context |-> Head(wrappers[t]), index |-> 0])]
  /\ UNCHANGED <<observer_lists_, context, removing, registered>>

Innermost(t) == Last(notifying[t])
AheadOf(t) ==
  {i \in DOMAIN context[Innermost(t).context] :
     i > Innermost(t).index /\ context[Innermost(t).context][i] # Hole}

\* The iterator's GetNext, and the observer's method: what it does are steps of
\* the thread before the next of these.
NotifyNext(t) ==
  /\ removing[t] = {} /\ notifying[t] # <<>>
  /\ AheadOf(t) # {}
  /\ LET next == CHOOSE i \in AheadOf(t) : \A j \in AheadOf(t) : i <= j
     IN  notifying' = [notifying EXCEPT ![t][Len(notifying[t])].index = next]
  /\ UNCHANGED <<observer_lists_, context, wrappers, removing, registered>>

\* The iteration ends; the outermost one of a context closes the holes, and
\* deletes the context if it is empty then.
EndWrapper(t) ==
  /\ removing[t] = {} /\ notifying[t] # <<>>
  /\ AheadOf(t) = {}
  /\ LET c     == Innermost(t).context
         outer == Front(notifying[t])
         list  == IF \E i \in DOMAIN outer : outer[i].context = c THEN context[c]
                  ELSE Erased(context[c], Hole)
     IN  /\ notifying' = [notifying EXCEPT ![t] = outer]
         /\ context' = IF list = <<>> THEN Freed(c) ELSE WithList(c, list)
         /\ observer_lists_' = IF list = <<>> /\ observer_lists_[t] = c
                               THEN [observer_lists_ EXCEPT ![t] = NoContext]
                               ELSE observer_lists_
  /\ UNCHANGED <<wrappers, removing, registered>>

SharedNext ==
  \/ Notify
  \/ \E t \in ListThread :
       \/ \E o \in SharedObserver : AddSharedObserver(t, o) \/ RemoveSharedObserver(t, o)
       \/ FinishRemoving(t)
       \/ BeginWrapper(t) \/ NotifyNext(t) \/ EndWrapper(t)

SharedSpec == SharedInit /\ [][SharedNext]_sharedVars

-----------------------------------------------------------------------------
(* Properties.                                                              *)

InUse(t) ==
  {notifying[t][i].context : i \in DOMAIN notifying[t]}
    \cup {r.context : r \in removing[t]}

\* A context is used only while it exists, and one that exists is in the map or
\* in the hands of the thread that will delete it: tasks that still name a
\* context whose address is free, or another's, do no harm.
ContextsOwned ==
  Live = (Range(observer_lists_) \ {NoContext}) \cup UNION {InUse(t) : t \in ListThread}

\* An observer that was added and not removed is on the list that a Notify of
\* now reaches, once, and on no other: it is neither notified after its
\* RemoveObserver nor lost with a context that was emptied, in a notification,
\* nested or not, or outside.
ObserversAreReached ==
  \A o \in SharedObserver :
    LET places == {p \in Live \X (1..MaxList) :
                     p[2] <= Len(context[p[1]]) /\ context[p[1]][p[2]] = o}
        mine   == {t \in ListThread : o \in registered[t]}
    IN  /\ Cardinality(places) = Cardinality(mine)
        /\ \A t \in mine : (removing[t] = {}) =>
             \E p \in places : p[1] = observer_lists_[t]

SharedListSound == ContextsOwned /\ ObserversAreReached
=============================================================================
