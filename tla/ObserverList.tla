----------------------------- MODULE ObserverList -----------------------------
(***************************************************************************)
(* base/observer_list.h: the list through which a factory and a host reach *)
(* their stubs.  The list and its iterators live on one thread; what makes *)
(* it hard is that an observer's callback may add and remove observers,    *)
(* clear or destroy the list, and start a nested notification of it.       *)
(***************************************************************************)
EXTENDS Selection, SequencesExt, FiniteSetsExt

CONSTANTS
  Observer,
  NULL,      \* a slot whose observer was removed; no callback is running
  MaxSlots,  \* bound: the length of the vector
  MaxDepth   \* bound: nested notifications

ASSUME ListAssumption ==
  /\ NULL \notin Observer
  /\ MaxSlots \in Nat
  /\ MaxDepth \in Nat

VARIABLES
  exists,         \* the list has not been destroyed: weak pointers to it work
  type_,
  observers_,     \* the vector
  notify_depth_,
  iters           \* the iterators on the stack, outermost first

listVars == <<exists, type_, observers_, notify_depth_, iters>>

ListInit ==
  /\ exists = TRUE
  /\ type_ \in {"NOTIFY_ALL", "NOTIFY_EXISTING_ONLY"}
  /\ observers_ = <<>>
  /\ notify_depth_ = 0
  /\ iters = <<>>

Members == Range(observers_) \ {NULL}

\* Client code runs: outside a notification or in an observer's callback.
ClientRuns == IF iters = <<>> THEN TRUE ELSE Last(iters).observer # NULL

Compact(slots) == Erased(slots, NULL)

\* An observer that is in the list already is rejected (NOTREACHED).
AddObserver(o) ==
  /\ ClientRuns /\ exists
  /\ o \notin Members
  /\ Len(observers_) < MaxSlots
  /\ observers_' = Append(observers_, o)
  /\ UNCHANGED <<exists, type_, notify_depth_, iters>>

\* The bug of a removal that does not spare the slots under an iterator.
RemoveErases(o) ==
  /\ ClientRuns /\ exists
  /\ o \in Members
  /\ observers_' = Erased(observers_, o)
  /\ UNCHANGED <<exists, type_, notify_depth_, iters>>

RemoveObserver(o) ==
  /\ ClientRuns /\ exists
  /\ o \in Members
  /\ observers_' = IF notify_depth_ > 0
                   THEN [i \in DOMAIN observers_ |->
                          IF observers_[i] = o THEN NULL ELSE observers_[i]]
                   ELSE Erased(observers_, o)
  /\ UNCHANGED <<exists, type_, notify_depth_, iters>>

Clear ==
  /\ ClientRuns /\ exists
  /\ observers_' = IF notify_depth_ > 0
                   THEN [i \in DOMAIN observers_ |-> NULL]
                   ELSE <<>>
  /\ UNCHANGED <<exists, type_, notify_depth_, iters>>

DestroyList ==
  /\ ClientRuns /\ exists
  /\ exists' = FALSE
  /\ observers_' = <<>>
  /\ notify_depth_' = 0
  /\ UNCHANGED <<type_, iters>>

\* FOR_EACH_OBSERVER of a list that might have observers.
Iterate ==
  /\ ClientRuns /\ exists
  /\ observers_ # <<>>
  /\ Len(iters) < MaxDepth
  /\ notify_depth_' = notify_depth_ + 1
  /\ iters' = Append(iters, [index    |-> 1,
                             max      |-> IF type_ = "NOTIFY_ALL"
                                          THEN MaxSlots ELSE Len(observers_),
                             observer |-> NULL])
  /\ UNCHANGED <<exists, type_, observers_>>

\* The slots an iterator has yet to visit.
Ahead(it) ==
  {i \in DOMAIN observers_ : it.index <= i /\ i <= it.max /\ observers_[i] # NULL}

\* GetNext returns an observer, whose callback runs.
GetNext ==
  /\ iters # <<>>
  /\ exists
  /\ Ahead(Last(iters)) # {}
  /\ LET next == Min(Ahead(Last(iters)))
     IN  iters' = [iters EXCEPT ![Len(iters)] =
                    [index |-> next + 1, max |-> @.max, observer |-> observers_[next]]]
  /\ UNCHANGED <<exists, type_, observers_, notify_depth_>>

\* GetNext returns NULL, and the iterator goes out of scope.
IteratorDone ==
  /\ iters # <<>>
  /\ exists => Ahead(Last(iters)) = {}
  /\ iters' = Front(iters)
  /\ IF exists
     THEN /\ notify_depth_' = notify_depth_ - 1
          /\ observers_' = IF notify_depth_ = 1 THEN Compact(observers_)
                           ELSE observers_
     ELSE UNCHANGED <<notify_depth_, observers_>>
  /\ UNCHANGED <<exists, type_>>

ListNext ==
  \/ \E o \in Observer : AddObserver(o) \/ RemoveObserver(o)
  \/ Clear
  \/ DestroyList
  \/ Iterate
  \/ GetNext
  \/ IteratorDone

ListSpec == ListInit /\ [][ListNext]_listVars

-----------------------------------------------------------------------------
\* The types of the list (observer_list.h:172-176) and its iterators (102-104).
ListTypeOK ==
  /\ exists \in BOOLEAN
  /\ type_ \in {"NOTIFY_ALL", "NOTIFY_EXISTING_ONLY"}
  /\ observers_ \in Seq(Observer \cup {NULL})
  /\ notify_depth_ \in Nat
  /\ iters \in Seq([index : Nat, max : Nat, observer : Observer \cup {NULL}])

\* Empty slots exist only while an iterator may stand behind them, whatever
\* the order in which nested notifications end (observer_list.h:90-93); they
\* would make might_have_observers lie.  No observer is listed twice.
NoHolesWhenQuiet ==
  /\ iters = <<>> => NULL \notin Range(observers_)
  /\ \A i, j \in DOMAIN observers_ :
       observers_[i] = observers_[j] /\ observers_[i] # NULL => i = j

\* The state of the list and its iterators.
ListSound == ListTypeOK /\ NoHolesWhenQuiet

Owed(it) == {observers_[i] : i \in Ahead(it)}

Abstract == INSTANCE ObserverSet
  WITH existing <- type_ = "NOTIFY_EXISTING_ONLY",
       members  <- Members,
       todo     <- [d \in DOMAIN iters |-> Owed(iters[d])]

\* "this container can be modified during iteration without invalidating the
\* iterator" (observer_list.h:18): nobody is skipped or called twice by any of
\* the nested notifications, nobody is called who was removed, and with
\* NOTIFY_EXISTING_ONLY nobody who was added meanwhile; and the list stays sound.
ImplementsObserverSet == Abstract!SetSafety /\ []ListSound
=============================================================================
