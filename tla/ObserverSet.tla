----------------------------- MODULE ObserverSet ------------------------------
(***************************************************************************)
(* What an observer list promises (base/observer_list.h): a set of         *)
(* observers that can change while any number of nested notifications of   *)
(* it are under way.  A notification reaches each observer it owes a call  *)
(* once, and never one that was removed.                                   *)
(***************************************************************************)
EXTENDS Sequences, SequencesExt

CONSTANTS Observer

VARIABLES
  exists,    \* the list has not been destroyed
  existing,  \* notifications owe nothing to the observers added meanwhile
  members,   \* the registered observers
  todo       \* of each open notification, outermost first: whom it owes a call

setVars == <<exists, existing, members, todo>>

SetInit ==
  /\ exists = TRUE
  /\ existing \in BOOLEAN
  /\ members = {}
  /\ todo = <<>>

Join(o) ==
  /\ exists
  /\ o \notin members
  /\ members' = members \cup {o}
  /\ todo' = IF existing THEN todo ELSE [d \in DOMAIN todo |-> todo[d] \cup {o}]
  /\ UNCHANGED <<exists, existing>>

Leave(gone) ==
  /\ exists
  /\ members' = members \ gone
  /\ todo' = [d \in DOMAIN todo |-> todo[d] \ gone]
  /\ UNCHANGED <<exists, existing>>

Begin ==
  /\ exists
  /\ todo' = Append(todo, members)
  /\ UNCHANGED <<exists, existing, members>>

Notify(o) ==
  /\ todo # <<>>
  /\ o \in Last(todo)
  /\ todo' = [todo EXCEPT ![Len(todo)] = @ \ {o}]
  /\ UNCHANGED <<exists, existing, members>>

End ==
  /\ todo # <<>>
  /\ Last(todo) = {}
  /\ todo' = Front(todo)
  /\ UNCHANGED <<exists, existing, members>>

Destroy ==
  /\ exists
  /\ exists' = FALSE
  /\ members' = {}
  /\ todo' = [d \in DOMAIN todo |-> {}]
  /\ UNCHANGED existing

SetNext ==
  \/ \E o \in Observer : Join(o) \/ Notify(o)
  \/ \E gone \in SUBSET Observer : Leave(gone)
  \/ Begin
  \/ End
  \/ Destroy

SetSafety == SetInit /\ [][SetNext]_setVars
=============================================================================
