-------------------------------- MODULE AtExit --------------------------------
(***************************************************************************)
(* Objects made on first use, by whichever thread comes first (Singleton,  *)
(* singleton.h; LazyInstance, lazy_instance.h and .cc), and destroyed at   *)
(* exit by the callbacks they registered (at_exit.cc).  The constructor    *)
(* and the destructor of one may use others.                               *)
(***************************************************************************)
EXTENDS Integers, Sequences, SequencesExt, FiniteSets

CONSTANTS
  UserThread, MainThread,
  Instance,
  Uses(_)   \* the instances that one gets in its constructor and destructor

ASSUME AtExitAssumption ==
  /\ MainThread \in UserThread
  /\ \A i \in Instance : Uses(i) \subseteq Instance

VARIABLES
  instance_,   \* per instance "none", "creating" or "created"
  getting,     \* per thread its calls of get, the innermost last: where one is,
               \* its instance, and the ones still to be got
  stack_,      \* the callbacks of the AtExitManager
  exit_,       \* "no", "running" with the manager's lock held, or "done"
  inverted     \* history: an instance was registered before one that it uses

exitVars == <<instance_, getting, stack_, exit_, inverted>>

ExitInit ==
  /\ instance_ = [i \in Instance |-> "none"]
  /\ getting = [t \in UserThread |-> <<>>]
  /\ stack_ = <<>>
  /\ exit_ = "no"
  /\ inverted = FALSE

Look(i) == [at |-> "look", of |-> i, uses |-> {}]
GetAt(t, at) == getting[t] # <<>> /\ Last(getting[t]).at = at
This(t) == Last(getting[t]).of
ReplaceLast(t, calls) == getting' = [getting EXCEPT ![t] = Front(@) \o calls]
Goes(t, at, uses) ==
  ReplaceLast(t, <<[at |-> at, of |-> This(t), uses |-> uses]>>)

-----------------------------------------------------------------------------
(* Singleton::get and LazyInstance::Pointer.                                *)

Get(t, i) ==
  /\ exit_ = "no"
  /\ getting[t] = <<>>
  /\ getting' = [getting EXCEPT ![t] = <<Look(i)>>]
  /\ UNCHANGED <<instance_, stack_, exit_, inverted>>

\* The bug of a get that does not wait for another thread's constructor.
FoundUnfinished(t) == instance_[This(t)] # "none"

\* A thread that sees the instance made has it, and one that does not and wins
\* the compare-and-swap makes it; one that loses spins, which is no step.
FoundInstance(t) == instance_[This(t)] = "created"

LookAtInstance(t) ==
  /\ GetAt(t, "look")
  /\ \/ /\ FoundInstance(t)
        /\ ReplaceLast(t, <<>>)
        /\ UNCHANGED instance_
     \/ /\ instance_[This(t)] = "none"
        /\ instance_' = [instance_ EXCEPT ![This(t)] = "creating"]
        /\ Goes(t, "construct", Uses(This(t)))
  /\ UNCHANGED <<stack_, exit_, inverted>>

\* The constructor, or destructor, gets the next instance it uses.
GetUsed(t) ==
  /\ GetAt(t, "construct") \/ GetAt(t, "destroy")
  /\ \E i \in Last(getting[t]).uses :
       ReplaceLast(t, <<[Last(getting[t]) EXCEPT !.uses = @ \ {i}], Look(i)>>)
  /\ UNCHANGED <<instance_, stack_, exit_, inverted>>

\* The pointer is stored, and only then is the destructor registered.
Publish(t) ==
  /\ GetAt(t, "construct") /\ Last(getting[t]).uses = {}
  /\ instance_' = [instance_ EXCEPT ![This(t)] = "created"]
  /\ Goes(t, "register", {})
  /\ UNCHANGED <<stack_, exit_, inverted>>

\* RegisterCallback needs the lock, which ProcessCallbacksNow holds.
RegisterCallback(t) ==
  /\ GetAt(t, "register")
  /\ exit_ # "running"
  /\ stack_' = Append(stack_, This(t))
  /\ inverted' = (inverted \/ \E i \in Range(stack_) : This(t) \in Uses(i))
  /\ ReplaceLast(t, <<>>)
  /\ UNCHANGED <<instance_, exit_>>

-----------------------------------------------------------------------------
(* ~AtExitManager, when the other threads have stopped using the instances. *)

BeginExit ==
  /\ exit_ = "no"
  /\ \A t \in UserThread : getting[t] = <<>>
  /\ exit_' = "running"
  /\ UNCHANGED <<instance_, getting, stack_, inverted>>

\* OnExit of the callback on top of the stack.
RunCallback ==
  /\ exit_ = "running"
  /\ getting[MainThread] = <<>> /\ stack_ # <<>>
  /\ getting' = [getting EXCEPT ![MainThread] =
       <<[at |-> "destroy", of |-> Last(stack_), uses |-> Uses(Last(stack_))]>>]
  /\ UNCHANGED <<instance_, stack_, exit_, inverted>>

Delete ==
  /\ GetAt(MainThread, "destroy") /\ Last(getting[MainThread]).uses = {}
  /\ instance_' = [instance_ EXCEPT ![This(MainThread)] = "none"]
  /\ stack_' = Front(stack_)
  /\ ReplaceLast(MainThread, <<>>)
  /\ UNCHANGED <<exit_, inverted>>

ExitReturns ==
  /\ exit_ = "running"
  /\ getting[MainThread] = <<>> /\ stack_ = <<>>
  /\ exit_' = "done"
  /\ UNCHANGED <<instance_, getting, stack_, inverted>>

UserStep(t) ==
  LookAtInstance(t) \/ GetUsed(t) \/ Publish(t) \/ RegisterCallback(t)

ExitStep == RunCallback \/ Delete \/ ExitReturns

ExitNext ==
  \/ \E t \in UserThread :
       (\E i \in Instance : Get(t, i)) \/ UserStep(t)
  \/ BeginExit
  \/ ExitStep

ExitSpec == ExitInit /\ [][ExitNext]_exitVars

ExitFairness ==
  (\A t \in UserThread : WF_exitVars(UserStep(t))) /\ WF_exitVars(ExitStep)

-----------------------------------------------------------------------------
(* Properties.                                                              *)

\* Before the exit, what an instance uses was made before it.
MadeBeforeUse ==
  exit_ = "no" =>
    \A i \in Instance : instance_[i] = "created" =>
      \A u \in Uses(i) : instance_[u] = "created"

\* Every instance is destroyed at exit, once, or about to be registered for that.
DestroyedOnce ==
  /\ IsInjective(stack_)
  /\ exit_ = "done" => \A i \in Instance : instance_[i] = "none"

\* What of it a state can break.
InstancesSafe == MadeBeforeUse /\ DestroyedOnce

\* Every get returns, and the exit ends, with all instances destroyed, except
\* when an instance was registered before one that it uses, which another thread
\* had published and not registered yet: then its destructor makes that one
\* again and waits for the lock that its own thread holds.
InstancesSound ==
  /\ [](MadeBeforeUse /\ DestroyedOnce)
  /\ \A t \in UserThread :
       []<>(exit_ = "no" => getting[t] = <<>>)
  /\ []<>(exit_ = "running" => inverted)
=============================================================================
