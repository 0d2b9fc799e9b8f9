------------------------------- MODULE WeakPtr ---------------------------------
(***************************************************************************)
(* An object with a WeakPtrFactory (base/memory/weak_ptr.h), and the weak  *)
(* pointers to it that threads copy and drop.  The object may itself be a  *)
(* CancelableCallback, whose forwarder is bound to such a pointer.         *)
(***************************************************************************)
EXTENDS Integers, Sequences

CONSTANTS
  PtrThread,    \* the threads
  MaxFlags,     \* bound: flags made
  MaxCallbacks  \* bound: callbacks given to Reset

ASSUME PtrAssumption == MaxFlags \in Nat /\ MaxCallbacks \in Nat

VARIABLES
  cancelable,  \* the object is a CancelableCallback
  owner,       \* the thread that uses the object, "gone" when it is deleted
  flags,       \* the Flags made: the thread of thread_checker_, and is_valid_
  flag_,       \* the flag of the WeakReferenceOwner, 0 is NULL
  returning,   \* GetRef is about to return a reference to the flag it kept
  pointers,    \* the WeakPtrs held, by which thread, and which callback they
               \*   are to forward to; 0 is none
  forwarder_,  \* the flag the CancelableCallback's own WeakPtr refers to
  callback_    \* the callback it wraps

cancelableVars == <<cancelable, forwarder_, callback_>>
ptrVars == <<owner, flags, flag_, returning, pointers, cancelableVars>>

PtrInit ==
  /\ cancelable \in BOOLEAN
  /\ owner \in PtrThread
  /\ flags = <<>>
  /\ flag_ = 0
  /\ returning = FALSE
  /\ pointers = {}
  /\ forwarder_ = 0
  /\ callback_ = 0

\* The object's thread is not inside GetRef.
Usable == owner # "gone" /\ ~returning

\* flag_ && !flag_->HasOneRef().
HasRefs == flag_ # 0 /\ (forwarder_ = flag_ \/ \E p \in pointers : p.flag = flag_)

NewFlag == [thread |-> owner, is_valid |-> TRUE]

\* Invalidate, which leaves flag_ NULL.
Invalidated ==
  IF flag_ = 0 THEN flags ELSE [flags EXCEPT ![flag_].is_valid = FALSE]

-----------------------------------------------------------------------------
(* WeakPtrFactory.                                                          *)

\* The bug of a GetRef that always makes a flag.
GetNewRef ==
  /\ Usable /\ ~cancelable
  /\ Len(flags) < MaxFlags
  /\ flags' = Append(flags, NewFlag)
  /\ flag_' = Len(flags) + 1
  /\ pointers' = pointers \cup {[flag |-> flag_', by |-> owner, calls |-> 0]}
  /\ UNCHANGED <<owner, returning, cancelableVars>>

\* GetRef without references: "reattach to the current thread if all previous
\* references have gone away".
GetFirstRef ==
  /\ Usable /\ ~cancelable /\ ~HasRefs
  /\ Len(flags) < MaxFlags
  /\ flags' = Append(flags, NewFlag)
  /\ flag_' = Len(flags) + 1
  /\ pointers' = pointers \cup {[flag |-> flag_', by |-> owner, calls |-> 0]}
  /\ UNCHANGED <<owner, returning, cancelableVars>>

\* GetRef with references, which may all be dropped before it returns.
GetRef ==
  /\ Usable /\ ~cancelable /\ HasRefs
  /\ returning' = TRUE
  /\ UNCHANGED <<owner, flags, flag_, pointers, cancelableVars>>

GetRefReturns ==
  /\ returning
  /\ returning' = FALSE
  /\ pointers' = pointers \cup {[flag |-> flag_, by |-> owner, calls |-> 0]}
  /\ UNCHANGED <<owner, flags, flag_, cancelableVars>>

InvalidateWeakPtrs ==
  /\ Usable /\ ~cancelable
  /\ flags' = Invalidated
  /\ flag_' = 0
  /\ UNCHANGED <<owner, returning, pointers, cancelableVars>>

\* The destructor of the object: on the thread of its WeakPtrs.
DeleteObject ==
  /\ Usable
  /\ owner' = "gone"
  /\ flags' = Invalidated
  /\ flag_' = 0
  /\ forwarder_' = 0
  /\ callback_' = 0
  /\ UNCHANGED <<cancelable, returning, pointers>>

\* "until all WeakPtrs are deleted": then another thread may use the object.
HandOver ==
  /\ Usable /\ ~cancelable /\ ~HasRefs
  /\ owner' \in PtrThread \ {owner}
  /\ UNCHANGED <<flags, flag_, returning, pointers, cancelableVars>>

-----------------------------------------------------------------------------
(* CancelableCallback.                                                      *)

Cancel ==
  /\ Usable /\ cancelable
  /\ flags' = Invalidated
  /\ flag_' = 0
  /\ forwarder_' = 0
  /\ callback_' = 0
  /\ UNCHANGED <<cancelable, owner, returning, pointers>>

\* Reset cancels, which leaves no flag, binds a new forwarder and then takes the
\* callback.
Reset ==
  /\ Usable /\ cancelable
  /\ Len(flags) < MaxFlags
  /\ flags' = Append(Invalidated, NewFlag)
  /\ flag_' = Len(flags) + 1
  /\ forwarder_' = flag_'
  /\ callback_' \in 1..MaxCallbacks \ {callback_}
  /\ UNCHANGED <<cancelable, owner, returning, pointers>>

\* callback(), as it is passed to PostTask.
CopyForwarder ==
  /\ Usable /\ forwarder_ # 0
  /\ pointers' = pointers \cup {[flag |-> forwarder_, by |-> owner, calls |-> callback_]}
  /\ UNCHANGED <<owner, flags, flag_, returning, cancelableVars>>

-----------------------------------------------------------------------------
(* "WeakPtrs may be copy-constructed or assigned on threads other than the  *)
(* thread they are bound to", and destroyed.                                *)

CopyPointer(t) ==
  /\ \E p \in pointers :
       /\ p.by # t
       /\ pointers' = pointers \cup {[p EXCEPT !.by = t]}
  /\ UNCHANGED <<owner, flags, flag_, returning, cancelableVars>>

DropPointer(t) ==
  /\ \E p \in pointers : p.by = t /\ pointers' = pointers \ {p}
  /\ UNCHANGED <<owner, flags, flag_, returning, cancelableVars>>

PtrNext ==
  \/ GetFirstRef \/ GetRef \/ GetRefReturns
  \/ InvalidateWeakPtrs \/ DeleteObject \/ HandOver
  \/ Cancel \/ Reset \/ CopyForwarder
  \/ \E t \in PtrThread : CopyPointer(t) \/ DropPointer(t)

PtrSpec == PtrInit /\ [][PtrNext]_ptrVars

-----------------------------------------------------------------------------
(* Properties.                                                              *)

\* What IsValid promises the thread a WeakPtr is bound to, however pointers were
\* copied and dropped elsewhere: the object is alive, and no other thread uses it
\* or may delete it.
ValidIsSafe ==
  \A p \in pointers :
    flags[p.flag].is_valid => p.flag = flag_ /\ owner = flags[p.flag].thread

\* The DCHECK of Flag::Invalidate (weak_ptr.cc:16): called on the thread of the
\* flag, or "there are no weak pointers in existence".
InvalidateOnItsThread == HasRefs => owner = flags[flag_].thread

\* "Outstanding and any previously wrapped callbacks are cancelled"
\* (cancelable_callback.h:97): a copy of the forwarder that still runs something
\* runs the callback it was made for, and not NULL.
ForwardsToItsCallback ==
  \A p \in pointers :
    (flags[p.flag].is_valid /\ p.calls # 0) => callback_ = p.calls

PtrSound == ValidIsSafe /\ InvalidateOnItsThread /\ ForwardsToItsCallback
=============================================================================
