------------------------------ MODULE MCLibrary -------------------------------
(* Parts of the library that are checked for safety, one at a time.          *)
(* What the initial state picks as part takes steps, the others do not.      *)
EXTENDS SequencedWorkerPool, PostTaskAndReply, WaitableEventWatcher,
        ObserverListThreadSafe, ObserverList, WinMessagePump, WeakPtr, WinTicks,
        TimerLease, WinThreadLocal

VARIABLE part

AnyOwner == CHOOSE t \in PtrThread : TRUE

\* A part with several initial states has one of them while another is picked.
Init ==
  /\ part \in {"pool", "relays", "watchers", "shared list", "list", "ui pump",
              "weak pointers", "ticks", "lease", "thread local"}
  /\ PoolInit
  /\ RelayInit
  /\ WatchInit
  /\ SharedInit
  /\ ListInit /\ (part = "list" \/ type_ = "NOTIFY_ALL")
  /\ UIInit
  /\ PtrInit /\ (part = "weak pointers" \/ (~cancelable /\ owner = AnyOwner))
  /\ TicksInit /\ (part = "ticks" \/ boot = 0)
  /\ LeaseInit /\ (part = "lease" \/ enabled)
  /\ TlsInit

\* Bound: the last task is posted when one client at most has the pool.
LastTaskAlone == Cardinality(holder) > 1 => Len(tasks') < MaxTasks

Next ==
  /\ part' = part
  /\ \/ /\ part = "pool" /\ PoolNext /\ LastTaskAlone
        /\ UNCHANGED <<relayVars, watchVars, sharedVars, listVars, uiVars,
                       ptrVars, ticksVars, leaseVars, tlsVars>>
     \/ /\ part = "relays" /\ RelayNext
        /\ UNCHANGED <<poolVars, watchVars, sharedVars, listVars, uiVars,
                       ptrVars, ticksVars, leaseVars, tlsVars>>
     \/ /\ part = "watchers" /\ WatchNext
        /\ UNCHANGED <<poolVars, relayVars, sharedVars, listVars, uiVars,
                       ptrVars, ticksVars, leaseVars, tlsVars>>
     \/ /\ part = "shared list" /\ SharedNext
        /\ UNCHANGED <<poolVars, relayVars, watchVars, listVars, uiVars,
                       ptrVars, ticksVars, leaseVars, tlsVars>>
     \/ /\ part = "list" /\ ListNext
        /\ UNCHANGED <<poolVars, relayVars, watchVars, sharedVars, uiVars,
                       ptrVars, ticksVars, leaseVars, tlsVars>>
     \/ /\ part = "ui pump" /\ UINext
        /\ UNCHANGED <<poolVars, relayVars, watchVars, sharedVars, listVars,
                       ptrVars, ticksVars, leaseVars, tlsVars>>
     \/ /\ part = "weak pointers" /\ PtrNext
        /\ UNCHANGED <<poolVars, relayVars, watchVars, sharedVars, listVars,
                       uiVars, ticksVars, leaseVars, tlsVars>>
     \/ /\ part = "ticks" /\ TicksNext
        /\ UNCHANGED <<poolVars, relayVars, watchVars, sharedVars, listVars,
                       uiVars, ptrVars, leaseVars, tlsVars>>
     \/ /\ part = "lease" /\ LeaseNext
        /\ UNCHANGED <<poolVars, relayVars, watchVars, sharedVars, listVars,
                       uiVars, ptrVars, ticksVars, tlsVars>>
     \/ /\ part = "thread local" /\ TlsNext
        /\ UNCHANGED <<poolVars, relayVars, watchVars, sharedVars, listVars,
                       uiVars, ptrVars, ticksVars, leaseVars>>

vars == <<part, poolVars, relayVars, watchVars, sharedVars, listVars,
          uiVars, ptrVars, ticksVars, leaseVars, tlsVars>>

Spec == Init /\ [][Next]_vars
=============================================================================
