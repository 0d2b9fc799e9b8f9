------------------------------- MODULE MCThreads -------------------------------
(* Parts of the library in which threads wait for one another, checked for   *)
(* liveness too, one at a time: the pool, the relays, what is made on first  *)
(* use and destroyed at exit, the dynamic pool, a thread with a loop, the    *)
(* factory that posts to its own thread, and watchdogs.                      *)
(* What the initial state picks as part takes steps, the others do not.      *)
EXTENDS SequencedWorkerPool, PostTaskAndReply, AtExit, PosixDynamicThreadPool,
        BaseThread, Factory, Watchdog

VARIABLE part

\* Instances are numbered, and one uses all those before it.
Before(i) == {j \in Instance : j < i}

Init ==
  /\ part \in {"pool", "relays", "at exit", "dynamic pool", "thread", "factory",
              "watchdogs"}
  /\ PoolInit
  /\ RelayInit
  /\ ExitInit
  /\ DynamicInit
  /\ ThreadInit
  /\ FactoryInit
  /\ WatchdogInit

Next ==
  /\ part' = part
  /\ \/ /\ part = "pool" /\ PoolNext
        /\ UNCHANGED <<relayVars, exitVars, dynamicVars, threadVars, factoryVars,
                       dogVars>>
     \/ /\ part = "relays" /\ RelayNext
        /\ UNCHANGED <<poolVars, exitVars, dynamicVars, threadVars, factoryVars,
                       dogVars>>
     \/ /\ part = "at exit" /\ ExitNext
        /\ UNCHANGED <<poolVars, relayVars, dynamicVars, threadVars, factoryVars,
                       dogVars>>
     \/ /\ part = "dynamic pool" /\ DynamicNext
        /\ UNCHANGED <<poolVars, relayVars, exitVars, threadVars, factoryVars,
                       dogVars>>
     \/ /\ part = "thread" /\ ThreadNext
        /\ UNCHANGED <<poolVars, relayVars, exitVars, dynamicVars, factoryVars,
                       dogVars>>
     \/ /\ part = "factory" /\ FactoryNext
        /\ UNCHANGED <<poolVars, relayVars, exitVars, dynamicVars, threadVars,
                       dogVars>>
     \/ /\ part = "watchdogs" /\ WatchdogNext
        /\ UNCHANGED <<poolVars, relayVars, exitVars, dynamicVars, threadVars,
                       factoryVars>>

vars == <<part, poolVars, relayVars, exitVars, dynamicVars, threadVars,
          factoryVars, dogVars>>

\* What is fair in one part has nothing to do in the initial state of the
\* others.
Fairness ==
  /\ PoolFairness /\ RelayFairness /\ ExitFairness /\ DynamicFairness
  /\ ThreadFairness /\ FactoryFairness /\ WatchdogFairness

Spec == Init /\ [][Next]_vars /\ Fairness
=============================================================================
