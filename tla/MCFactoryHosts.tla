---------------------------- MODULE MCFactoryHosts ----------------------------
(***************************************************************************)
(* Model-checking instances of FactoryHosts: who runs on which thread.     *)
(***************************************************************************)
EXTENDS FactoryHosts, TLC

CONSTANTS h1, h2, main, fthread

Nobody == {}
Hosts1 == {h1}
Hosts2 == {h1, h2}

\* One plain and one FreqFactoryHost.
SecondHost == {h2}

Threads2 == {main, fthread}

\* The host on the main thread, as in main.cc.
OneOnMain == h1 :> main

\* One host shares the factory's thread.
OneOnFactoryThread == h1 :> main @@ h2 :> fthread
=============================================================================
