------------------------------- MODULE MCClocks -------------------------------
(* The parts that work against a clock, checked one at a time: a message     *)
(* loop with its delayed tasks, and a FreqFactoryHost on the timed factory.  *)
(* What the initial state picks as part takes steps, the other does not.     *)
EXTENDS MessageLoop, FreqFactoryHost, TLC

VARIABLE part

Symmetric == Permutations(Poster)

Init ==
  /\ part \in {"loop", "host"}
  /\ LoopInit
  /\ FreqInit

Next ==
  /\ part' = part
  /\ \/ part = "loop" /\ LoopNext /\ UNCHANGED freqVars
     \/ part = "host" /\ FreqNext /\ UNCHANGED loopVars

vars == <<part, loopVars, freqVars>>

Spec == Init /\ [][Next]_vars
=============================================================================
