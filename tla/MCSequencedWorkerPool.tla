------------------------- MODULE MCSequencedWorkerPool -------------------------
(* Model values for the clients and names; everything else is a constant of  *)
(* the configurations.                                                       *)
EXTENDS SequencedWorkerPool, TLC
=============================================================================
