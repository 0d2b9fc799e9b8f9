------------------------------ MODULE MCFactory ------------------------------
(***************************************************************************)
(* Model-checking instance of Factory: the bounds come from the cfg files. *)
(***************************************************************************)
EXTENDS Factory
=============================================================================
