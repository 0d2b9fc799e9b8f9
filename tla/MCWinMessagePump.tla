--------------------------- MODULE MCWinMessagePump ----------------------------
(* Model-checking instance of WinMessagePump. *)
EXTENDS WinMessagePump
=============================================================================
