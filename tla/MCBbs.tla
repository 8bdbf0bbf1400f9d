------------------------------- MODULE MCBbs -------------------------------
(* One board, three requests, two bridge handlers, one external message,
   two restarts. *)
EXTENDS Bbs
=============================================================================
