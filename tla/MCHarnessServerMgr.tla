------------------------- MODULE MCHarnessServerMgr -------------------------
(* A small instance of the server manager for TLC.                          *)
EXTENDS HarnessServerMgr, TLC

CONSTANTS t1, t2, t3

(* Three transactions of different sizes against a memory that holds any   *)
(* two but not all: a client is refused, waits, and may try again.         *)
MCMemUse == (t1 :> 1) @@ (t2 :> 2) @@ (t3 :> 2)
=============================================================================
