--------------------------- MODULE MCHarnessPipeline ------------------------
(* Small instances of the client and server pipeline for TLC.              *)
EXTENDS HarnessPipeline

(* Transactions of different sizes; the memory holds any two but not all.  *)
MCMemUse == <<1, 2, 2>>
MCMemUse2 == <<1, 2>>
=============================================================================
