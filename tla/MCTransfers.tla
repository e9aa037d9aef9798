----------------------------- MODULE MCTransfers -----------------------------
(* Instance of Transfers for TLC: two files, neither a whole number of     *)
(* chunks.                                                                 *)
EXTENDS Transfers, TLC

CONSTANTS t1, t2

Sizes == (t1 :> 3) @@ (t2 :> 1)
=============================================================================
