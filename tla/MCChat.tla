------------------------------- MODULE MCChat -------------------------------
(* Instances of Chat: ends a and b, one message each way.                  *)
EXTENDS Chat, TLC

CONSTANTS a, b, m1, m2

FromBoth == (m1 :> a) @@ (m2 :> b)
=============================================================================
