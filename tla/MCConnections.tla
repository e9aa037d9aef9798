--------------------------- MODULE MCConnections ---------------------------
(* Instances of Connections: two remote ends that connect to us, one that   *)
(* we connect to.                                                           *)
EXTENDS Connections

CONSTANTS i1, i2, o1, c1, c2, d1, d2, s1
=============================================================================
