---------------------------- MODULE MCTrustStore ----------------------------
(* Instances of TrustStore: two devices and two rotations, of the same or of *)
(* different devices.                                                       *)
EXTENDS TrustStore

CONSTANTS d1, d2, d3, d4
=============================================================================
