---------------------------- MODULE MCDiscovery ----------------------------
(* Instance of Discovery: two nodes, b does not hear the broadcasts of a.   *)
EXTENDS Discovery

CONSTANTS a, b

OneWay == {<<b, a>>}
=============================================================================
