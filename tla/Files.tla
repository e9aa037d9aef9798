-------------------------------- MODULE Files --------------------------------
(***************************************************************************)
(* What is on disk where a file should be, besides contents that can be    *)
(* read back: nothing, or what is left of a write that was cut off after   *)
(* the file was opened (and so emptied) and before it was closed.  The     *)
(* process may be killed; the system it runs on keeps what was written.    *)
(***************************************************************************)
CONSTANTS None, Torn

ASSUME FileAssumption == None # Torn
=============================================================================
