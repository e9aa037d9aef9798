--------------------------- MODULE MCFileTransfer ---------------------------
(* Instances of FileTransfer: two files of one and two chunks, over one or *)
(* two connections.                                                        *)
EXTENDS FileTransfer, TLC

CONSTANTS t1, t2, l1, l2

OnTwo == (t1 :> l1) @@ (t2 :> l2)
Sizes == (t1 :> 2) @@ (t2 :> 1)
Caps == (l1 :> 1) @@ (l2 :> 0)
=============================================================================
