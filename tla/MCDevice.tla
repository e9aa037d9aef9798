------------------------------ MODULE MCDevice -------------------------------
(* Instance of Device for TLC.  Keys, data keys and codes are             *)
(* interchangeable; passphrases are not, one of them being weak.          *)
EXTENDS Device, TLC

Symmetric ==
    {keys @@ datakeys @@ codes :
        keys \in Permutations(Key), datakeys \in Permutations(Dek), codes \in Permutations(Code)}
=============================================================================
