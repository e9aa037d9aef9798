-------------------------- MODULE MCSecureSession --------------------------
(* Instances of SecureSession: nodes a and b, each opening one connection. *)
EXTENDS SecureSession, TLC

CONSTANTS a, b, c1, c2

\* The channel is exercised on c1.
Sends == (<<c1, a>> :> 3) @@ (<<c1, b>> :> 0) @@ (<<c2, a>> :> 0) @@ (<<c2, b>> :> 0)
Crossed == (c1 :> a) @@ (c2 :> b)
=============================================================================
