------------------------------ MODULE Delivery ------------------------------
(***************************************************************************)
(* What a chat user is told about an outgoing message, abstracted from    *)
(* connections, buffers, acknowledgements and timers.  chat.py documents   *)
(* the life of a message as "sent" -> "delivered" | "failed" (line 5).     *)
(* The machine below has one step more, Retract, because the code takes    *)
(* it: a message already reported delivered is reported failed when the    *)
(* send that carried it ends in a connection error.                        *)
(***************************************************************************)
CONSTANT Msg

VARIABLES
    status,     \* status[m]: what the sender's user was last told of m
    received    \* messages the receiving peer has taken off the wire

vars == <<status, received>>

Statuses == {"new", "sent", "delivered", "failed"}

Init ==
    /\ status = [m \in Msg |-> "new"]
    /\ received = {}

\* The message is accepted for sending, or refused on the spot.
Submit(m) ==
    /\ status[m] = "new"
    /\ \E s \in {"sent", "failed"} : status' = [status EXCEPT ![m] = s]
    /\ UNCHANGED received

\* The peer takes the message off the wire; a message given up on may still arrive.
Receive(m) ==
    /\ status[m] # "new"
    /\ m \notin received
    /\ received' = received \cup {m}
    /\ UNCHANGED status

\* Only a message the peer has is reported delivered.
Confirm(m) ==
    /\ status[m] = "sent"
    /\ m \in received
    /\ status' = [status EXCEPT ![m] = "delivered"]
    /\ UNCHANGED received

GiveUp(m) ==
    /\ status[m] = "sent"
    /\ status' = [status EXCEPT ![m] = "failed"]
    /\ UNCHANGED received

\* The step the documentation does not know of.
Retract(m) ==
    /\ status[m] = "delivered"
    /\ status' = [status EXCEPT ![m] = "failed"]
    /\ UNCHANGED received

Next == \E m \in Msg : Submit(m) \/ Receive(m) \/ Confirm(m) \/ GiveUp(m) \/ Retract(m)

Spec == Init /\ [][Next]_vars
=============================================================================
