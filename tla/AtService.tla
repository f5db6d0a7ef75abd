------------------------------ MODULE AtService ------------------------------
(***************************************************************************)
(* What an AT channel promises its clients: commands are answered one at a *)
(* time, in the order they were sent, each once, and none is answered after*)
(* it was cancelled or the channel is gone.                                *)
(***************************************************************************)
EXTENDS Naturals, Sequences, Queues

CONSTANTS Ids

VARIABLES
    waiting,    \* commands sent, neither answered nor cancelled, oldest first
    told        \* the result each command's callback was given, or "none"

Init == waiting = <<>> /\ told = [i \in Ids |-> "none"]

\* Any call a client may make: it sends a command, cancels some, or closes the
\* channel (which cancels all).
Call(left) ==
    \/ waiting' = left
    \/ \E i \in Ids : waiting' = Append(left, i)
    \/ \E gone \in SUBSET Ids : waiting' = Without(left, gone)

Client == Call(waiting) /\ UNCHANGED told

\* The oldest command is answered; its callback may make a call.
Answer(i, result) ==
    /\ waiting # <<>> /\ i = Head(waiting)
    /\ told[i] = "none"
    /\ told' = [told EXCEPT ![i] = result]
    /\ Call(Tail(waiting))

Next ==
    \/ Client
    \/ \E i \in Ids, result \in {"ok", "error"} : Answer(i, result)

Spec == Init /\ [][Next]_<<waiting, told>>
==============================================================================
