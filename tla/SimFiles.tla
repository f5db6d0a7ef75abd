------------------------------- MODULE SimFiles -------------------------------
(***************************************************************************)
(* What the clients of the SIM file system see: their requests are served  *)
(* one after another, and what a request is told of a file is no older than*)
(* what the card had announced of it when the request was made.  There is  *)
(* no cache here.                                                          *)
(***************************************************************************)
EXTENDS Integers, FiniteSets

CONSTANTS Files, Clients

VARIABLES
    card,       \* the version of each file on the card
    announced,  \* the version of each file that the clients know to exist
    asked,      \* number of requests made
    pending,    \* those not finished: id, client, file, the version announced then
    told        \* the answer just given: the request and the versions it read

vars == <<card, announced, asked, pending, told>>

Nothing == [id |-> 0, got |-> {}]

Init ==
    /\ card = [f \in Files |-> 0] /\ announced = card
    /\ asked = 0 /\ pending = {} /\ told = Nothing

Request(c, f) == [id |-> asked + 1, client |-> c, file |-> f, since |-> announced[f]]
New == {{}} \cup {{Request(c, f)} : c \in Clients, f \in Files}
Of(c) == {r \in pending : r.client = c}

Change(f) ==
    /\ card' = [card EXCEPT ![f] = @ + 1]
    /\ told' = Nothing
    /\ UNCHANGED <<announced, asked, pending>>

Announce(F) ==
    /\ announced' = [f \in Files |-> IF f \in F THEN card[f] ELSE announced[f]]
    /\ told' = Nothing
    /\ UNCHANGED <<card, asked, pending>>

Ask(new) ==
    /\ asked' = asked + Cardinality(new)
    /\ pending' = pending \cup new
    /\ told' = Nothing
    /\ UNCHANGED <<card, announced>>

\* The oldest request is told the versions got, for the last time or not; its
\* client may ask again or leave.  A write that is answered is known.
Tell(oldest, got, new, gone) ==
    /\ \A r \in pending : oldest.id <= r.id
    /\ asked' = asked + Cardinality(new)
    /\ pending' = (pending \ gone) \cup new
    /\ told' = [id |-> oldest.id, got |-> got]
    /\ announced' \in {announced, [announced EXCEPT ![oldest.file] = card[oldest.file]]}
    /\ UNCHANGED card

\* A client leaves, the SIM atom goes, or the last answer is forgotten.
Drop(gone) ==
    /\ pending' = pending \ gone
    /\ told' = Nothing
    /\ UNCHANGED <<card, announced, asked>>

Next ==
    \/ \E f \in Files : Change(f)
    \/ \E F \in SUBSET Files : Announce(F)
    \/ \E new \in New : Ask(new)
    \/ \E oldest \in pending, new \in New :
            \E got \in SUBSET (oldest.since .. card[oldest.file]),
               gone \in {{}, {oldest}, Of(oldest.client)} : Tell(oldest, got, new, gone)
    \/ \E gone \in {Of(c) : c \in Clients} \cup {{}, pending} : Drop(gone)

Spec == Init /\ [][Next]_vars
===============================================================================
