------------------------------ MODULE SmsOutbox ------------------------------
(***************************************************************************)
(* What ofono promises of the text messages clients hand to it: they leave *)
(* in the order they came in, each with one outcome.  An end of ofonod     *)
(* forgets none; at worst the one whose step it cuts short goes without    *)
(* its outcome, or stays in the outbox although its outcome was told.      *)
(***************************************************************************)
EXTENDS Sequences, SequencesExt

CONSTANT Messages

VARIABLES
    outbox,     \* waiting messages, oldest first
    outcome,    \* the outcome told of each message, or "none"
    entered,    \* the messages that came in, or began to
    ends,       \* how often ofonod ended
    torn        \* messages that an end left in the outbox with their outcome told

vars == <<outbox, outcome, entered, ends, torn>>

Init ==
    /\ outbox = <<>> /\ entered = {} /\ torn = {}
    /\ outcome = [m \in Messages |-> "none"]
    /\ ends = 0

\* Nobody hears of a second outcome, but of a message that is torn.
Tell(m, o) ==
    /\ outcome[m] = "none" \/ m \in torn
    /\ outcome' = [outcome EXCEPT ![m] = o]

Enter(m) == m \notin entered /\ entered' = entered \cup {m}

Accept(m) == Enter(m) /\ outbox' = Append(outbox, m) /\ UNCHANGED <<outcome, torn>>

Take(m) == \E i \in DOMAIN outbox : outbox[i] = m /\ outbox' = RemoveAt(outbox, i)

\* The network takes the oldest message, or refuses it for good.
Leave(o) ==
    /\ outbox # <<>>
    /\ Tell(Head(outbox), o) /\ Take(Head(outbox))
    /\ UNCHANGED <<entered, torn>>

Withdraw(m) == Tell(m, "cancelled") /\ Take(m) /\ UNCHANGED <<entered, torn>>

Step ==
    \/ \E m \in Messages : Accept(m) \/ Withdraw(m)
    \/ Leave("sent") \/ Leave("failed")

\* ofonod ends before or after a step, or within one: the message did not get
\* as far as the outbox, left it in full and nobody hears of it, or stays in
\* it with its outcome told.
End ==
    /\ ends' = ends + 1
    /\ \/ UNCHANGED <<outbox, outcome, entered, torn>>
       \/ Step
       \/ \E m \in Messages : Enter(m) /\ UNCHANGED <<outbox, outcome, torn>>
       \/ /\ outbox # <<>> /\ Take(Head(outbox))
          /\ UNCHANGED <<outcome, entered, torn>>
       \/ \E i \in DOMAIN outbox, o \in {"sent", "failed", "cancelled"} :
             /\ Tell(outbox[i], o)
             /\ o # "cancelled" => i = 1
             /\ torn' = torn \cup {outbox[i]}
             /\ UNCHANGED <<outbox, entered>>

Next == (Step /\ UNCHANGED ends) \/ End

Spec == Init /\ [][Next]_vars
==============================================================================
