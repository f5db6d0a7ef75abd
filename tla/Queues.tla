------------------------------- MODULE Queues -------------------------------
(***************************************************************************)
(* A queue of GLib (GQueue) as a sequence, and its loops over all elements.*)
(***************************************************************************)
EXTENDS Integers, Sequences

\* What is left of q when the elements of gone are removed, in its order.
Without(q, gone) ==
    LET left[i \in 0 .. Len(q)] ==
            IF i = 0 THEN <<>>
            ELSE IF q[i] \in gone THEN left[i - 1]
            ELSE Append(left[i - 1], q[i])
    IN  left[Len(q)]
=============================================================================
