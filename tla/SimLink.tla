------------------------------- MODULE SimLink -------------------------------
(***************************************************************************)
(* What the WiFi SIM link promises the modem: the bytes it writes are      *)
(* taken in order, a few chunks at a time; what was taken is answered at   *)
(* most once, by the answer to exactly those chunks, before anything else  *)
(* is taken; an answer that comes too late is never delivered.             *)
(***************************************************************************)
EXTENDS Integers, Sequences

CONSTANTS Chunk,      \* what the modem writes
          ReadMax     \* most chunks taken at once

VARIABLES unread,     \* written by the modem, not taken yet
          taken,      \* the chunks being answered, <<>> if none
          answers     \* the chunks answered so far, answer by answer

vars == <<unread, taken, answers>>

Init == unread = <<>> /\ taken = <<>> /\ answers = <<>>

Write(c) == unread' = Append(unread, c) /\ UNCHANGED <<taken, answers>>

Take(n) ==
    /\ taken = <<>>
    /\ n <= Len(unread)
    /\ taken' = SubSeq(unread, 1, n)
    /\ unread' = SubSeq(unread, n + 1, Len(unread))
    /\ UNCHANGED answers

Answer ==
    /\ taken # <<>>
    /\ answers' = Append(answers, taken)
    /\ taken' = <<>>
    /\ UNCHANGED unread

GiveUp == taken # <<>> /\ taken' = <<>> /\ UNCHANGED <<unread, answers>>

Next ==
    \/ \E c \in Chunk : Write(c)
    \/ \E n \in 1 .. ReadMax : Take(n)
    \/ Answer
    \/ GiveUp

Spec == Init /\ [][Next]_vars

=============================================================================
