---------------------------- MODULE MCSimServer ----------------------------
(***************************************************************************)
(* Instances of SimServer for TLC: commands of one byte (padded to four),  *)
(* of five, as GET RESPONSE, and of nine and thirteen, long enough to      *)
(* swallow a CONNECT_REQ of twelve bytes; card answers with SW 9000 and    *)
(* with "more data" (61xx).                                                *)
(***************************************************************************)
EXTENDS SimServer

MCApdus == {<<160>>, <<0, 192, 0, 0, 15>>, <<0, 164, 4, 0, 9, 8, 7, 6, 5>>,
            <<0, 178, 1, 4, 0, 1, 0, 16, 5, 0, 0, 1, 2>>}
\* Small values, so that bytes of a command taken for a length stand for a
\* short one and TLC sees the end of the parameter.
MCSmallApdus == {<<1>>, <<0, 2, 0, 1, 0>>}

MCCardAnswers == {<<144, 0>>, <<97, 3>>}
MCAtrBytes == <<59, 0>>

=============================================================================
