----------------------------- MODULE SapSession -----------------------------
(***************************************************************************)
(* What the SIM server promises a SAP client (the modem), message by       *)
(* message: a session is opened by CONNECT_REQ, the card's ATR is asked    *)
(* for once, then commands are exchanged; every request is answered by one *)
(* message of the matching kind; CONNECT_REQ starts over at any time.      *)
(***************************************************************************)
EXTENDS Rsap

None == -1

VARIABLES session,    \* how far the session has come
          request,    \* kind of the request not answered yet, or None
          reply       \* kind of the answer to the last request, or None

vars == <<session, request, reply>>

Kinds == {CONNECT_REQ, TRANSFER_ATR_REQ, TRANSFER_APDU_REQ}

Answer == [r \in Kinds |-> CASE r = CONNECT_REQ -> STATUS_IND
                             [] r = TRANSFER_ATR_REQ -> TRANSFER_ATR_RESP
                             [] r = TRANSFER_APDU_REQ -> TRANSFER_APDU_RESP]

\* Session after the answer to a request.
After(r) == IF r = CONNECT_REQ THEN "opened" ELSE "ready"

Allowed == [s \in {"closed", "opened", "ready"} |->
                CASE s = "closed" -> {CONNECT_REQ}
                  [] s = "opened" -> {CONNECT_REQ, TRANSFER_ATR_REQ}
                  [] s = "ready"  -> {CONNECT_REQ, TRANSFER_APDU_REQ}]

Init == session = "closed" /\ request = None /\ reply = None

Request(r) ==
    /\ request = None
    /\ r \in Allowed[session]
    /\ request' = r
    /\ reply' = None
    /\ UNCHANGED session

Reply ==
    /\ request # None
    /\ reply' = Answer[request]
    /\ session' = After(request)
    /\ request' = None

Next == Reply \/ \E r \in Kinds : Request(r)

Spec == Init /\ [][Next]_vars

=============================================================================
