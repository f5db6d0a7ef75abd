------------------------------ MODULE SimServer ------------------------------
(***************************************************************************)
(* rpi-sim/simserver.py: the SIM server.  Fragments of the modem's byte    *)
(* stream arrive one by one (each is one request of the relay, answered    *)
(* before the next, class Server.process); they are collected in buffer    *)
(* until a whole message is there, and the message is answered according   *)
(* to the step the session is in.  An exception ends the process: run()    *)
(* catches none.                                                           *)
(*                                                                         *)
(* The modem (the SAP client) and the smart card are not in the            *)
(* repository; they are modelled from the messages the server knows.       *)
(***************************************************************************)
EXTENDS Rsap

CONSTANTS
    Apdus,          \* commands the modem may send to the card
    CardAnswers,    \* what the card may return: data, then SW1 and SW2
    AtrBytes,       \* the card's answer to reset
    CardFaults,     \* may transmit() raise (card pulled out, reader off)?
    Disconnects,    \* may the modem end a session with DISCONNECT_REQ?
    MaxCuts,        \* bound: modem resets in the middle of a message
    MaxRestarts,    \* bound: restarts of the server process
    MaxBuffer       \* bound: length of a buffer that part of a message is added to

ASSUME SimServerAssumption ==
    /\ \A a \in Apdus \cup CardAnswers \cup {AtrBytes} : a \in Seq(Byte)
    /\ \A a \in CardAnswers : Len(a) >= 2
    /\ \A a \in Apdus \cup CardAnswers \cup {AtrBytes} : Len(a) < 65536
    /\ {CardFaults, Disconnects} \subseteq BOOLEAN
    /\ {MaxCuts, MaxRestarts, MaxBuffer} \subseteq Nat

VARIABLES
    buffer,         \* Server.buffer
    currentStep,    \* RSAPMessageProtocol.currentStep
    running,        \* FALSE once an exception has ended the process
    response,       \* what process() returned for the last fragment
    phase,          \* modem: the request it makes next
    message,        \* modem: the message being sent, <<>> if none
    sent,           \* modem: number of its bytes sent so far
    cuts, restarts  \* counters for the two bounds

serverVars == <<buffer, currentStep, running, response>>
modemVars  == <<phase, message, sent, cuts>>
vars == <<serverVars, modemVars, restarts>>

-----------------------------------------------------------------------------
(* The server: Server.process on one fragment, one action per outcome.     *)

\* An exception leaves process() and the loop of run().
Raise ==
    /\ running' = FALSE
    /\ response' = <<>>
    /\ buffer' = <<>>
    /\ UNCHANGED currentStep

ReturnInStep(resp, step) ==
    /\ response' = resp
    /\ buffer' = <<>>
    /\ UNCHANGED <<currentStep, running>>

\* A whole message was answered: the buffer is emptied.
Return(resp, step) ==
    /\ response' = resp
    /\ currentStep' = step
    /\ buffer' = <<>>
    /\ UNCHANGED running

StepForAny(m) == currentStep

\* The step a whole message is handled in: CONNECT_REQ starts over.
StepFor(m) == IF m[1] = CONNECT_REQ THEN 0 ELSE currentStep

\* advanceStep: the last step is kept.
advanceStep(step) == IF step < 2 THEN step + 1 ELSE step

Incomplete(m) ==
    /\ ~isMessageComplete(m)
    /\ buffer' = m
    /\ response' = <<>>
    /\ UNCHANGED <<currentStep, running>>

\* printMessage raises before the message is looked at.
Unprintable(m) ==
    /\ isMessageComplete(m) /\ ~Printable(m)
    /\ Raise

\* Whatever the message is, step 0 answers STATUS_IND (CONNECT_RESP is built
\* but not returned) ...
AnswerConnect(m) ==
    /\ isMessageComplete(m) /\ Printable(m)
    /\ StepFor(m) = 0
    /\ Return(generateSTATUS_IND, advanceStep(0))

\* ... and step 1 the card's ATR.
AnswerATR(m) ==
    /\ isMessageComplete(m) /\ Printable(m)
    /\ StepFor(m) = 1
    /\ Return(generateTRANSFER_ATR_RESP(AtrBytes), advanceStep(1))

SW1(answer) == answer[Len(answer) - 1]
MoreData == 97      \* 0x61: the answer has to be fetched with GET RESPONSE

AnswerAPDU(m) ==
    /\ isMessageComplete(m) /\ Printable(m)
    /\ StepFor(m) = 2
    /\ CarriesAPDU(m)
    /\ \E first \in CardAnswers, fetched \in CardAnswers :
           Return(generateTRANSFER_APDU_RESP(
                      IF SW1(first) = MoreData THEN fetched ELSE first),
                  advanceStep(2))

\* extractAPDU_REQ or transmit raises.
RefuseAPDU(m) ==
    /\ isMessageComplete(m) /\ Printable(m)
    /\ StepFor(m) = 2
    /\ ~CarriesAPDU(m) \/ CardFaults
    /\ Raise

process(fragment) ==
    LET m == buffer \o fragment IN
    /\ running
    /\ \/ Incomplete(m)
       \/ Unprintable(m)
       \/ AnswerConnect(m)
       \/ AnswerATR(m)
       \/ AnswerAPDU(m)
       \/ RefuseAPDU(m)

\* Server.__init__ in a new process.
Restart ==
    /\ restarts < MaxRestarts
    /\ buffer' = <<>> /\ currentStep' = 0
    /\ running' = TRUE /\ response' = <<>>
    /\ restarts' = restarts + 1
    /\ UNCHANGED modemVars

-----------------------------------------------------------------------------
(* The modem.                                                              *)

ConnectReq == Message(CONNECT_REQ, 1, Parameter(MaxMsgSize, <<1, 0>>))
AtrReq     == Message(TRANSFER_ATR_REQ, 0, <<>>)
ApduReq(a) == Message(TRANSFER_APDU_REQ, 1, Parameter(CommandAPDU, a))
DisconnectReq == Message(DISCONNECT_REQ, 0, <<>>)

Requests == [connect |-> {ConnectReq}, atr |-> {AtrReq},
             apdu |-> {ApduReq(a) : a \in Apdus}
                          \cup (IF Disconnects THEN {DisconnectReq} ELSE {})]

ExpectedAnswer == [connect |-> STATUS_IND, atr |-> TRANSFER_ATR_RESP,
                   apdu |-> TRANSFER_APDU_RESP]

NextPhase == [connect |-> "atr", atr |-> "apdu", apdu |-> "apdu"]

\* A modem whose request was not answered as it must be connects again.
Send ==
    /\ message = <<>>
    /\ \E p \in {phase, "connect"} :
           phase' = p /\ message' \in Requests[p]
    /\ sent' = 0
    /\ response' = <<>>
    /\ UNCHANGED <<buffer, currentStep, running, cuts, restarts>>

\* The next n bytes reach the server in one fragment.  With the last of them
\* the modem sees the server's answer; any other answer than the one it
\* waits for (none at all included) makes it connect again.
Transmit(n) ==
    /\ message # <<>> /\ sent + n <= Len(message)
    /\ Len(buffer) <= MaxBuffer \/ sent + n = Len(message)
    /\ process(SubSeq(message, sent + 1, sent + n))
    /\ IF sent + n < Len(message)
       THEN sent' = sent + n /\ UNCHANGED <<phase, message>>
       ELSE /\ sent' = 0 /\ message' = <<>>
            /\ phase' = IF response' # <<>> /\ response'[1] = ExpectedAnswer[phase]
                        THEN NextPhase[phase] ELSE "connect"
    /\ UNCHANGED <<cuts, restarts>>

\* The modem is reset: the rest of the message is never sent.
Cut ==
    /\ cuts < MaxCuts
    /\ message # <<>>
    /\ phase' = "connect" /\ message' = <<>> /\ sent' = 0
    /\ cuts' = cuts + 1
    /\ UNCHANGED <<serverVars, restarts>>

-----------------------------------------------------------------------------

Init ==
    /\ buffer = <<>> /\ currentStep = 0 /\ running = TRUE /\ response = <<>>
    /\ phase = "connect" /\ message = <<>> /\ sent = 0
    /\ cuts = 0 /\ restarts = 0

Next ==
    \/ Send
    \/ \E n \in 1 .. Len(message) - sent : Transmit(n)
    \/ Cut
    \/ Restart

\* The modem goes on and the server handles what it receives; nothing makes
\* the modem cut a message or the operator restart the server.
Fairness ==
    /\ WF_vars(Send)
    /\ WF_vars(\E n \in 1 .. Len(message) - sent : Transmit(n))

Spec == Init /\ [][Next]_vars /\ Fairness

-----------------------------------------------------------------------------
(* Properties.                                                             *)

TypeOK ==
    /\ buffer \in Seq(Byte) /\ response \in Seq(Byte) /\ message \in Seq(Byte)
    /\ currentStep \in 0 .. 2 /\ running \in BOOLEAN
    /\ phase \in DOMAIN Requests
    /\ sent \in 0 .. Len(message)
    /\ cuts \in 0 .. MaxCuts /\ restarts \in 0 .. MaxRestarts

\* However a message is cut into fragments, process() takes it for complete
\* with its last byte and not before, and no byte of it is left in the buffer
\* for the next one (isMessageComplete, l.85-104; buffer, l.233-240).  Holds
\* as long as neither side restarts in the middle of a message.
BufferHoldsWhatWasSent == running => buffer = SubSeq(message, 1, sent)

\* The buffer, and the variables around it, are what the sender has put there.
Reassembly == TypeOK /\ BufferHoldsWhatWasSent

\* A client that keeps to the protocol never makes the server raise, in
\* printMessage, extractAPDU_REQ or transmit (l.121-136, 178-184, 268).
NeverRaises == running

\* The steps the server counts and the modem's view of the session agree
\* between messages, unless the modem is about to connect again: stale bytes
\* of a reset modem and exceptions never put one ahead of the other
\* (advanceStep, l.109-111; process, l.231-277).  A restarted server is behind.
StepMatchesPhase ==
    running /\ message = <<>> /\ restarts = 0 =>
        \/ phase = "connect"
        \/ phase = "atr" /\ currentStep = 1
        \/ phase = "apdu" /\ currentStep = 2

\* What extractAPDU_REQ asserts of the message handled in step 2 (l.179-180).
Step2IsApdu ==
    [][currentStep = 2 /\ message # <<>> /\ message' = <<>> /\ cuts' = cuts
           => message[1] \in {CONNECT_REQ, TRANSFER_APDU_REQ}]_vars

\* A modem that was reset in the middle of a message, and whose CONNECT_REQ
\* is swallowed by the stale bytes in the buffer (l.233-240), or whose server
\* was restarted, reaches a session in the end by connecting again and again,
\* unless the server raised.  True only if messages arrive whole from some
\* time on (sent is 0 between steps): with every CONNECT_REQ split at the same
\* place, the bytes after the split can be left in the buffer for ever.
ResetModemReconnects ==
    <>[](sent = 0) => (phase = "connect" ~> phase # "connect" \/ ~running)

Session == INSTANCE SapSession WITH
    session <- CASE currentStep = 0 -> "closed" [] currentStep = 1 -> "opened"
                 [] currentStep = 2 -> "ready",
    request <- IF message = <<>> THEN -1 ELSE message[1],
    reply   <- IF response = <<>> THEN -1 ELSE response[1]

\* The server implements the message-by-message promise.
ImplementsSession == Session!Spec

=============================================================================
