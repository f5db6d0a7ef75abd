-------------------------------- MODULE Rsap --------------------------------
(***************************************************************************)
(* The remote SIM access message format of rpi-sim/simserver.py            *)
(* (class RSAPMessageProtocol): what a message is on the wire, when a      *)
(* buffer is taken for a whole one, and which buffers the code can read    *)
(* without raising.  A byte string is a sequence of 0..255; Python's index *)
(* i is index i + 1 here.                                                  *)
(***************************************************************************)
EXTENDS Integers, Sequences

Byte == 0 .. 255

-----------------------------------------------------------------------------
(* The two dictionaries of the protocol class.                             *)

CONNECT_REQ       == 0
CONNECT_RESP      == 1
DISCONNECT_REQ    == 2
TRANSFER_APDU_REQ == 5
TRANSFER_APDU_RESP == 6
TRANSFER_ATR_REQ  == 7
TRANSFER_ATR_RESP == 8
STATUS_IND        == 17

messageID == 0 .. 20

MaxMsgSize       == 0
ConnectionStatus == 1
ResultCode       == 2
CommandAPDU      == 4
ResponseAPDU     == 5
ATR              == 6
StatusChange     == 8
CommandAPDU7816  == 16

parameterID == (0 .. 9) \cup {CommandAPDU7816}

-----------------------------------------------------------------------------
(* Encoding.                                                               *)

\* Length of a parameter's value once padded to a multiple of four.
FullLen(n) == ((n + 3) \div 4) * 4

\* addParameterPadding applied to [ID, reserved, length (2 bytes), value].
Parameter(id, value) ==
    <<id, 0, Len(value) \div 256, Len(value) % 256>> \o value
        \o [i \in 1 .. FullLen(Len(value)) - Len(value) |-> 0]

\* A message: [ID, number of parameters, reserved (2 bytes)] and parameters.
Message(id, parameters, params) == <<id, parameters, 0, 0>> \o params

generateCONNECT_RESP ==
    Message(CONNECT_RESP, 1, Parameter(ConnectionStatus, <<0>>))

generateSTATUS_IND ==
    Message(STATUS_IND, 1, Parameter(StatusChange, <<1>>))

generateTRANSFER_ATR_RESP(atr) ==
    Message(TRANSFER_ATR_RESP, 2, Parameter(ResultCode, <<0>>) \o Parameter(ATR, atr))

generateTRANSFER_APDU_RESP(apdu) ==
    Message(TRANSFER_APDU_RESP, 2,
            Parameter(ResultCode, <<0>>) \o Parameter(ResponseAPDU, apdu))

-----------------------------------------------------------------------------
(* Decoding.  Bytes past the parameters the header announces are never     *)
(* looked at.                                                              *)

Truncated == -1

\* currentPos after each parameter (as an offset), or Truncated.
ParamEnds(message) ==
    LET end[i \in 0 .. message[2]] ==
            IF i = 0 THEN 4
            ELSE LET pos == end[i - 1] IN
                 IF pos = Truncated \/ Len(message) < pos + 4 THEN Truncated
                 ELSE LET next == pos + 4
                              + FullLen(message[pos + 3] * 256 + message[pos + 4])
                      IN  IF Len(message) < next THEN Truncated ELSE next
    IN  end

isMessageCompleteHeaders(message) ==
    Len(message) >= 4 /\ Len(message) >= 4 + 4 * message[2]

\* (A parameter takes four bytes at least: the second conjunct only saves
\* looking for the ends of hundreds of parameters in a short buffer.)
isMessageComplete(message) ==
    /\ Len(message) >= 4
    /\ Len(message) >= 4 + 4 * message[2]
    /\ message[2] = 0 \/ ParamEnds(message)[message[2]] # Truncated

\* printMessage looks the message and every parameter up in the dictionaries
\* and raises KeyError for an unknown one.  message is complete.
Printable(message) ==
    /\ message[1] \in messageID
    /\ \A i \in 1 .. message[2] :
           message[ParamEnds(message)[i - 1] + 1] \in parameterID

CarriesAPDU7816(message) ==
    /\ message[1] = TRANSFER_APDU_REQ
    /\ Len(message) >= 8
    /\ message[5] = CommandAPDU7816

\* extractAPDU_REQ raises (NameError for another message, IndexError or
\* KeyError for a missing or unknown first parameter) or returns None, which
\* the reader's transmit() refuses: the APDU can be transmitted only if ...
CarriesAPDU(message) ==
    /\ message[1] = TRANSFER_APDU_REQ
    /\ Len(message) >= 8
    /\ message[5] \in {CommandAPDU, CommandAPDU7816}

=============================================================================
