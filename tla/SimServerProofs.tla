--------------------------- MODULE SimServerProofs ---------------------------
(***************************************************************************)
(* Proofs about SimServer.  Of the byte stream: however a message is cut   *)
(* into fragments, the buffer holds what was sent of it and no more, and   *)
(* without faults every message is answered as SapSession promises.  Of    *)
(* the steps: with resets and faults, and whatever is left in the buffer,  *)
(* the step the server counts and the modem's view of its session agree.   *)
(***************************************************************************)
EXTENDS SimServer, SequenceTheorems, TLAPS

-----------------------------------------------------------------------------
(* Parameters and messages as strings of bytes.                            *)

LEMMA ConcatBytes ==
    ASSUME NEW s \in Seq(Byte), NEW t \in Seq(Byte)
    PROVE  /\ Len(s) \in Nat /\ Len(t) \in Nat
           /\ s \o t \in Seq(Byte)
           /\ Len(s \o t) = Len(s) + Len(t)
           /\ \A i \in 1 .. Len(s) : (s \o t)[i] = s[i]
           /\ \A i \in 1 .. Len(t) : (s \o t)[Len(s) + i] = t[i]
<1>1. Len(s) \in Nat /\ Len(t) \in Nat
    BY LenProperties
<1>2. /\ s \o t \in Seq(Byte)
      /\ Len(s \o t) = Len(s) + Len(t)
      /\ \A i \in 1 .. Len(s) + Len(t) :
             (s \o t)[i] = IF i <= Len(s) THEN s[i] ELSE t[i - Len(s)]
    BY ConcatProperties
<1>3. \A i \in 1 .. Len(s) : (s \o t)[i] = s[i]
    BY <1>1, <1>2
<1>4. \A i \in 1 .. Len(t) : (s \o t)[Len(s) + i] = t[i]
    <2> TAKE i \in 1 .. Len(t)
    <2>1. Len(s) + i \in 1 .. Len(s) + Len(t) /\ ~(Len(s) + i <= Len(s))
        BY <1>1
    <2>2. (Len(s) + i) - Len(s) = i
        BY <1>1
    <2> QED
        BY <1>2, <2>1, <2>2
<1> QED
    BY <1>1, <1>2, <1>3, <1>4

TwoBytes(n) == n \in Nat /\ n < 65536

LEMMA Halves ==
    ASSUME NEW n, TwoBytes(n)
    PROVE  n \div 256 \in Byte /\ n % 256 \in Byte /\ (n \div 256) * 256 + (n % 256) = n
BY DEF TwoBytes, Byte

IsParameter(p, id, n) ==
    p \in Seq(Byte) /\ Len(p) = 4 + FullLen(n) /\ p[1] = id /\ p[3] * 256 + p[4] = n

\* A parameter whose length fits in two bytes is a string of bytes.
LEMMA ParameterShape ==
    ASSUME NEW id \in Byte, NEW value \in Seq(Byte), TwoBytes(Len(value))
    PROVE  IsParameter(Parameter(id, value), id, Len(value))
<1> DEFINE n == Len(value)
           k == FullLen(n) - n
           pad == [i \in 1 .. k |-> 0]
           high == n \div 256
           low == n % 256
           head == <<id, 0, high, low>>
<1> HIDE DEF n
<1>1. n \in Nat
    BY DEF n, TwoBytes
<1>2. k \in Nat /\ FullLen(n) \in Nat /\ FullLen(n) = n + k
    BY <1>1 DEF FullLen
<1>3. high \in Byte /\ low \in Byte /\ high * 256 + low = n
    BY Halves DEF n
<1> HIDE DEF high, low
<1>z. 0 \in Byte
    BY DEF Byte
<1>4. /\ head \in Seq(Byte) /\ Len(head) = 4
      /\ head[1] = id /\ head[3] = high /\ head[4] = low
    BY <1>3, <1>z
<1>5. pad \in Seq(Byte) /\ Len(pad) = k
    <2>1. pad \in [1 .. k -> Byte] /\ DOMAIN pad = 1 .. k
        BY <1>z
    <2> HIDE DEF pad, k
    <2>2. pad \in Seq(Byte)
        BY <1>2, <2>1, SeqDef
    <2>3. Len(pad) \in Nat /\ DOMAIN pad = 1 .. Len(pad)
        BY <2>2, LenProperties
    <2> QED
        BY <1>2, <2>1, <2>2, <2>3
<1> HIDE DEF head, pad, k
<1>6. /\ head \o value \in Seq(Byte) /\ Len(head \o value) = Len(head) + n
      /\ \A i \in 1 .. Len(head) : (head \o value)[i] = head[i]
    BY <1>4, ConcatBytes DEF n
<1>7. /\ (head \o value) \o pad \in Seq(Byte)
      /\ Len((head \o value) \o pad) = Len(head \o value) + k
      /\ \A i \in 1 .. Len(head \o value) : ((head \o value) \o pad)[i] = (head \o value)[i]
    BY <1>5, <1>6, ConcatBytes
<1>8. Parameter(id, value) = (head \o value) \o pad
    BY DEF Parameter, head, high, low, pad, k, n
<1>9. /\ Parameter(id, value) \in Seq(Byte)
      /\ Len(Parameter(id, value)) = 4 + FullLen(n)
    BY <1>1, <1>2, <1>4, <1>6, <1>7, <1>8
<1>10. ASSUME NEW i \in {1, 3, 4} PROVE Parameter(id, value)[i] = head[i]
    <2>1. i \in 1 .. Len(head) /\ i \in 1 .. Len(head \o value)
        BY <1>1, <1>4, <1>6
    <2> QED
        BY <1>6, <1>7, <1>8, <2>1
<1>11. Parameter(id, value)[3] * 256 + Parameter(id, value)[4] = n
    BY <1>3, <1>4, <1>10
<1>12. Parameter(id, value)[1] = id
    BY <1>4, <1>10
<1> QED
    BY <1>9, <1>11, <1>12 DEF n, IsParameter

IsMessage(m, id, parameters, params) ==
    /\ m \in Seq(Byte)
    /\ Len(m) = 4 + Len(params)
    /\ m # <<>>
    /\ m[1] = id /\ m[2] = parameters
    /\ \A i \in 1 .. Len(params) : m[4 + i] = params[i]

\* A message starts with its kind and its number of parameters.
LEMMA MessageShape ==
    ASSUME NEW id \in Byte, NEW parameters \in Byte, NEW params \in Seq(Byte)
    PROVE  IsMessage(Message(id, parameters, params), id, parameters, params)
<1> DEFINE head == <<id, parameters, 0, 0>>
<1>1. head \in Seq(Byte) /\ Len(head) = 4 /\ head[1] = id /\ head[2] = parameters
    BY DEF Byte
<1> HIDE DEF head
<1>3. /\ head \o params \in Seq(Byte) /\ Len(params) \in Nat
      /\ Len(head \o params) = Len(head) + Len(params)
      /\ \A i \in 1 .. Len(head) : (head \o params)[i] = head[i]
      /\ \A i \in 1 .. Len(params) : (head \o params)[Len(head) + i] = params[i]
    BY <1>1, ConcatBytes
<1>4. head \o params # <<>>
    BY <1>1, <1>3, EmptySeq
<1>5. (head \o params)[1] = id /\ (head \o params)[2] = parameters
    <2>1. 1 \in 1 .. Len(head) /\ 2 \in 1 .. Len(head)
        BY <1>1
    <2> QED
        BY <1>1, <1>3, <2>1
<1>6. \A i \in 1 .. Len(params) : (head \o params)[4 + i] = params[i]
    BY <1>1, <1>3
<1> QED
    BY <1>1, <1>3, <1>4, <1>5, <1>6 DEF Message, head, IsMessage

\* What the server answers in each step, and that it is a string of bytes.
IsAnswer(m, id) == m \in Seq(Byte) /\ m # <<>> /\ m[1] = id

LEMMA AnswerKinds ==
    /\ IsAnswer(generateSTATUS_IND, STATUS_IND)
    /\ IsAnswer(generateTRANSFER_ATR_RESP(AtrBytes), TRANSFER_ATR_RESP)
    /\ \A a \in CardAnswers : IsAnswer(generateTRANSFER_APDU_RESP(a), TRANSFER_APDU_RESP)
<1>1. 0 \in Byte /\ 1 \in Byte /\ 2 \in Byte /\ 5 \in Byte /\ 6 \in Byte /\ 8 \in Byte
      /\ 17 \in Byte
    BY DEF Byte
<1>2. /\ <<0>> \in Seq(Byte) /\ TwoBytes(Len(<<0>>))
      /\ <<1>> \in Seq(Byte) /\ TwoBytes(Len(<<1>>))
    BY <1>1 DEF TwoBytes
<1>3. IsAnswer(generateSTATUS_IND, STATUS_IND)
    <2>1. Parameter(StatusChange, <<1>>) \in Seq(Byte)
        BY <1>1, <1>2, ParameterShape DEF StatusChange, IsParameter
    <2>2. STATUS_IND \in Byte
        BY <1>1 DEF STATUS_IND
    <2> QED
        BY <1>1, <2>1, <2>2, MessageShape DEF generateSTATUS_IND, IsMessage, IsAnswer
<1>4. ASSUME NEW id \in Byte, NEW p \in Byte, NEW a \in Seq(Byte), TwoBytes(Len(a))
      PROVE  IsAnswer(Message(id, 2, Parameter(ResultCode, <<0>>) \o Parameter(p, a)), id)
    <2>1. Parameter(ResultCode, <<0>>) \in Seq(Byte)
        BY <1>1, <1>2, ParameterShape DEF ResultCode, IsParameter
    <2>2. Parameter(p, a) \in Seq(Byte)
        BY <1>4, ParameterShape DEF IsParameter
    <2>3. Parameter(ResultCode, <<0>>) \o Parameter(p, a) \in Seq(Byte)
        BY <2>1, <2>2, ConcatBytes
    <2> DEFINE params == Parameter(ResultCode, <<0>>) \o Parameter(p, a)
    <2> HIDE DEF params
    <2>4. IsMessage(Message(id, 2, params), id, 2, params)
        BY <1>1, <2>3, MessageShape DEF params
    <2> QED
        BY <2>4 DEF IsMessage, IsAnswer, params
<1>5. /\ AtrBytes \in Seq(Byte) /\ TwoBytes(Len(AtrBytes))
      /\ \A a \in CardAnswers : a \in Seq(Byte) /\ TwoBytes(Len(a))
    BY SimServerAssumption, LenProperties DEF TwoBytes
<1>6. IsAnswer(generateTRANSFER_ATR_RESP(AtrBytes), TRANSFER_ATR_RESP)
    BY <1>1, <1>4, <1>5 DEF generateTRANSFER_ATR_RESP, TRANSFER_ATR_RESP, ATR
<1>7. \A a \in CardAnswers : IsAnswer(generateTRANSFER_APDU_RESP(a), TRANSFER_APDU_RESP)
    BY <1>1, <1>4, <1>5 DEF generateTRANSFER_APDU_RESP, TRANSFER_APDU_RESP, ResponseAPDU
<1> QED
    BY <1>3, <1>6, <1>7


-----------------------------------------------------------------------------
(* When a message is whole.                                                *)

\* Offset of the end of the first parameter.
FirstEnd(m) ==
    IF Len(m) < 8 THEN Truncated
    ELSE LET next == 8 + FullLen(m[7] * 256 + m[8])
         IN  IF Len(m) < next THEN Truncated ELSE next

\* The recursion of ParamEnds, unfolded for a message of one parameter.
LEMMA EndsOfOne ==
    ASSUME NEW m, m[2] = 1
    PROVE  ParamEnds(m)[0] = 4 /\ ParamEnds(m)[1] = FirstEnd(m)
<1> DEFINE Body(end, i) ==
              IF i = 0 THEN 4
              ELSE LET pos == end[i - 1] IN
                   IF pos = Truncated \/ Len(m) < pos + 4 THEN Truncated
                   ELSE LET next == pos + 4
                                + FullLen(m[pos + 3] * 256 + m[pos + 4])
                        IN  IF Len(m) < next THEN Truncated ELSE next
           g == [i \in 0 .. 1 |-> IF i = 0 THEN 4 ELSE FirstEnd(m)]
           Ends == CHOOSE end : end = [i \in 0 .. m[2] |-> Body(end, i)]
<1>1. ParamEnds(m) = Ends
    BY DEF ParamEnds
<1>2. \A f : f[0] = 4 => Body(f, 1) = FirstEnd(m)
    BY DEF FirstEnd, Truncated
<1>3. \A f : Body(f, 0) = 4
    OBVIOUS
<1> HIDE DEF Body
<1>4. g = [i \in 0 .. m[2] |-> Body(g, i)]
    <2>1. g[0] = 4
        OBVIOUS
    <2>2. \A i \in 0 .. 1 : g[i] = Body(g, i)
        BY <1>2, <1>3, <2>1
    <2> QED
        BY <2>2
<1>5. Ends = [i \in 0 .. m[2] |-> Body(Ends, i)]
    BY <1>4
<1> HIDE DEF Ends
<1>6. Ends[0] = 4 /\ Ends[1] = Body(Ends, 1)
    BY <1>5, <1>3
<1> QED
    BY <1>1, <1>2, <1>6

\* What the modem's requests look like: no parameter, or one that fills the
\* message.
IsRequest(m) ==
    /\ m \in Seq(Byte) /\ Len(m) >= 4 /\ m[1] \in messageID
    /\ \/ m[2] = 0 /\ Len(m) = 4
       \/ /\ m[2] = 1 /\ Len(m) >= 8 /\ Len(m) = 8 + FullLen(m[7] * 256 + m[8])
          /\ m[5] \in parameterID

LEMMA PrefixShape ==
    ASSUME NEW m \in Seq(Byte), NEW k \in 1 .. Len(m)
    PROVE  /\ SubSeq(m, 1, k) \in Seq(Byte)
           /\ Len(SubSeq(m, 1, k)) = k
           /\ \A i \in 1 .. k : SubSeq(m, 1, k)[i] = m[i]
<1>1. \A i \in 1 .. k : m[i] \in Byte
    BY ElementOfSeq, LenProperties
<1>2. k \in Int /\ 1 \in Int /\ 1 <= k
    BY LenProperties
<1> QED
    BY <1>1, <1>2, SubSeqProperties

\* A request is complete with its last byte and not before.
LEMMA CompleteAtItsEnd ==
    ASSUME NEW m, IsRequest(m), NEW k \in 1 .. Len(m)
    PROVE  isMessageComplete(SubSeq(m, 1, k)) <=> k = Len(m)
<1> DEFINE x == SubSeq(m, 1, k)
<1>1. /\ m \in Seq(Byte) /\ Len(m) \in Nat /\ k \in Nat /\ k <= Len(m)
      /\ Len(x) = k /\ \A i \in 1 .. k : x[i] = m[i]
    BY PrefixShape, LenProperties DEF IsRequest
<1> HIDE DEF x
<1>2. CASE k < 4
    BY <1>1, <1>2 DEF isMessageComplete, x, IsRequest
<1>3. CASE k >= 4 /\ m[2] = 0
    <2>1. x[2] = 0
        BY <1>1, <1>3
    <2>2. Len(m) = 4
        BY <1>3 DEF IsRequest
    <2> QED
        BY <1>1, <1>3, <2>1, <2>2 DEF isMessageComplete, x
<1>4. CASE k >= 4 /\ m[2] = 1
    <2>1. x[2] = 1
        BY <1>1, <1>4
    <2>2. Len(m) = 8 + FullLen(m[7] * 256 + m[8])
        BY <1>4 DEF IsRequest
    <2>3. CASE k < 8
        <3>1. ~isMessageComplete(x)
            BY <1>1, <2>1, <2>3 DEF isMessageComplete
        <3>2. k # Len(m)
            BY <1>4, <2>3 DEF IsRequest
        <3> QED
            BY <3>1, <3>2 DEF x
    <2>4. CASE k >= 8
        <3>1. x[7] = m[7] /\ x[8] = m[8]
            BY <1>1, <2>4
        <3>2. ParamEnds(x)[1] = FirstEnd(x)
            BY <2>1, EndsOfOne
        <3>3. FirstEnd(x) = IF k < Len(m) THEN Truncated ELSE Len(m)
            BY <1>1, <2>2, <2>4, <3>1 DEF FirstEnd
        <3>4. Len(m) # Truncated
            BY <1>1 DEF Truncated
        <3> QED
            BY <1>1, <2>1, <2>4, <3>2, <3>3, <3>4 DEF isMessageComplete, x
    <2> QED
        BY <1>1, <2>3, <2>4
<1> QED
    BY <1>1, <1>2, <1>3, <1>4 DEF IsRequest

LEMMA RequestIsPrintable ==
    ASSUME NEW m, IsRequest(m)
    PROVE  Printable(m)
<1>1. CASE m[2] = 0
    BY <1>1 DEF Printable, IsRequest
<1>2. CASE m[2] = 1
    <2>1. ParamEnds(m)[0] = 4
        BY <1>2, EndsOfOne
    <2>2. m[5] \in parameterID
        BY <1>2 DEF IsRequest
    <2> QED
        BY <1>2, <2>1, <2>2 DEF Printable, IsRequest
<1> QED
    BY <1>1, <1>2 DEF IsRequest


\* Requests of the modem, and the kind each phase makes.
Phases == {"connect", "atr", "apdu"}

Kind == [connect |-> CONNECT_REQ, atr |-> TRANSFER_ATR_REQ, apdu |-> TRANSFER_APDU_REQ]

LEMMA ConnectReqShape == IsRequest(ConnectReq) /\ ConnectReq[1] = CONNECT_REQ
<1> DEFINE value == <<1, 0>>
           p == Parameter(MaxMsgSize, value)
<1>1. 0 \in Byte /\ 1 \in Byte
    BY DEF Byte
<1>2. value \in Seq(Byte) /\ TwoBytes(Len(value)) /\ Len(value) = 2
    BY <1>1 DEF TwoBytes
<1> HIDE DEF value
<1>3. IsParameter(p, 0, 2)
    BY <1>1, <1>2, ParameterShape DEF MaxMsgSize
<1>4. Len(p) = 8 /\ p \in Seq(Byte)
    BY <1>3 DEF IsParameter, FullLen
<1> HIDE DEF p
<1>5. IsMessage(ConnectReq, 0, 1, p)
    BY <1>1, <1>4, MessageShape DEF ConnectReq, CONNECT_REQ, p, value
<1> DEFINE m == ConnectReq
<1>6. m[5] = p[1] /\ m[7] = p[3] /\ m[8] = p[4]
    <2>1. \A i \in {1, 3, 4} : i \in 1 .. Len(p)
        BY <1>4
    <2> QED
        BY <1>5, <2>1 DEF IsMessage
<1>7. m[5] = 0 /\ m[7] * 256 + m[8] = 2
    BY <1>3, <1>6 DEF IsParameter
<1> QED
    BY <1>4, <1>5, <1>7 DEF IsMessage, IsRequest, messageID, parameterID, CONNECT_REQ, FullLen

LEMMA PlainReqShape ==
    ASSUME NEW id \in messageID
    PROVE  LET m == Message(id, 0, <<>>) IN IsRequest(m) /\ m[1] = id
<1>1. id \in Byte /\ 0 \in Byte
    BY DEF Byte, messageID
<1>2. <<>> \in Seq(Byte) /\ Len(<<>>) = 0
    BY EmptySeq
<1> DEFINE none == <<>>
           m == Message(id, 0, none)
<1> HIDE DEF none
<1>3. IsMessage(m, id, 0, none)
    BY <1>1, <1>2, MessageShape DEF none
<1> HIDE DEF m
<1>4. m \in Seq(Byte) /\ Len(m) = 4 /\ m[1] = id /\ m[2] = 0
    BY <1>2, <1>3 DEF IsMessage, none
<1>5. IsRequest(m)
    BY <1>4 DEF IsRequest
<1> QED
    BY <1>4, <1>5 DEF m, none

LEMMA ApduReqShape ==
    ASSUME NEW a \in Apdus
    PROVE  /\ IsRequest(ApduReq(a)) /\ ApduReq(a)[1] = TRANSFER_APDU_REQ
           /\ CarriesAPDU(ApduReq(a))
<1> DEFINE p == Parameter(CommandAPDU, a)
           n == Len(a)
           m == ApduReq(a)
<1>1. 1 \in Byte /\ 4 \in Byte /\ 5 \in Byte
    BY DEF Byte
<1>2. a \in Seq(Byte) /\ TwoBytes(Len(a))
    BY SimServerAssumption, LenProperties DEF TwoBytes
<1>3. IsParameter(p, 4, n)
    BY <1>1, <1>2, ParameterShape DEF CommandAPDU
<1> HIDE DEF p, n
<1>4. n \in Nat /\ FullLen(n) \in Nat
    BY <1>2 DEF TwoBytes, n, FullLen
<1>5. Len(p) = 4 + FullLen(n) /\ p \in Seq(Byte)
    BY <1>3 DEF IsParameter
<1>6. IsMessage(m, 5, 1, p)
    BY <1>1, <1>5, MessageShape DEF ApduReq, TRANSFER_APDU_REQ, p
<1>7. m[5] = p[1] /\ m[7] = p[3] /\ m[8] = p[4]
    <2>1. \A i \in {1, 3, 4} : i \in 1 .. Len(p)
        BY <1>4, <1>5
    <2> QED
        BY <1>6, <2>1 DEF IsMessage
<1>8. m[5] = 4 /\ m[7] * 256 + m[8] = n
    BY <1>3, <1>7 DEF IsParameter
<1>9. Len(m) = 8 + FullLen(n) /\ Len(m) >= 8
    BY <1>4, <1>5, <1>6 DEF IsMessage
<1>10. IsRequest(m)
    BY <1>6, <1>8, <1>9 DEF IsMessage, IsRequest, messageID, parameterID
<1>11. m[1] = TRANSFER_APDU_REQ /\ CarriesAPDU(m)
    BY <1>6, <1>8, <1>9 DEF IsMessage, TRANSFER_APDU_REQ, CarriesAPDU, CommandAPDU
<1> QED
    BY <1>10, <1>11

LEMMA RequestsAreMessages ==
    ASSUME NEW p \in Phases, NEW request \in Requests[p]
    PROVE  IsRequest(request) /\ request # <<>>
<1>1. IsRequest(AtrReq) /\ IsRequest(DisconnectReq)
    BY PlainReqShape DEF AtrReq, DisconnectReq, TRANSFER_ATR_REQ, DISCONNECT_REQ, messageID
<1>2. IsRequest(request)
    BY <1>1, ConnectReqShape, ApduReqShape DEF Requests, Phases
<1>3. request # <<>>
    BY <1>2, EmptySeq DEF IsRequest
<1> QED
    BY <1>2, <1>3

LEMMA RequestsOfPhase ==
    ASSUME ~Disconnects, NEW p \in Phases, NEW request \in Requests[p]
    PROVE  request[1] = Kind[p] /\ (p = "apdu" => CarriesAPDU(request))
<1>1. AtrReq[1] = TRANSFER_ATR_REQ
    BY PlainReqShape DEF AtrReq, TRANSFER_ATR_REQ, messageID
<1> QED
    BY <1>1, ConnectReqShape, ApduReqShape DEF Requests, Phases, Kind


-----------------------------------------------------------------------------
(* Reassembly: neither side is reset in the middle of a message.  The card *)
(* may fail, the client may disconnect and MaxBuffer is any.               *)

NoResets == MaxCuts = 0 /\ MaxRestarts = 0

Types ==
    /\ buffer \in Seq(Byte) /\ response \in Seq(Byte) /\ message \in Seq(Byte)
    /\ currentStep \in 0 .. 2 /\ running \in BOOLEAN
    /\ phase \in Phases
    /\ cuts = 0 /\ restarts = 0

\* The message being sent is one of the phase, and its answer is still to come.
Sending ==
    IF message = <<>> THEN sent = 0
    ELSE /\ message \in Requests[phase]
         /\ sent \in Nat /\ sent < Len(message)
         /\ response = <<>>

FragmentInv == Types /\ Sending /\ BufferHoldsWhatWasSent

LEMMA NothingSent == SubSeq(<<>>, 1, 0) = <<>> /\ \A m : SubSeq(m, 1, 0) = <<>>
    BY SubSeqEmpty

\* The fragment completes what the buffer holds to a longer part of the message.
LEMMA FragmentJoins ==
    ASSUME FragmentInv, NEW n \in Nat \ {0}, Transmit(n)
    PROVE  /\ buffer \o SubSeq(message, sent + 1, sent + n) = SubSeq(message, 1, sent + n)
           /\ IsRequest(message) /\ sent + n \in 1 .. Len(message)
           /\ process(SubSeq(message, sent + 1, sent + n)) /\ running = TRUE
           /\ (sent + n < Len(message)
                  => message' = message /\ sent' = sent + n /\ phase' = phase)
           /\ (~(sent + n < Len(message))
                  => /\ message' = <<>> /\ sent' = 0
                     /\ phase' = IF response' # <<>> /\ response'[1] = ExpectedAnswer[phase]
                                 THEN NextPhase[phase] ELSE "connect")
           /\ UNCHANGED <<cuts, restarts>>
<1>1. /\ message # <<>> /\ sent + n <= Len(message) /\ running = TRUE
      /\ process(SubSeq(message, sent + 1, sent + n))
    BY DEF Transmit, process, FragmentInv, Types
<1>2. message \in Seq(Byte) /\ Len(message) \in Nat /\ sent \in Nat
    BY <1>1, LenProperties DEF FragmentInv, Types, Sending
<1>3. IsRequest(message)
    BY <1>1, RequestsAreMessages DEF FragmentInv, Types, Sending
<1>4. /\ 1 \in 1 .. Len(message) + 1 /\ sent \in 1 - 1 .. Len(message)
      /\ sent + n \in sent .. Len(message)
    BY <1>1, <1>2
<1>5. SubSeq(message, 1, sent) \o SubSeq(message, sent + 1, sent + n)
          = SubSeq(message, 1, sent + n)
    BY <1>2, <1>4, ConcatAdjacentSubSeq
<1>6. buffer = SubSeq(message, 1, sent)
    BY <1>1 DEF FragmentInv, BufferHoldsWhatWasSent
<1>7. sent + n \in 1 .. Len(message)
    BY <1>1, <1>2
<1>8. UNCHANGED <<cuts, restarts>>
      /\ IF sent + n < Len(message)
         THEN sent' = sent + n /\ UNCHANGED <<phase, message>>
         ELSE /\ sent' = 0 /\ message' = <<>>
              /\ phase' = IF response' # <<>> /\ response'[1] = ExpectedAnswer[phase]
                          THEN NextPhase[phase] ELSE "connect"
    BY DEF Transmit
<1> QED
    BY <1>1, <1>3, <1>5, <1>6, <1>7, <1>8

\* Before the last byte the server only waits ...
LEMMA PartOfMessage ==
    ASSUME FragmentInv, NEW n \in Nat \ {0}, Transmit(n), sent + n < Len(message)
    PROVE  /\ buffer' = SubSeq(message, 1, sent + n)
           /\ response' = <<>> /\ UNCHANGED <<currentStep, running>>
<1> DEFINE m == SubSeq(message, 1, sent + n)
           fragment == SubSeq(message, sent + 1, sent + n)
<1>1. IsRequest(message) /\ sent + n \in 1 .. Len(message)
      /\ buffer \o fragment = m /\ process(fragment)
    BY FragmentJoins
<1>2. sent + n # Len(message)
    BY <1>1, LenProperties DEF IsRequest
<1>3. ~isMessageComplete(m)
    BY <1>1, <1>2, CompleteAtItsEnd
<1> HIDE DEF m, fragment
<1>4. Incomplete(m)
    BY <1>1, <1>3
    DEF process, Unprintable, AnswerConnect, AnswerATR, AnswerAPDU, RefuseAPDU
<1> QED
    BY <1>4 DEF Incomplete, m

\* ... and with the last one the message is handled.
LEMMA WholeMessage ==
    ASSUME FragmentInv, NEW n \in Nat \ {0}, Transmit(n), ~(sent + n < Len(message))
    PROVE  /\ AnswerConnect(message) \/ AnswerATR(message) \/ AnswerAPDU(message)
              \/ RefuseAPDU(message)
           /\ isMessageComplete(message) /\ Printable(message)
<1> DEFINE fragment == SubSeq(message, sent + 1, sent + n)
<1>1. IsRequest(message) /\ sent + n \in 1 .. Len(message)
      /\ buffer \o fragment = SubSeq(message, 1, sent + n) /\ process(fragment)
    BY FragmentJoins
<1>2. sent + n = Len(message) /\ Len(message) \in Nat /\ message \in Seq(Byte)
    BY <1>1, LenProperties DEF IsRequest
<1>3. SubSeq(message, 1, Len(message)) = message
    BY <1>2, SubSeqFull
<1>4. isMessageComplete(message) /\ Printable(message)
    <2>1. Len(message) \in 1 .. Len(message)
        BY <1>1, <1>2
    <2> QED
        BY <1>1, <1>3, <2>1, CompleteAtItsEnd, RequestIsPrintable
<1> HIDE DEF fragment
<1>5. \/ AnswerConnect(message) \/ AnswerATR(message) \/ AnswerAPDU(message)
      \/ Incomplete(message) \/ Unprintable(message) \/ RefuseAPDU(message)
    BY <1>1, <1>2, <1>3 DEF process
<1> QED
    BY <1>4, <1>5 DEF Incomplete, Unprintable

\* Whatever it comes to, nothing is left in the buffer.
LEMMA MessageHandled ==
    ASSUME FragmentInv, NEW m,
           AnswerConnect(m) \/ AnswerATR(m) \/ AnswerAPDU(m) \/ RefuseAPDU(m)
    PROVE  /\ buffer' = <<>> /\ response' \in Seq(Byte)
           /\ currentStep' \in 0 .. 2 /\ running' \in BOOLEAN
<1>1. <<>> \in Seq(Byte)
    BY EmptySeq
<1>2. CASE AnswerConnect(m)
    BY <1>2, AnswerKinds DEF AnswerConnect, Return, advanceStep, IsAnswer, FragmentInv, Types
<1>3. CASE AnswerATR(m)
    BY <1>3, AnswerKinds DEF AnswerATR, Return, advanceStep, IsAnswer, FragmentInv, Types
<1>4. CASE AnswerAPDU(m)
    BY <1>4, AnswerKinds DEF AnswerAPDU, Return, advanceStep, IsAnswer, FragmentInv, Types
<1>5. CASE RefuseAPDU(m)
    BY <1>1, <1>5 DEF RefuseAPDU, Raise, FragmentInv, Types
<1> QED
    BY <1>2, <1>3, <1>4, <1>5

LEMMA FragmentInvHolds ==
    ASSUME NoResets, FragmentInv, [Next]_vars
    PROVE  FragmentInv'
<1>1. CASE UNCHANGED vars
    BY <1>1 DEF FragmentInv, Types, Sending, BufferHoldsWhatWasSent, vars, serverVars, modemVars
<1> USE EmptySeq
<1>2. CASE Send
    <2>1. PICK p \in {phase, "connect"} : phase' = p /\ message' \in Requests[p]
        BY <1>2 DEF Send
    <2>2. p \in Phases
        BY <2>1 DEF FragmentInv, Types, Phases
    <2>3. IsRequest(message') /\ message' # <<>>
        BY <2>1, <2>2, RequestsAreMessages
    <2>4. message' \in Seq(Byte) /\ Len(message') \in Nat /\ 0 < Len(message')
        BY <2>3, LenProperties DEF IsRequest
    <2>5. /\ message = <<>> /\ sent = 0 /\ sent' = 0 /\ response' = <<>>
          /\ UNCHANGED <<buffer, currentStep, running, cuts, restarts>>
        BY <1>2 DEF Send, FragmentInv, Sending
    <2>6. running => buffer' = <<>>
        BY <2>5, NothingSent DEF FragmentInv, BufferHoldsWhatWasSent
    <2>7. Types'
        BY <2>1, <2>2, <2>4, <2>5 DEF FragmentInv, Types
    <2>8. Sending'
        BY <2>1, <2>3, <2>4, <2>5 DEF Sending
    <2>9. BufferHoldsWhatWasSent'
        BY <2>5, <2>6, NothingSent DEF BufferHoldsWhatWasSent
    <2> QED
        BY <2>7, <2>8, <2>9 DEF FragmentInv
<1>3. ASSUME NEW n \in 1 .. Len(message) - sent, Transmit(n) PROVE FragmentInv'
    <2>1. message # <<>> /\ sent \in Nat /\ message \in Seq(Byte) /\ message \in Requests[phase]
        BY <1>3 DEF Transmit, FragmentInv, Types, Sending
    <2>2. Len(message) \in Nat
        BY <2>1, LenProperties
    <2>3. n \in Nat \ {0}
        BY <2>1, <2>2
    <2>4. UNCHANGED <<cuts, restarts>>
        BY <1>3 DEF Transmit
    <2>5. CASE sent + n < Len(message)
        <3>1. /\ message' = message /\ sent' = sent + n /\ phase' = phase
              /\ sent + n \in 1 .. Len(message)
            BY <1>3, <2>3, <2>5, FragmentJoins
        <3>2. /\ buffer' = SubSeq(message, 1, sent + n)
              /\ response' = <<>> /\ UNCHANGED <<currentStep, running>>
            BY <1>3, <2>3, <2>5, PartOfMessage
        <3>3. buffer' \in Seq(Byte)
            BY <2>1, <3>1, <3>2, PrefixShape
        <3>4. Types'
            BY <2>4, <3>1, <3>2, <3>3 DEF FragmentInv, Types
        <3>5. Sending'
            BY <2>1, <2>3, <2>5, <3>1, <3>2 DEF Sending
        <3> QED
            BY <3>1, <3>2, <3>4, <3>5 DEF FragmentInv, BufferHoldsWhatWasSent
    <2>6. CASE ~(sent + n < Len(message))
        <3>1. /\ message' = <<>> /\ sent' = 0
              /\ phase' = IF response' # <<>> /\ response'[1] = ExpectedAnswer[phase]
                          THEN NextPhase[phase] ELSE "connect"
            BY <1>3, <2>3, <2>6, FragmentJoins
        <3>2. /\ buffer' = <<>> /\ response' \in Seq(Byte)
              /\ currentStep' \in 0 .. 2 /\ running' \in BOOLEAN
            BY <1>3, <2>3, <2>6, WholeMessage, MessageHandled
        <3>3. phase' \in Phases
            BY <3>1 DEF NextPhase, FragmentInv, Types, Phases
        <3>4. Types'
            BY <2>4, <3>1, <3>2, <3>3 DEF FragmentInv, Types
        <3>5. Sending' /\ BufferHoldsWhatWasSent'
            BY <3>1, <3>2, NothingSent DEF Sending, BufferHoldsWhatWasSent
        <3> QED
            BY <3>4, <3>5 DEF FragmentInv
    <2> QED
        BY <2>5, <2>6
<1>4. ~Cut /\ ~Restart
    BY DEF Cut, Restart, NoResets, FragmentInv, Types
<1> QED
    BY <1>1, <1>2, <1>3, <1>4 DEF Next

LEMMA FragmentInvInit == Init => FragmentInv
<1>1. <<>> \in Seq(Byte)
    BY EmptySeq
<1> QED
    BY <1>1, NothingSent
    DEF Init, FragmentInv, Types, Sending, BufferHoldsWhatWasSent, Phases

LEMMA FragmentInvIsInvariant == ASSUME NoResets PROVE Spec => []FragmentInv
<1>1. FragmentInv /\ [Next]_vars => FragmentInv'
    BY FragmentInvHolds
<1> QED
    BY <1>1, FragmentInvInit, PTL DEF Spec

\* However a message is cut into fragments, and whatever the card and the
\* client do, the server has collected exactly what was sent of the message
\* under way and nothing of an earlier one (isMessageComplete, l.85-104).
THEOREM ReassemblyHolds == ASSUME NoResets PROVE Spec => []Reassembly
<1>1. FragmentInv => Reassembly
    <2>1. SUFFICES ASSUME FragmentInv PROVE Reassembly
        OBVIOUS
    <2>2. Len(message) \in Nat /\ Len(<<>>) = 0
        BY LenProperties, EmptySeq DEF FragmentInv, Types
    <2>3. sent \in 0 .. Len(message)
        BY <2>1, <2>2 DEF FragmentInv, Sending
    <2>4. DOMAIN Requests = Phases
        BY DEF Requests, Phases
    <2>5. cuts \in 0 .. MaxCuts /\ restarts \in 0 .. MaxRestarts
        <3>1. MaxCuts \in Nat /\ MaxRestarts \in Nat
            BY SimServerAssumption
        <3> QED
            BY <2>1, <3>1 DEF FragmentInv, Types
    <2>6. TypeOK
        BY <2>1, <2>3, <2>4, <2>5 DEF FragmentInv, Types, TypeOK
    <2> QED
        BY <2>1, <2>6 DEF FragmentInv, Reassembly
<1> QED
    BY <1>1, FragmentInvIsInvariant, PTL

-----------------------------------------------------------------------------
(* A session without faults: moreover the card answers and the client      *)
(* keeps to the protocol.                                                  *)

Quiet == NoResets /\ CardFaults = FALSE /\ Disconnects = FALSE

StepIsPhases ==
    \/ phase = "connect"
    \/ phase = "atr" /\ currentStep = 1
    \/ phase = "apdu" /\ currentStep = 2

QuietInv == FragmentInv /\ running = TRUE /\ StepIsPhases

\* Each message is answered with what the modem waits for, and the two stay in
\* step.
LEMMA EndOfMessage ==
    ASSUME Quiet, QuietInv, NEW n \in Nat \ {0}, Transmit(n), ~(sent + n < Len(message))
    PROVE  /\ message[1] = Kind[phase]
           /\ message' = <<>> /\ sent' = 0 /\ phase' = NextPhase[phase]
           /\ running' = running
           /\ currentStep' = IF phase = "connect" THEN 1 ELSE 2
           /\ IsAnswer(response', ExpectedAnswer[phase])
<1>1. FragmentInv /\ message # <<>> /\ CardFaults = FALSE /\ phase \in Phases
    BY DEF Transmit, Quiet, QuietInv, FragmentInv, Types
<1>2. /\ AnswerConnect(message) \/ AnswerATR(message) \/ AnswerAPDU(message)
         \/ RefuseAPDU(message)
      /\ isMessageComplete(message) /\ Printable(message)
    BY <1>1, WholeMessage
<1>6. message[1] = Kind[phase] /\ (phase = "apdu" => CarriesAPDU(message))
    BY <1>1, RequestsOfPhase DEF Quiet, FragmentInv, Sending
<1>7. StepFor(message) = CASE phase = "connect" -> 0 [] phase = "atr" -> 1 [] phase = "apdu" -> 2
    BY <1>1, <1>6
    DEF StepFor, QuietInv, StepIsPhases, Kind, Phases, CONNECT_REQ, TRANSFER_ATR_REQ,
        TRANSFER_APDU_REQ
<1>8. ~RefuseAPDU(message)
    BY <1>1, <1>6, <1>7 DEF RefuseAPDU, Phases
<1>9. /\ IsAnswer(response', ExpectedAnswer[phase])
      /\ currentStep' = IF phase = "connect" THEN 1 ELSE 2
      /\ running' = running
    <2>1. CASE AnswerConnect(message)
        <3>1. phase = "connect"
            BY <1>1, <1>7, <2>1 DEF AnswerConnect, Phases
        <3> QED
            BY <2>1, <3>1, AnswerKinds DEF AnswerConnect, Return, advanceStep, ExpectedAnswer
    <2>2. CASE AnswerATR(message)
        <3>1. phase = "atr"
            BY <1>1, <1>7, <2>2 DEF AnswerATR, Phases
        <3> QED
            BY <2>2, <3>1, AnswerKinds DEF AnswerATR, Return, advanceStep, ExpectedAnswer
    <2>3. CASE AnswerAPDU(message)
        <3>1. phase = "apdu"
            BY <1>1, <1>7, <2>3 DEF AnswerAPDU, Phases
        <3>2. /\ \E a \in CardAnswers : response' = generateTRANSFER_APDU_RESP(a)
              /\ currentStep' = 2 /\ running' = running
            BY <2>3 DEF AnswerAPDU, Return, advanceStep
        <3> QED
            BY <3>1, <3>2, AnswerKinds DEF ExpectedAnswer
    <2> QED
        BY <1>2, <1>8, <2>1, <2>2, <2>3
<1>10. response' # <<>> /\ response'[1] = ExpectedAnswer[phase]
    BY <1>9 DEF IsAnswer
<1> QED
    BY <1>1, <1>6, <1>9, <1>10, FragmentJoins

LEMMA QuietInvHolds ==
    ASSUME Quiet, QuietInv, [Next]_vars
    PROVE  QuietInv'
<1>1. FragmentInv'
    BY FragmentInvHolds DEF Quiet, QuietInv
<1>2. CASE UNCHANGED vars
    BY <1>1, <1>2 DEF QuietInv, StepIsPhases, vars, serverVars, modemVars
<1>3. CASE Send
    BY <1>1, <1>3 DEF Send, QuietInv, StepIsPhases
<1>4. ASSUME NEW n \in 1 .. Len(message) - sent, Transmit(n) PROVE QuietInv'
    <2>1. n \in Nat \ {0}
        <3>1. message \in Seq(Byte) /\ sent \in Nat
            BY <1>4 DEF Transmit, QuietInv, FragmentInv, Types, Sending
        <3> QED
            BY <3>1, LenProperties
    <2>2. FragmentInv
        BY DEF QuietInv
    <2>3. CASE sent + n < Len(message)
        <3>1. phase' = phase /\ UNCHANGED <<currentStep, running>>
            BY <1>4, <2>1, <2>2, <2>3, FragmentJoins, PartOfMessage
        <3> QED
            BY <1>1, <3>1 DEF QuietInv, StepIsPhases
    <2>4. CASE ~(sent + n < Len(message))
        <3>1. /\ phase' = NextPhase[phase] /\ running' = running
              /\ currentStep' = IF phase = "connect" THEN 1 ELSE 2
            BY <1>4, <2>1, <2>4, EndOfMessage
        <3> QED
            BY <1>1, <3>1 DEF NextPhase, QuietInv, FragmentInv, Types, Phases, StepIsPhases
    <2> QED
        BY <2>3, <2>4
<1>5. ~Cut /\ ~Restart
    BY DEF Cut, Restart, Quiet, NoResets, QuietInv, FragmentInv, Types
<1> QED
    BY <1>2, <1>3, <1>4, <1>5 DEF Next

LEMMA QuietInvIsInvariant == ASSUME Quiet PROVE Spec => []QuietInv
<1>1. Init => QuietInv
    BY FragmentInvInit DEF Init, QuietInv, StepIsPhases
<1>2. QuietInv /\ [Next]_vars => QuietInv'
    BY QuietInvHolds
<1> QED
    BY <1>1, <1>2, PTL DEF Spec

\* No client that keeps to the protocol, with a card that answers, ends the
\* server, however long its commands are and however they are cut
\* (printMessage, extractAPDU_REQ and transmit, l.121-136, 178-184, 268).
THEOREM ServerNeverRaises == ASSUME Quiet PROVE Spec => []NeverRaises
<1>1. QuietInv => NeverRaises
    BY DEF QuietInv, NeverRaises
<1> QED
    BY <1>1, QuietInvIsInvariant, PTL

\* The steps of Server.process, fragment by fragment, are the answers of
\* SapSession or do not show in it.
THEOREM ServerImplementsSession ==
    ASSUME Quiet PROVE Spec => ImplementsSession
<1>1. Init => Session!Init
    BY DEF Init, Session!Init, Session!None
<1>2. ASSUME QuietInv, [Next]_vars PROVE [Session!Next]_(Session!vars)
    <2> DEFINE session == CASE currentStep = 0 -> "closed" [] currentStep = 1 -> "opened"
                            [] currentStep = 2 -> "ready"
               request == IF message = <<>> THEN -1 ELSE message[1]
               reply == IF response = <<>> THEN -1 ELSE response[1]
    <2>1. CASE UNCHANGED vars
        BY <2>1 DEF vars, serverVars, modemVars, Session!vars
    <2>2. CASE Send
        <3>1. PICK p \in {phase, "connect"} : phase' = p /\ message' \in Requests[p]
            BY <2>2 DEF Send
        <3>2. /\ p \in Phases
              /\ \/ p = "connect"
                 \/ p = "atr" /\ currentStep = 1
                 \/ p = "apdu" /\ currentStep = 2
            <4>1. CASE p = "connect"
                BY <4>1 DEF Phases
            <4>2. CASE p = phase
                BY <1>2, <4>2 DEF QuietInv, StepIsPhases, Phases
            <4> QED
                BY <3>1, <4>1, <4>2
        <3>3. message' # <<>> /\ message'[1] = Kind[p]
            BY <3>1, <3>2, RequestsAreMessages, RequestsOfPhase DEF Quiet
        <3>4. message = <<>> /\ response' = <<>> /\ currentStep' = currentStep
              /\ currentStep \in 0 .. 2
            BY <1>2, <2>2 DEF Send, QuietInv, FragmentInv, Types
        <3>5. request = -1 /\ request' = Kind[p] /\ reply' = -1 /\ session' = session
            BY <3>3, <3>4
        <3>6. Kind[p] \in Session!Allowed[session]
            <4>1. session \in {"closed", "opened", "ready"}
                BY <3>4
            <4>2. Session!Allowed[session] =
                    CASE session = "closed" -> {Session!CONNECT_REQ}
                      [] session = "opened" -> {Session!CONNECT_REQ, Session!TRANSFER_ATR_REQ}
                      [] session = "ready"  -> {Session!CONNECT_REQ, Session!TRANSFER_APDU_REQ}
                BY <4>1 DEF Session!Allowed
            <4>3. p = "atr" => session = "opened"
                BY <3>2
            <4>4. p = "apdu" => session = "ready"
                BY <3>2
            <4> HIDE DEF session
            <4> QED
                BY <3>2, <4>1, <4>2, <4>3, <4>4
                DEF Kind, Phases, CONNECT_REQ, TRANSFER_ATR_REQ, TRANSFER_APDU_REQ,
                    Session!CONNECT_REQ, Session!TRANSFER_ATR_REQ, Session!TRANSFER_APDU_REQ
        <3>7. Session!Request(Kind[p])
            BY <3>5, <3>6 DEF Session!Request, Session!None
        <3>8. Kind[p] \in Session!Kinds
            BY <3>2 DEF Session!Kinds, Kind, Phases, CONNECT_REQ, TRANSFER_ATR_REQ, TRANSFER_APDU_REQ,
                    Session!CONNECT_REQ, Session!TRANSFER_ATR_REQ, Session!TRANSFER_APDU_REQ
        <3> QED
            BY <3>7, <3>8 DEF Session!Next
    <2>3. ASSUME NEW n \in 1 .. Len(message) - sent, Transmit(n)
          PROVE  [Session!Next]_(Session!vars)
        <3>1. /\ FragmentInv /\ message # <<>> /\ sent \in Nat /\ message \in Seq(Byte)
              /\ response = <<>> /\ phase \in Phases
            BY <1>2, <2>3 DEF Transmit, QuietInv, FragmentInv, Types, Sending
        <3>2. n \in Nat \ {0}
            BY <3>1, LenProperties
        <3>3. CASE sent + n < Len(message)
            <4>1. message' = message /\ response' = response /\ currentStep' = currentStep
                BY <2>3, <3>1, <3>2, <3>3, FragmentJoins, PartOfMessage
            <4> QED
                BY <4>1 DEF Session!vars
        <3>4. CASE ~(sent + n < Len(message))
            <4>1. /\ message[1] = Kind[phase] /\ message' = <<>>
                  /\ currentStep' = IF phase = "connect" THEN 1 ELSE 2
                  /\ IsAnswer(response', ExpectedAnswer[phase])
                BY <1>2, <2>3, <3>2, <3>4, EndOfMessage
            <4>2. /\ request = Kind[phase] /\ request' = -1 /\ reply' = ExpectedAnswer[phase]
                  /\ session' = IF phase = "connect" THEN "opened" ELSE "ready"
                BY <3>1, <4>1 DEF IsAnswer
            <4>3. /\ Kind[phase] # -1 /\ Session!Answer[Kind[phase]] = ExpectedAnswer[phase]
                  /\ Session!After(Kind[phase]) = IF phase = "connect" THEN "opened" ELSE "ready"
                BY <3>1
                DEF Session!Answer, Session!After, Session!Kinds, Kind, Phases, ExpectedAnswer,
                    CONNECT_REQ, TRANSFER_ATR_REQ, TRANSFER_APDU_REQ,
                    STATUS_IND, TRANSFER_ATR_RESP, TRANSFER_APDU_RESP,
                    Session!CONNECT_REQ, Session!TRANSFER_ATR_REQ, Session!TRANSFER_APDU_REQ,
                    Session!STATUS_IND, Session!TRANSFER_ATR_RESP, Session!TRANSFER_APDU_RESP
            <4>4. Session!Reply
                BY <4>2, <4>3 DEF Session!Reply, Session!None
            <4> QED
                BY <4>4 DEF Session!Next
        <3> QED
            BY <3>3, <3>4
    <2>4. ~Cut /\ ~Restart
        BY <1>2 DEF Cut, Restart, Quiet, NoResets, QuietInv, FragmentInv, Types
    <2> QED
        BY <1>2, <2>1, <2>2, <2>3, <2>4 DEF Next
<1>3. QuietInv /\ [Next]_vars => [Session!Next]_(Session!vars)
    BY <1>2
<1> QED
    BY <1>1, <1>3, QuietInvIsInvariant, PTL DEF Spec, ImplementsSession, Session!Spec

-----------------------------------------------------------------------------
(* The steps of the server and the phases of the modem, with resets,       *)
(* restarts and faults: when a message is complete does not matter for     *)
(* them, what the server answers says which step it is in.                 *)

StepOfPhase ==
    message = <<>> /\ restarts = 0 =>
        \/ phase = "connect"
        \/ phase = "atr" /\ currentStep = 1
        \/ phase = "apdu" /\ currentStep = 2

StepInv == phase \in Phases /\ restarts \in Nat /\ StepOfPhase

\* An answer of some kind, and the step after it.
LEMMA Answered ==
    ASSUME NEW fragment, process(fragment)
    PROVE  \/ response' = <<>>
           \/ response'[1] = STATUS_IND /\ currentStep' = 1
           \/ response'[1] \in {TRANSFER_ATR_RESP, TRANSFER_APDU_RESP} /\ currentStep' = 2
<1> DEFINE m == buffer \o fragment
<1> HIDE DEF m
<1>1. \/ Incomplete(m) \/ Unprintable(m) \/ AnswerConnect(m)
      \/ AnswerATR(m) \/ AnswerAPDU(m) \/ RefuseAPDU(m)
    BY DEF process, m
<1>2. CASE Incomplete(m) \/ Unprintable(m) \/ RefuseAPDU(m)
    BY <1>2 DEF Incomplete, Unprintable, RefuseAPDU, Raise
<1>3. CASE AnswerConnect(m)
    <2>1. response' = generateSTATUS_IND /\ currentStep' = 1
        BY <1>3 DEF AnswerConnect, Return, advanceStep
    <2> QED
        BY <2>1, AnswerKinds DEF IsAnswer
<1>4. CASE AnswerATR(m)
    <2>1. response' = generateTRANSFER_ATR_RESP(AtrBytes) /\ currentStep' = 2
        BY <1>4 DEF AnswerATR, Return, advanceStep
    <2> QED
        BY <2>1, AnswerKinds DEF IsAnswer
<1>5. CASE AnswerAPDU(m)
    <2>1. currentStep' = 2
          /\ \E a \in CardAnswers : response' = generateTRANSFER_APDU_RESP(a)
        BY <1>5 DEF AnswerAPDU, Return, advanceStep
    <2> QED
        BY <2>1, AnswerKinds DEF IsAnswer
<1> QED
    BY <1>1, <1>2, <1>3, <1>4, <1>5

LEMMA StepKept ==
    ASSUME StepInv, [Next]_vars
    PROVE  StepInv'
<1>1. CASE UNCHANGED vars
    BY <1>1 DEF StepInv, StepOfPhase, vars, serverVars, modemVars
<1>2. CASE Send
    <2>1. PICK p \in {phase, "connect"} : phase' = p /\ message' \in Requests[p]
        BY <1>2 DEF Send
    <2>2. p \in Phases /\ restarts' = restarts
        BY <1>2, <2>1 DEF Send, StepInv, Phases
    <2>3. message' # <<>>
        BY <2>1, <2>2, RequestsAreMessages
    <2> QED
        BY <2>1, <2>2, <2>3 DEF StepInv, StepOfPhase
<1>3. ASSUME NEW n \in 1 .. Len(message) - sent, Transmit(n) PROVE StepInv'
    <2>1. restarts' = restarts /\ message # <<>>
        BY <1>3 DEF Transmit
    <2>2. CASE sent + n < Len(message)
        BY <1>3, <2>1, <2>2 DEF Transmit, StepInv, StepOfPhase
    <2>3. CASE ~(sent + n < Len(message))
        <3>1. phase' = IF response' # <<>> /\ response'[1] = ExpectedAnswer[phase]
                       THEN NextPhase[phase] ELSE "connect"
            BY <1>3, <2>3 DEF Transmit
        <3>2. \/ response' = <<>>
              \/ response'[1] = STATUS_IND /\ currentStep' = 1
              \/ response'[1] \in {TRANSFER_ATR_RESP, TRANSFER_APDU_RESP} /\ currentStep' = 2
            BY <1>3, Answered DEF Transmit
        <3>3. \/ phase' = "connect"
              \/ phase' = "atr" /\ currentStep' = 1
              \/ phase' = "apdu" /\ currentStep' = 2
            BY <3>1, <3>2
            DEF StepInv, Phases, ExpectedAnswer, NextPhase, STATUS_IND, TRANSFER_ATR_RESP,
                TRANSFER_APDU_RESP
        <3> QED
            BY <2>1, <3>3 DEF StepInv, StepOfPhase, Phases
    <2> QED
        BY <2>2, <2>3
<1>4. CASE Cut
    BY <1>4 DEF Cut, StepInv, StepOfPhase, Phases
<1>5. CASE Restart
    BY <1>5 DEF Restart, modemVars, StepInv, StepOfPhase
<1> QED
    BY <1>1, <1>2, <1>3, <1>4, <1>5 DEF Next

\* Neither stale bytes of a modem that was reset nor exceptions, a card that
\* fails or fragments of any size put the step the server counts out of line
\* with the request the modem makes next (process, l.231-277).
THEOREM StepsAgree == Spec => []StepMatchesPhase
<1>1. Init => StepInv
    BY DEF Init, StepInv, StepOfPhase, Phases
<1>2. StepInv /\ [Next]_vars => StepInv'
    BY StepKept
<1>3. StepInv => StepMatchesPhase
    BY DEF StepInv, StepOfPhase, StepMatchesPhase
<1> QED
    BY <1>1, <1>2, <1>3, PTL DEF Spec
=============================================================================
