--------------------------- MODULE SimRelayProofs ---------------------------
(***************************************************************************)
(* Proofs about SimRelay, for any number of chunks, crashes and restarts.  *)
(***************************************************************************)
EXTENDS SimRelay, TLAPS

-----------------------------------------------------------------------------
(* Facts about sequences.                                                  *)

\* Appending an element of the right kind gives a longer sequence with the
\* old elements in their places and the new one at the end.
LEMMA AppendFacts ==
    ASSUME NEW S, NEW s \in Seq(S), NEW e \in S
    PROVE  /\ Append(s, e) \in Seq(S)
           /\ Append(s, e) # <<>>
           /\ Len(Append(s, e)) = Len(s) + 1
           /\ Append(s, e)[Len(s) + 1] = e
           /\ \A i \in 1 .. Len(s) : Append(s, e)[i] = s[i]
OBVIOUS

\* Dropping the head of a sequence shifts the others.
LEMMA TailFacts ==
    ASSUME NEW S, NEW s \in Seq(S), s # <<>>
    PROVE  /\ Tail(s) \in Seq(S)
           /\ Head(s) \in S
           /\ Head(s) = s[1]
           /\ Len(s) \in Nat \ {0}
           /\ Len(Tail(s)) = Len(s) - 1
           /\ \A i \in 1 .. Len(Tail(s)) : Tail(s)[i] = s[i + 1]
OBVIOUS

\* A piece of a sequence is a sequence of the same elements.
LEMMA SubSeqFacts ==
    ASSUME NEW S, NEW s \in Seq(S), NEW m \in 1 .. Len(s) + 1, NEW n \in 0 .. Len(s)
    PROVE  /\ SubSeq(s, m, n) \in Seq(S)
           /\ m <= n => SubSeq(s, m, n) # <<>>
OBVIOUS

\* A sequence whose elements are in a set stays one when the set grows.
LEMMA SeqMonotonic ==
    ASSUME NEW S, NEW T, S \subseteq T, NEW s \in Seq(S)
    PROVE  s \in Seq(T)
OBVIOUS

\* The elements of a sequence.
LEMMA Elements ==
    ASSUME NEW S, NEW s \in Seq(S)
    PROVE  Len(s) \in Nat /\ \A i \in 1 .. Len(s) : s[i] \in S
OBVIOUS

-----------------------------------------------------------------------------
(* The inductive invariant.                                                *)

\* A call that processAPDU serves is in exactly one place: in reqQueue, in
\* respQueue or with the worker; and of a request the worker waits for, at
\* most one copy is on the wire, in the server or on its way back.
OnePlace ==
    /\ worker = "get" =>
           /\ zreq = <<>> /\ zrep = NoResponse /\ ~InServer
           /\ reqQueue = <<>> \/ respQueue = <<>>
           /\ Len(reqQueue) <= 1 /\ Len(respQueue) <= 1
    /\ worker = "recv" =>
           /\ serving # 0 /\ reqQueue = <<>> /\ respQueue = <<>>
           /\ zreq # <<>> => zrep = NoResponse /\ ~InServer
           /\ InServer => zrep = NoResponse

\* No connection of the future is known to the server.
OldConnections == server.conn <= conn

RepliesMatch ==
    \A i \in 1 .. Len(replies) :
        replies[i].response.to = calls[replies[i].serial]

\* What is written answers calls before the one ofonod waits for.
WrittenBefore ==
    \A i \in 1 .. Len(ttyOut) : current # 0 => ttyOut[i].serial < current

Pipeline == PipelineServesOneCall /\ OnePlace /\ OldConnections

Delivery == RepliesMatch /\ AnswersMatchCalls /\ AnswersInOrder /\ WrittenBefore

IInv == TypeOK /\ Pipeline /\ Delivery

\* Responses made of typed data are responses.
LEMMA ResponseTypes ==
    /\ NoResponse \in Responses
    /\ <<>> \in Data
    /\ \A d \in Data, b \in BOOLEAN : Response(d, b) \in Responses
BY DEF NoResponse, Response, Responses, Data

\* The variables keep their types.
LEMMA TypeStep == TypeOK /\ [Next]_vars => TypeOK'
<1> SUFFICES ASSUME TypeOK, [Next]_vars PROVE TypeOK'
  OBVIOUS
<1>1. CASE ModemWrites
  BY <1>1, SimRelayAssumption
  DEF ModemWrites, TypeOK, Data, ofonodVars, busVars, relayVars, zmqVars, serverVars
<1>2. ASSUME NEW n \in 1 .. ReadMax, hw_event_cb_smart(n) PROVE TypeOK'
  <2>1. /\ ttyIn \in Seq(Nat \ {0}) /\ Len(ttyIn) \in Nat
        /\ n \in 1 .. Len(ttyIn)
        /\ n + 1 \in 1 .. Len(ttyIn) + 1
    BY <1>2, SimRelayAssumption DEF hw_event_cb_smart, TypeOK, Data
  <2>2. /\ SubSeq(ttyIn, 1, n) \in Seq(Nat \ {0})
        /\ SubSeq(ttyIn, 1, n) # <<>>
        /\ SubSeq(ttyIn, n + 1, Len(ttyIn)) \in Seq(Nat \ {0})
    BY <2>1
  <2>3. SubSeq(ttyIn, 1, n) \in Data \ {<<>>} /\ ttyIn' \in Data
    BY <2>2, <1>2 DEF Data, hw_event_cb_smart
  <2>4. /\ calls' \in Seq(Data \ {<<>>})
        /\ Len(calls') = Len(calls) + 1 /\ Len(calls) \in Nat
    <3>1. calls \in Seq(Data \ {<<>>})
      BY DEF TypeOK
    <3>2. calls' = Append(calls, SubSeq(ttyIn, 1, n))
      BY <1>2 DEF hw_event_cb_smart
    <3>3. ASSUME NEW d \in Data \ {<<>>}
          PROVE  /\ Append(calls, d) \in Seq(Data \ {<<>>})
                 /\ Len(Append(calls, d)) = Len(calls) + 1 /\ Len(calls) \in Nat
      BY <3>1, AppendFacts
    <3> QED BY <2>3, <3>2, <3>3
  <2>5. /\ 1 .. Len(calls) \subseteq 1 .. Len(calls')
        /\ Len(calls) + 1 \in 1 .. Len(calls')
    BY <2>4
  <2>6. bus' \in Seq(1 .. Len(calls'))
    <3>1. bus \in Seq(1 .. Len(calls'))
      BY <2>5, SeqMonotonic DEF TypeOK
    <3> QED BY <1>2, <2>5, <3>1, AppendFacts DEF hw_event_cb_smart
  <2>7. ttyOut' \in Seq([serial : 1 .. Len(calls'), to : Data])
    <3>1. [serial : 1 .. Len(calls), to : Data]
              \subseteq [serial : 1 .. Len(calls'), to : Data]
      BY <2>5
    <3>2. ttyOut' = ttyOut /\ ttyOut \in Seq([serial : 1 .. Len(calls), to : Data])
      BY <1>2 DEF hw_event_cb_smart, TypeOK
    <3> QED BY <3>1, <3>2, SeqMonotonic
  <2>8. replies' \in Seq([serial : 1 .. Len(calls'), response : Responses])
    <3>1. [serial : 1 .. Len(calls), response : Responses]
              \subseteq [serial : 1 .. Len(calls'), response : Responses]
      BY <2>5
    <3>2. replies' = replies /\ replies \in Seq([serial : 1 .. Len(calls), response : Responses])
      BY <1>2 DEF hw_event_cb_smart, TypeOK
    <3> QED BY <3>1, <3>2, SeqMonotonic
  <2>9. current' \in {0, Len(calls')} /\ serving' \in 0 .. Len(calls')
    BY <1>2, <2>4 DEF hw_event_cb_smart, TypeOK, relayVars
  <2> QED
    BY <1>2, <2>3, <2>4, <2>6, <2>7, <2>8, <2>9
    DEF hw_event_cb_smart, TypeOK, relayVars, zmqVars, serverVars
<1> USE SimRelayAssumption
    DEF TypeOK, ofonodVars, busVars, relayVars, zmqVars, serverVars
<1>3. CASE smartcard_cb
  <2> USE <1>3 DEF smartcard_cb
  <2> DEFINE reply == Head(replies)
  <2>1. /\ replies' \in Seq([serial : 1 .. Len(calls), response : Responses])
        /\ reply \in [serial : 1 .. Len(calls), response : Responses]
    BY TailFacts
  <2>2. [serial |-> reply.serial, to |-> reply.response.to]
            \in [serial : 1 .. Len(calls), to : Data]
    BY <2>1 DEF Responses
  <2>3. ttyOut' \in Seq([serial : 1 .. Len(calls), to : Data])
    <3>1. ttyOut' \in {ttyOut, Append(ttyOut, [serial |-> reply.serial,
                                               to |-> reply.response.to])}
      OBVIOUS
    <3>2. ASSUME NEW s \in Seq([serial : 1 .. Len(calls), to : Data]),
                 NEW e \in [serial : 1 .. Len(calls), to : Data]
          PROVE  Append(s, e) \in Seq([serial : 1 .. Len(calls), to : Data])
      BY AppendFacts
    <3>3. /\ ttyOut \in Seq([serial : 1 .. Len(calls), to : Data])
          /\ calls' = calls
      OBVIOUS
    <3> HIDE <1>3 DEF smartcard_cb, TypeOK
    <3> QED BY <2>2, <3>1, <3>2, <3>3
  <2>4. current' \in {0, Len(calls)}
    OBVIOUS
  <2> QED BY <2>1, <2>3, <2>4
<1>4. CASE CallTimesOut
  BY <1>4 DEF CallTimesOut
<1>5. CASE processAPDU
  <2> USE <1>5 DEF processAPDU
  <2>1. Head(bus) \in 1 .. Len(calls) /\ bus' \in Seq(1 .. Len(calls))
    BY TailFacts
  <2>2. calls[Head(bus)] \in Data
    BY <2>1
  <2>3. reqQueue' \in Seq(Data)
    BY <2>2, AppendFacts
  <2> QED BY <2>1, <2>3
<1>6. CASE processAPDU_return
  <2> USE <1>6 DEF processAPDU_return
  <2>1. Head(respQueue) \in Responses /\ respQueue' \in Seq(Responses)
    BY TailFacts
  <2>2. [serial |-> serving, response |-> Head(respQueue)]
            \in [serial : 1 .. Len(calls), response : Responses]
    BY <2>1
  <2>3. replies' \in Seq([serial : 1 .. Len(calls), response : Responses])
    BY <2>2, AppendFacts
  <2>4. serving' \in 0 .. Len(calls')
    OBVIOUS
  <2> QED BY <2>1, <2>3, <2>4
<1>7. CASE apduProcessor
  BY <1>7, TailFacts DEF apduProcessor
<1>8. CASE apduProcessor_recv
  BY <1>8, AppendFacts, ResponseTypes DEF apduProcessor_recv
<1>9. CASE RelayRestarts
  <2> USE <1>9 DEF RelayRestarts
  <2>1. current' \in {0, Len(calls')} /\ conn' \in Nat \ {0} /\ serving' \in 0 .. Len(calls')
    OBVIOUS
  <2>2. /\ bus' \in Seq(1 .. Len(calls')) /\ reqQueue' \in Seq(Data)
        /\ respQueue' \in Seq(Responses)
    OBVIOUS
  <2> QED BY <2>1, <2>2, ResponseTypes
<1>10. CASE ServerReceives
  <2>1. server' \in [data : Data, conn : Nat] /\ zreq' \in Data
    BY <1>10, ResponseTypes DEF ServerReceives
  <2> QED BY <1>10, <2>1 DEF ServerReceives
<1>11. ASSUME NEW some \in BOOLEAN, ServerReplies(some) PROVE TypeOK'
  <2>1. zrep' \in Responses
    BY <1>11, ResponseTypes DEF ServerReplies
  <2>2. server' \in [data : Data, conn : Nat]
    BY <1>11, ResponseTypes DEF ServerReplies, Idle
  <2> QED BY <1>11, <2>1, <2>2 DEF ServerReplies
<1>12. CASE ServerCrashes
  <2>1. server' \in [data : Data, conn : Nat] /\ zreq' \in Data
    BY <1>12, ResponseTypes DEF ServerCrashes, Idle
  <2>2. up' \in BOOLEAN
    BY <1>12 DEF ServerCrashes
  <2>3. crashes' \in 0 .. MaxCrashes
    <3>1. crashes \in 0 .. MaxCrashes /\ crashes < MaxCrashes /\ crashes' = crashes + 1
      BY <1>12 DEF ServerCrashes
    <3> QED BY <3>1, SimRelayAssumption
  <2> QED BY <1>12, <2>1, <2>2, <2>3 DEF ServerCrashes
<1>13. CASE ServerRestarts
  BY <1>13 DEF ServerRestarts
<1>14. CASE UNCHANGED vars
  BY <1>14 DEF vars
<1>15. QED
  BY <1>1, <1>2, <1>3, <1>4, <1>5, <1>6, <1>7, <1>8, <1>9, <1>10, <1>11,
     <1>12, <1>13, <1>14 DEF Next

-----------------------------------------------------------------------------
(* The request/response pipeline of the relay.                             *)

\* The data of a call never changes once it is made.
LEMMA CallsGrow ==
    ASSUME TypeOK, [Next]_vars
    PROVE  \A s \in 1 .. Len(calls) : s \in 1 .. Len(calls') /\ calls'[s] = calls[s]
<1>1. calls \in Seq(Data \ {<<>>})
  BY DEF TypeOK
<1>2. calls' = calls \/ \E d : calls' = Append(calls, d)
  BY DEF Next, vars, ModemWrites, hw_event_cb_smart, smartcard_cb, CallTimesOut,
         processAPDU, processAPDU_return, apduProcessor, apduProcessor_recv,
         RelayRestarts, ServerReceives, ServerReplies, ServerCrashes, ServerRestarts,
         ofonodVars, busVars, relayVars, zmqVars, serverVars
<1> QED BY <1>1, <1>2

\* Steps that touch neither the relay nor the wire nor the server.
LEMMA PipelineFrame ==
    ASSUME TypeOK, Pipeline, [Next]_vars,
           UNCHANGED <<relayVars, zmqVars, serverVars>>
    PROVE  Pipeline'
<1>1. serving # 0 => calls'[serving] = calls[serving]
  BY CallsGrow DEF TypeOK
<1>2. UNCHANGED <<serving, reqQueue, respQueue, worker, conn, zreq, zrep, server>>
  BY DEF relayVars, zmqVars, serverVars
<1>3. OnePlace' /\ OldConnections'
  BY <1>2 DEF Pipeline, OnePlace, OldConnections, InServer
<1>4. PipelineServesOneCall'
  BY <1>1, <1>2 DEF Pipeline, PipelineServesOneCall, InServer
<1> QED BY <1>3, <1>4 DEF Pipeline

\* Every step keeps what is in the pipeline the business of one call.
LEMMA PipelineStep == TypeOK /\ Pipeline /\ [Next]_vars => Pipeline'
<1> SUFFICES ASSUME TypeOK, Pipeline, [Next]_vars PROVE Pipeline'
  OBVIOUS
<1> USE DEF Pipeline, PipelineServesOneCall, OnePlace, OldConnections, InServer
<1>a. /\ serving \in 0 .. Len(calls) /\ worker \in {"get", "recv"}
      /\ reqQueue \in Seq(Data) /\ respQueue \in Seq(Responses)
      /\ conn \in Nat \ {0} /\ server.conn \in Nat /\ server \in [data : Data, conn : Nat]
  BY DEF TypeOK
<1>1. CASE ModemWrites
  BY <1>1, PipelineFrame DEF ModemWrites
<1>2. ASSUME NEW n \in 1 .. ReadMax, hw_event_cb_smart(n) PROVE Pipeline'
  BY <1>2, PipelineFrame DEF hw_event_cb_smart
<1>3. CASE smartcard_cb
  BY <1>3, PipelineFrame DEF smartcard_cb
<1>4. CASE CallTimesOut
  BY <1>4, PipelineFrame DEF CallTimesOut
<1>5. CASE processAPDU
  <2>1. /\ serving' # 0 /\ calls' = calls
        /\ reqQueue' = <<calls[serving']>>
        /\ UNCHANGED <<respQueue, worker, conn, zreq, zrep, server>>
    BY <1>5, <1>a DEF processAPDU, TypeOK, ofonodVars, zmqVars, serverVars
  <2> QED BY <2>1, <1>5, <1>a DEF processAPDU
<1>6. CASE processAPDU_return
  BY <1>6, <1>a DEF processAPDU_return, zmqVars, serverVars, ofonodVars
<1>7. CASE apduProcessor
  BY <1>7, <1>a DEF apduProcessor, serverVars, ofonodVars
<1>8. CASE apduProcessor_recv
  BY <1>8, <1>a DEF apduProcessor_recv, serverVars, ofonodVars
<1>9. CASE RelayRestarts
  BY <1>9, <1>a DEF RelayRestarts, serverVars
<1>10. CASE ServerReceives
  BY <1>10, <1>a DEF ServerReceives, ofonodVars, relayVars, Idle
<1>11. ASSUME NEW some \in BOOLEAN, ServerReplies(some) PROVE Pipeline'
  BY <1>11, <1>a DEF ServerReplies, ofonodVars, relayVars, Idle, Response
<1>12. CASE ServerCrashes
  BY <1>12, <1>a DEF ServerCrashes, ofonodVars, relayVars, Idle
<1>13. CASE ServerRestarts
  BY <1>13, PipelineFrame DEF ServerRestarts, zmqVars, ofonodVars, relayVars
<1>14. CASE UNCHANGED vars
  BY <1>14, PipelineFrame DEF vars
<1>15. QED
  BY <1>1, <1>2, <1>3, <1>4, <1>5, <1>6, <1>7, <1>8, <1>9, <1>10, <1>11,
     <1>12, <1>13, <1>14 DEF Next

-----------------------------------------------------------------------------
(* Delivery of the responses.                                              *)

\* Steps that only make calls, or add nothing to replies and ttyOut.
LEMMA DeliveryFrame ==
    ASSUME TypeOK, Delivery, [Next]_vars,
           UNCHANGED <<replies, ttyOut>>,
           current' # current => current' = 0 \/ current' = Len(calls) + 1
    PROVE  Delivery'
<1>1. /\ \A i \in 1 .. Len(replies) : replies[i].serial \in 1 .. Len(calls)
      /\ \A i \in 1 .. Len(ttyOut) : ttyOut[i].serial \in 1 .. Len(calls)
      /\ Len(calls) \in Nat
  <2>1. /\ replies \in Seq([serial : 1 .. Len(calls), response : Responses])
        /\ ttyOut \in Seq([serial : 1 .. Len(calls), to : Data])
        /\ calls \in Seq(Data \ {<<>>})
    BY DEF TypeOK
  <2>2. \A i \in 1 .. Len(replies) :
            replies[i] \in [serial : 1 .. Len(calls), response : Responses]
    BY <2>1, Elements
  <2>3. \A i \in 1 .. Len(ttyOut) : ttyOut[i] \in [serial : 1 .. Len(calls), to : Data]
    BY <2>1, Elements
  <2>4. Len(calls) \in Nat
    BY <2>1, Elements
  <2> QED BY <2>2, <2>3, <2>4
<1>2. RepliesMatch' /\ AnswersMatchCalls'
  BY <1>1, CallsGrow DEF Delivery, RepliesMatch, AnswersMatchCalls
<1>3. AnswersInOrder' /\ WrittenBefore'
  BY <1>1 DEF Delivery, AnswersInOrder, WrittenBefore
<1> QED BY <1>2, <1>3 DEF Delivery

\* Every step keeps the answers, on the bus and written, those of their calls.
LEMMA DeliveryStep == TypeOK /\ Pipeline /\ Delivery /\ [Next]_vars => Delivery'
<1> SUFFICES ASSUME TypeOK, Pipeline, Delivery, [Next]_vars PROVE Delivery'
  OBVIOUS
<1> USE DEF ofonodVars, busVars
<1>1. CASE ModemWrites
  BY <1>1, DeliveryFrame DEF ModemWrites
<1>2. ASSUME NEW n \in 1 .. ReadMax, hw_event_cb_smart(n) PROVE Delivery'
  BY <1>2, DeliveryFrame DEF hw_event_cb_smart
<1>3. CASE smartcard_cb
  <2>1. /\ replies # <<>>
        /\ replies \in Seq([serial : 1 .. Len(calls), response : Responses])
        /\ ttyOut \in Seq([serial : 1 .. Len(calls), to : Data])
        /\ calls' = calls /\ replies' = Tail(replies)
        /\ current \in {0, Len(calls)} /\ Len(calls) \in Nat
    BY <1>3 DEF smartcard_cb, TypeOK
  <2>2. /\ Len(replies) \in Nat \ {0} /\ Head(replies) = replies[1]
        /\ Len(replies') = Len(replies) - 1
        /\ \A i \in 1 .. Len(replies') : replies'[i] = replies[i + 1]
        /\ Head(replies) \in [serial : 1 .. Len(calls), response : Responses]
    BY <2>1, TailFacts
  <2>3. RepliesMatch'
    BY <2>1, <2>2 DEF Delivery, RepliesMatch
  <2>4. CASE ttyOut' = ttyOut
    BY <2>1, <2>3, <2>4, <1>3
    DEF smartcard_cb, Delivery, AnswersMatchCalls, AnswersInOrder, WrittenBefore
  <2>5. CASE ttyOut' # ttyOut
    <3> DEFINE reply == Head(replies)
               entry == [serial |-> reply.serial, to |-> reply.response.to]
    <3>1. /\ reply.serial = current /\ current' = 0
          /\ ttyOut' = Append(ttyOut, entry)
      BY <1>3, <2>5 DEF smartcard_cb
    <3>2. entry \in [serial : 1 .. Len(calls), to : Data]
      BY <2>2 DEF Responses
    <3>3. entry.to = calls[entry.serial] /\ entry.serial = current /\ current # 0
      BY <2>2, <3>1 DEF Delivery, RepliesMatch
    <3> HIDE DEF entry, reply
    <3>4. /\ Len(ttyOut') = Len(ttyOut) + 1 /\ Len(ttyOut) \in Nat
          /\ ttyOut'[Len(ttyOut) + 1] = entry
          /\ \A i \in 1 .. Len(ttyOut) : ttyOut'[i] = ttyOut[i]
      BY <2>1, <3>1, <3>2, AppendFacts
    <3>5. \A i \in 1 .. Len(ttyOut') : i \in 1 .. Len(ttyOut) \/ i = Len(ttyOut) + 1
      BY <3>4
    <3>6. AnswersMatchCalls'
      <4> SUFFICES ASSUME NEW i \in 1 .. Len(ttyOut')
                   PROVE  ttyOut'[i].to = calls[ttyOut'[i].serial]
        BY <2>1 DEF AnswersMatchCalls
      <4>1. CASE i \in 1 .. Len(ttyOut)
        BY <4>1, <3>4 DEF Delivery, AnswersMatchCalls
      <4>2. CASE i = Len(ttyOut) + 1
        BY <4>2, <3>3, <3>4
      <4> QED BY <3>5, <4>1, <4>2
    <3>7. AnswersInOrder'
      <4> SUFFICES ASSUME NEW i \in 1 .. Len(ttyOut'), NEW j \in 1 .. Len(ttyOut'), i < j
                   PROVE  ttyOut'[i].serial < ttyOut'[j].serial
        BY DEF AnswersInOrder
      <4>1. i \in 1 .. Len(ttyOut)
        BY <3>4
      <4>2. CASE j \in 1 .. Len(ttyOut)
        BY <4>1, <4>2, <3>4 DEF Delivery, AnswersInOrder
      <4>3. CASE j = Len(ttyOut) + 1
        BY <4>1, <4>3, <3>3, <3>4 DEF Delivery, WrittenBefore
      <4> QED BY <3>5, <4>2, <4>3
    <3>8. WrittenBefore'
      BY <3>1 DEF WrittenBefore
    <3> QED BY <2>3, <3>6, <3>7, <3>8 DEF Delivery
  <2> QED BY <2>4, <2>5
<1>4. CASE CallTimesOut
  BY <1>4, DeliveryFrame DEF CallTimesOut
<1>5. CASE processAPDU
  BY <1>5, DeliveryFrame DEF processAPDU
<1>6. CASE processAPDU_return
  <2> DEFINE r == [serial |-> serving, response |-> Head(respQueue)]
  <2>1. /\ serving \in 1 .. Len(calls)
        /\ respQueue \in Seq(Responses) /\ respQueue # <<>>
        /\ replies \in Seq([serial : 1 .. Len(calls), response : Responses])
        /\ replies' = Append(replies, r) /\ calls' = calls
        /\ UNCHANGED <<ttyOut, current>>
    BY <1>6 DEF processAPDU_return, TypeOK
  <2>2. /\ Head(respQueue) \in Responses /\ Head(respQueue) = respQueue[1]
        /\ 1 \in 1 .. Len(respQueue)
    BY <2>1, TailFacts
  <2>3. Head(respQueue).to = calls[serving]
    BY <2>1, <2>2 DEF Pipeline, PipelineServesOneCall
  <2>4. /\ r \in [serial : 1 .. Len(calls), response : Responses]
        /\ r.response.to = calls[r.serial]
    BY <2>1, <2>2, <2>3
  <2> HIDE DEF r
  <2>5. /\ Len(replies') = Len(replies) + 1 /\ Len(replies) \in Nat
        /\ replies'[Len(replies) + 1] = r
        /\ \A i \in 1 .. Len(replies) : replies'[i] = replies[i]
    BY <2>1, <2>4, AppendFacts
  <2>6. RepliesMatch'
    BY <2>1, <2>4, <2>5 DEF Delivery, RepliesMatch
  <2> QED
    BY <2>1, <2>6 DEF Delivery, AnswersMatchCalls, AnswersInOrder, WrittenBefore
<1>7. CASE apduProcessor
  BY <1>7, DeliveryFrame DEF apduProcessor
<1>8. CASE apduProcessor_recv
  BY <1>8, DeliveryFrame DEF apduProcessor_recv
<1>9. CASE RelayRestarts
  BY <1>9, DeliveryFrame DEF RelayRestarts
<1>10. CASE ServerReceives
  BY <1>10, DeliveryFrame DEF ServerReceives
<1>11. ASSUME NEW some \in BOOLEAN, ServerReplies(some) PROVE Delivery'
  BY <1>11, DeliveryFrame DEF ServerReplies
<1>12. CASE ServerCrashes
  BY <1>12, DeliveryFrame DEF ServerCrashes
<1>13. CASE ServerRestarts
  BY <1>13, DeliveryFrame DEF ServerRestarts
<1>14. CASE UNCHANGED vars
  BY <1>14, DeliveryFrame DEF vars
<1>15. QED
  BY <1>1, <1>2, <1>3, <1>4, <1>5, <1>6, <1>7, <1>8, <1>9, <1>10, <1>11,
     <1>12, <1>13, <1>14 DEF Next

-----------------------------------------------------------------------------
(* The theorems.                                                           *)

\* The invariant holds when all processes have just been started.
LEMMA InitInvariant == Init => IInv
<1> SUFFICES ASSUME Init PROVE IInv
  OBVIOUS
<1> USE DEF Init, Idle, NoResponse, Response
<1>1. TypeOK
  BY SimRelayAssumption, ResponseTypes DEF TypeOK
<1>2. Pipeline
  BY DEF Pipeline, PipelineServesOneCall, OnePlace, OldConnections, InServer
<1>3. Delivery
  BY DEF Delivery, RepliesMatch, AnswersMatchCalls, AnswersInOrder, WrittenBefore
<1> QED BY <1>1, <1>2, <1>3 DEF IInv

\* The inductive invariant holds of every reachable state.
THEOREM Invariance == Spec => []IInv
<1>1. IInv /\ [Next]_vars => IInv'
  BY TypeStep, PipelineStep, DeliveryStep DEF IInv
<1> QED BY <1>1, InitInvariant, PTL DEF Spec

\* Every variable of the relay path keeps its type.
THEOREM TypeCorrect == Spec => []TypeOK
<1>1. IInv => TypeOK
  BY DEF IInv
<1> QED BY <1>1, Invariance, PTL

\* The relay's two queues never mix up requests and responses, whatever fails
\* or restarts and however many calls are made (dbusrelaynet.py:76-104).
THEOREM OneCallInPipeline == Spec => []PipelineServesOneCall
<1>1. IInv => PipelineServesOneCall
  BY DEF IInv, Pipeline
<1> QED BY <1>1, Invariance, PTL

\* What is written to the modem answers what was read for the same call
\* (telit.c:180-290).
THEOREM MatchingAnswers == Spec => []AnswersMatchCalls
<1>1. IInv => AnswersMatchCalls
  BY DEF IInv, Delivery
<1> QED BY <1>1, Invariance, PTL

\* The modem gets its answers in the order of its requests, none twice.
THEOREM OrderedAnswers == Spec => []AnswersInOrder
<1>1. IInv => AnswersInOrder
  BY DEF IInv, Delivery
<1> QED BY <1>1, Invariance, PTL

\* An answer reaches the modem only while its call is waited for.
THEOREM NoAnswerTooLate == Spec => NoLateAnswer
<1>1. ASSUME IInv, [Next]_vars, ttyOut' # ttyOut
      PROVE  /\ current # 0 /\ Len(ttyOut') = Len(ttyOut) + 1
             /\ ttyOut'[Len(ttyOut')].serial = current
  <2>1. smartcard_cb
    BY <1>1 DEF Next, vars, ModemWrites, hw_event_cb_smart, CallTimesOut,
         processAPDU, processAPDU_return, apduProcessor, apduProcessor_recv,
         RelayRestarts, ServerReceives, ServerReplies, ServerCrashes, ServerRestarts,
         ofonodVars, busVars, relayVars, zmqVars, serverVars
  <2>2. /\ Head(replies) \in [serial : 1 .. Len(calls), response : Responses]
        /\ ttyOut \in Seq([serial : 1 .. Len(calls), to : Data])
    BY <2>1, <1>1, TailFacts DEF IInv, TypeOK, smartcard_cb
  <2> DEFINE entry == [serial |-> Head(replies).serial,
                       to |-> Head(replies).response.to]
  <2>3. /\ ttyOut' = Append(ttyOut, entry) /\ Head(replies).serial = current
        /\ entry.serial = current
    BY <2>1, <1>1 DEF smartcard_cb
  <2>4. current # 0 /\ entry \in [serial : 1 .. Len(calls), to : Data]
    BY <2>2, <2>3 DEF Responses
  <2> HIDE DEF entry
  <2> QED BY <2>2, <2>3, <2>4, AppendFacts
<1>2. IInv /\ [Next]_vars =>
          [ttyOut' # ttyOut => current # 0 /\ Len(ttyOut') = Len(ttyOut) + 1
               /\ ttyOut'[Len(ttyOut')].serial = current]_vars
  BY <1>1
<1> QED BY <1>2, Invariance, PTL DEF Spec, NoLateAnswer

\* A request lost with the server blocks the relay until the relay itself is
\* restarted (dbusrelaynet.py:98-104).
THEOREM LostForGood == Spec => LostRequestBlocksRelay
<1>1. ASSUME IInv, [Next]_vars, Lost, conn' = conn
      PROVE  Lost' /\ serving' = serving
  BY <1>1 DEF IInv, TypeOK, Pipeline, PipelineServesOneCall, OnePlace, Lost, InServer, Idle,
         Next, vars, ModemWrites, hw_event_cb_smart, smartcard_cb, CallTimesOut,
         processAPDU, processAPDU_return, apduProcessor, apduProcessor_recv,
         RelayRestarts, ServerReceives, ServerReplies, ServerCrashes, ServerRestarts,
         ofonodVars, busVars, relayVars, zmqVars, serverVars
<1>2. IInv /\ [Next]_vars =>
          [Lost /\ conn' = conn => Lost' /\ serving' = serving]_vars
  BY <1>1
<1> QED BY <1>2, Invariance, PTL DEF Spec, LostRequestBlocksRelay

-----------------------------------------------------------------------------
(* Refinement.                                                             *)

Taken == IF current = 0 THEN <<>> ELSE calls[current]
Answers == [i \in 1 .. Len(ttyOut) |-> ttyOut[i].to]

\* Steps that neither read, nor write, nor end a call change nothing the link
\* shows.
LEMMA LinkFrame ==
    ASSUME IInv, [Next]_vars, UNCHANGED <<ttyIn, ttyOut, current>>
    PROVE  UNCHANGED <<ttyIn, Taken, Answers>>
<1>1. calls \in Seq(Data \ {<<>>}) /\ current \in {0, Len(calls)} /\ TypeOK
  BY DEF IInv, TypeOK
<1>2. current # 0 => current \in 1 .. Len(calls)
  BY <1>1
<1>3. current # 0 => calls'[current] = calls[current]
  BY <1>1, <1>2, CallsGrow
<1> QED BY <1>3 DEF Taken, Answers

\* Ending a call without an answer.
LEMMA LinkGivesUp ==
    ASSUME IInv, current # 0, current' = 0, UNCHANGED <<ttyIn, ttyOut>>
    PROVE  Link!GiveUp
<1>1. calls \in Seq(Data \ {<<>>}) /\ current = Len(calls)
  BY DEF IInv, TypeOK
<1>2. calls[current] # <<>>
  BY <1>1, Elements
<1> QED BY <1>2 DEF Link!GiveUp

\* Every step of the path is a step of the link, or one it does not see.
LEMMA LinkStep == IInv /\ [Next]_vars => [Link!Next]_(Link!vars)
<1> SUFFICES ASSUME IInv, [Next]_vars PROVE Link!Next \/ UNCHANGED Link!vars
  OBVIOUS
<1>0. UNCHANGED <<ttyIn, Taken, Answers>> => UNCHANGED Link!vars
  BY DEF Link!vars, Taken, Answers
<1>1. CASE ModemWrites
  <2>1. written + 1 \in 1 .. MaxChunks
    BY <1>1, SimRelayAssumption DEF ModemWrites, IInv, TypeOK
  <2>2. Link!Write(written + 1)
    BY <1>1 DEF ModemWrites, Link!Write, ofonodVars, busVars
  <2> QED BY <2>1, <2>2 DEF Link!Next
<1>2. ASSUME NEW n \in 1 .. ReadMax, hw_event_cb_smart(n) PROVE Link!Next
  <2>1. calls' = Append(calls, SubSeq(ttyIn, 1, n)) /\ calls \in Seq(Data \ {<<>>})
    BY <1>2 DEF hw_event_cb_smart, IInv, TypeOK
  <2>2. calls'[Len(calls) + 1] = SubSeq(ttyIn, 1, n) /\ Len(calls) + 1 # 0
    BY <2>1
  <2>3. Link!Take(n)
    BY <1>2, <2>2 DEF hw_event_cb_smart, Link!Take
  <2> QED BY <2>3 DEF Link!Next
<1>3. CASE smartcard_cb
  <2>1. /\ Head(replies) \in [serial : 1 .. Len(calls), response : Responses]
        /\ ttyOut \in Seq([serial : 1 .. Len(calls), to : Data])
        /\ replies # <<>> /\ Head(replies) = replies[1] /\ Len(replies) \in Nat \ {0}
        /\ calls \in Seq(Data \ {<<>>}) /\ calls' = calls /\ ttyIn' = ttyIn
    BY <1>3, TailFacts DEF IInv, TypeOK, smartcard_cb
  <2>2. CASE ttyOut' = ttyOut /\ current' = current
    BY <2>1, <2>2, <1>0, LinkFrame
  <2>3. CASE ttyOut' = ttyOut /\ current' # current
    <3>1. current' = 0
      BY <2>3, <1>3 DEF smartcard_cb
    <3> QED BY <2>1, <2>3, <3>1, LinkGivesUp DEF Link!Next
  <2>4. CASE ttyOut' # ttyOut
    <3> DEFINE entry == [serial |-> Head(replies).serial,
                         to |-> Head(replies).response.to]
    <3>1. /\ ttyOut' = Append(ttyOut, entry)
          /\ Head(replies).serial = current /\ current' = 0
      BY <1>3, <2>4 DEF smartcard_cb
    <3>2. entry \in [serial : 1 .. Len(calls), to : Data]
      BY <2>1 DEF Responses
    <3>3. entry.to = calls[current] /\ current \in 1 .. Len(calls)
      BY <2>1, <3>1 DEF IInv, Delivery, RepliesMatch
    <3>4. calls[current] # <<>>
      BY <2>1, <3>3, Elements
    <3> HIDE DEF entry
    <3>5. Answers' = Append(Answers, calls[current])
      <4>1. /\ Len(ttyOut') = Len(ttyOut) + 1 /\ Len(ttyOut) \in Nat
            /\ ttyOut'[Len(ttyOut) + 1] = entry
            /\ \A i \in 1 .. Len(ttyOut) : ttyOut'[i] = ttyOut[i]
        BY <2>1, <3>1, <3>2, AppendFacts
      <4>2. Answers \in Seq(Data) /\ Len(Answers) = Len(ttyOut)
        <5>1. \A i \in 1 .. Len(ttyOut) : ttyOut[i].to \in Data
          <6>1. \A i \in 1 .. Len(ttyOut) :
                    ttyOut[i] \in [serial : 1 .. Len(calls), to : Data]
            BY <2>1, Elements
          <6> QED BY <6>1
        <5> QED BY <5>1, <4>1 DEF Answers
      <4>3. calls[current] \in Data
        BY <2>1, <3>3
      <4> DEFINE longer == Append(Answers, calls[current])
      <4>4. /\ longer \in Seq(Data) /\ Len(longer) = Len(ttyOut) + 1
            /\ longer[Len(ttyOut) + 1] = calls[current]
            /\ \A i \in 1 .. Len(ttyOut) : longer[i] = Answers[i]
        BY <4>2, <4>3, AppendFacts
      <4> HIDE DEF longer
      <4>5. \A i \in 1 .. Len(ttyOut') : longer[i] = ttyOut'[i].to
        BY <4>1, <4>4, <3>3 DEF Answers
      <4>6. longer = [i \in 1 .. Len(ttyOut') |-> longer[i]]
        BY <4>1, <4>4
      <4> QED BY <4>5, <4>6 DEF longer, Answers
    <3>6. Link!Answer
      BY <2>1, <3>1, <3>3, <3>4, <3>5 DEF Link!Answer, Answers
    <3> QED BY <3>6 DEF Link!Next
  <2> QED BY <2>2, <2>3, <2>4
<1>4. CASE CallTimesOut
  BY <1>4, LinkGivesUp DEF CallTimesOut, Link!Next
<1>5. CASE RelayRestarts
  <2>1. CASE current' = current
    BY <1>5, <2>1, <1>0, LinkFrame DEF RelayRestarts
  <2>2. CASE current' # current
    BY <1>5, <2>2, LinkGivesUp DEF RelayRestarts, Link!Next
  <2> QED BY <2>1, <2>2
<1>6. CASE UNCHANGED <<ttyIn, ttyOut, current>>
  BY <1>6, <1>0, LinkFrame
<1>7. QED
  BY <1>1, <1>2, <1>3, <1>4, <1>5, <1>6
  DEF Next, vars, processAPDU, processAPDU_return, apduProcessor, apduProcessor_recv,
      ServerReceives, ServerReplies, ServerCrashes, ServerRestarts, ofonodVars

\* The path through ofonod, the relay and the server implements the link the
\* modem is promised: answers in order, to the right bytes, never late.
THEOREM Refinement == Spec => ImplementsLink
<1>1. Init => Link!Init
  BY DEF Init, Link!Init
<1> QED BY <1>1, LinkStep, Invariance, PTL DEF Spec, ImplementsLink, Link!Spec

=============================================================================
