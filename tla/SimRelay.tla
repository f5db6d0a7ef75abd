------------------------------ MODULE SimRelay ------------------------------
(***************************************************************************)
(* The WiFi path of the SIM share, from the modem's SAP port to the SIM    *)
(* server and back:                                                        *)
(*                                                                         *)
(*   modem - tty -> ofonod (plugins/telit.c, hw_event_cb_smart)            *)
(*         - D-Bus method call processAPDU ->                              *)
(*         relay main loop (rpi-sim/dbusrelaynet.py, Server.processAPDU)   *)
(*         - reqQueue -> relay worker thread (Server.apduProcessor)        *)
(*         - ZeroMQ REQ/REP -> SIM server (simserver.py, run)              *)
(*                                                                         *)
(* A chunk of the modem's bytes is a number (the order it was written in), *)
(* the data of a call the sequence of chunks one read returned.  What the  *)
(* server makes of the data is the business of module SimServer: here its  *)
(* response says only which data it answers and whether it has any bytes   *)
(* (process() returns [] while its message is incomplete).                 *)
(***************************************************************************)
EXTENDS Integers, Sequences

CONSTANTS
    MaxChunks,      \* bound: chunks the modem writes
    ReadMax,        \* chunks that fit in one read of 300 bytes
    MaxCrashes,     \* bound: ends of the server process
    MaxRestarts     \* bound: restarts of the relay

ASSUME SimRelayAssumption ==
    /\ MaxChunks \in Nat /\ ReadMax \in Nat \ {0}
    /\ MaxCrashes \in Nat /\ MaxRestarts \in Nat

VARIABLES
    written,        \* number of chunks the modem has written
    ttyIn,          \* chunks ofonod has not read yet
    ttyOut,         \* history: [serial, to] of every write to hw_io
    calls,          \* history: data of every processAPDU call; serials 1..
    current,        \* serial ofonod's main loop is blocked on, 0 if none
    bus,            \* calls (serials) not dispatched by the relay yet
    replies,        \* D-Bus replies on their way to ofonod
    serving,        \* serial processAPDU is blocked on, 0 if none
    reqQueue, respQueue,    \* the two Queue.Queue of the relay
    worker,         \* "get": on reqQueue.get(), "recv": on recv_json()
    conn,           \* number of the relay's current ZeroMQ connection
    zreq,           \* request sent, not received by the server (<<>>: none)
    zrep,           \* reply sent, not received by the worker
    server,         \* the request the server is processing, and from whom
    up,             \* is the server process running?
    crashes         \* counter for MaxCrashes

ofonodVars == <<ttyIn, ttyOut, calls, current>>
busVars    == <<bus, replies>>
relayVars  == <<serving, reqQueue, respQueue, worker, conn>>
zmqVars    == <<zreq, zrep>>
serverVars == <<server, up, crashes>>
vars == <<written, ofonodVars, busVars, relayVars, zmqVars, serverVars>>

\* A response: the data it answers, and whether it has bytes to write.
Response(data, some) == [to |-> data, some |-> some]
NoResponse == Response(<<>>, FALSE)

Idle == [data |-> <<>>, conn |-> 0]

Init ==
    /\ written = 0 /\ ttyIn = <<>> /\ ttyOut = <<>>
    /\ calls = <<>> /\ current = 0
    /\ bus = <<>> /\ replies = <<>>
    /\ serving = 0 /\ reqQueue = <<>> /\ respQueue = <<>>
    /\ worker = "get" /\ conn = 1
    /\ zreq = <<>> /\ zrep = NoResponse
    /\ server = Idle /\ up = TRUE /\ crashes = 0

-----------------------------------------------------------------------------
(* The modem and ofonod.                                                   *)

ModemWrites ==
    /\ written < MaxChunks
    /\ written' = written + 1
    /\ ttyIn' = Append(ttyIn, written + 1)
    /\ UNCHANGED <<ttyOut, calls, current, busVars, relayVars, zmqVars, serverVars>>

hw_event_cb_smartReusesSerial(n) ==
    LET serial == IF calls = <<>> THEN 1 ELSE Len(calls) IN
    /\ current = 0
    /\ n <= Len(ttyIn)
    /\ calls' = Append(calls, SubSeq(ttyIn, 1, n))
    /\ ttyIn' = SubSeq(ttyIn, n + 1, Len(ttyIn))
    /\ current' = serial
    /\ bus' = Append(bus, serial)
    /\ UNCHANGED <<written, ttyOut, replies, relayVars, zmqVars, serverVars>>

\* The hw_io watch fires (the main loop is free): read what is there, call
\* processAPDU and block on the answer.
hw_event_cb_smart(n) ==
    /\ current = 0
    /\ n <= Len(ttyIn)
    /\ calls' = Append(calls, SubSeq(ttyIn, 1, n))
    /\ ttyIn' = SubSeq(ttyIn, n + 1, Len(ttyIn))
    /\ current' = Len(calls) + 1
    /\ bus' = Append(bus, Len(calls) + 1)
    /\ UNCHANGED <<written, ttyOut, replies, relayVars, zmqVars, serverVars>>

smartcard_cbAnyReply ==
    /\ replies # <<>>
    /\ replies' = Tail(replies)
    /\ current' = 0
    /\ ttyOut' = Append(ttyOut, [serial |-> Head(replies).serial,
                                 to |-> Head(replies).response.to])
    /\ UNCHANGED <<written, ttyIn, calls, bus, relayVars, zmqVars, serverVars>>

\* libdbus completes the call the reply's serial names; a reply to a call
\* that timed out is dropped.
smartcard_cb ==
    /\ replies # <<>>
    /\ replies' = Tail(replies)
    /\ LET reply == Head(replies) IN
       IF reply.serial = current
       THEN /\ current' = 0
            /\ ttyOut' = IF reply.response.some
                         THEN Append(ttyOut, [serial |-> reply.serial,
                                              to |-> reply.response.to])
                         ELSE ttyOut
       ELSE UNCHANGED <<current, ttyOut>>
    /\ UNCHANGED <<written, ttyIn, calls, bus, relayVars, zmqVars, serverVars>>

CallNeverTimesOut == FALSE

\* No reply within libdbus's default timeout (25 seconds): smartcard_cb gets
\* an error and writes nothing.
CallTimesOut ==
    /\ current # 0
    /\ current' = 0
    /\ UNCHANGED <<written, ttyIn, ttyOut, calls, busVars, relayVars, zmqVars,
                   serverVars>>

-----------------------------------------------------------------------------
(* The relay: its main loop dispatches one method call at a time.          *)

processAPDUConcurrently ==
    /\ bus # <<>>
    /\ serving' = Head(bus)
    /\ bus' = Tail(bus)
    /\ reqQueue' = Append(reqQueue, calls[Head(bus)])
    /\ UNCHANGED <<written, ofonodVars, replies, respQueue, worker, conn, zmqVars,
                   serverVars>>

\* processAPDU up to the blocking respQueue.get().
processAPDU ==
    /\ serving = 0
    /\ bus # <<>>
    /\ serving' = Head(bus)
    /\ bus' = Tail(bus)
    /\ reqQueue' = Append(reqQueue, calls[Head(bus)])
    /\ UNCHANGED <<written, ofonodVars, replies, respQueue, worker, conn, zmqVars,
                   serverVars>>

processAPDU_returnIfAny ==
    /\ serving # 0
    /\ respQueue # <<>> /\ Head(respQueue).some
    /\ replies' = Append(replies, [serial |-> serving, response |-> Head(respQueue)])
    /\ respQueue' = Tail(respQueue)
    /\ serving' = 0
    /\ UNCHANGED <<written, ofonodVars, bus, reqQueue, worker, conn, zmqVars,
                   serverVars>>

\* respQueue.get() returns; processAPDU returns the response.
processAPDU_return ==
    /\ serving # 0
    /\ respQueue # <<>>
    /\ replies' = Append(replies, [serial |-> serving, response |-> Head(respQueue)])
    /\ respQueue' = Tail(respQueue)
    /\ serving' = 0
    /\ UNCHANGED <<written, ofonodVars, bus, reqQueue, worker, conn, zmqVars,
                   serverVars>>

\* The worker takes a request and sends it (send_json does not block).
apduProcessor ==
    /\ worker = "get"
    /\ reqQueue # <<>>
    /\ zreq' = Head(reqQueue)
    /\ reqQueue' = Tail(reqQueue)
    /\ worker' = "recv"
    /\ UNCHANGED <<written, ofonodVars, busVars, serving, respQueue, conn, zrep,
                   serverVars>>

apduProcessor_recvGivesUp ==
    /\ worker = "recv"
    /\ respQueue' = Append(respQueue, zrep)
    /\ zrep' = NoResponse
    /\ worker' = "get"
    /\ UNCHANGED <<written, ofonodVars, busVars, serving, reqQueue, conn, zreq,
                   serverVars>>

\* recv_json() returns; the response goes into respQueue.
apduProcessor_recv ==
    /\ worker = "recv"
    /\ zrep # NoResponse
    /\ respQueue' = Append(respQueue, zrep)
    /\ zrep' = NoResponse
    /\ worker' = "get"
    /\ UNCHANGED <<written, ofonodVars, busVars, serving, reqQueue, conn, zreq,
                   serverVars>>

\* The relay process is ended and started again: its queues and its socket
\* are new; the bus answers a call it had not replied to with an error.
RelayRestarts ==
    /\ conn <= MaxRestarts
    /\ conn' = conn + 1
    /\ bus' = <<>>
    /\ current' = IF \E i \in 1 .. Len(replies) : replies[i].serial = current
                  THEN current ELSE 0
    /\ serving' = 0 /\ reqQueue' = <<>> /\ respQueue' = <<>> /\ worker' = "get"
    /\ zreq' = <<>> /\ zrep' = NoResponse
    /\ UNCHANGED <<written, ttyIn, ttyOut, calls, replies, serverVars>>

-----------------------------------------------------------------------------
(* The server: recv_json, process, send_json.                              *)

ServerReceives ==
    /\ up /\ server = Idle
    /\ zreq # <<>>
    /\ server' = [data |-> zreq, conn |-> conn]
    /\ zreq' = <<>>
    /\ UNCHANGED <<written, ofonodVars, busVars, relayVars, zrep, up, crashes>>

ServerRepliesToAny(some) ==
    /\ up /\ server # Idle
    /\ zrep' = Response(server.data, some)
    /\ server' = Idle
    /\ UNCHANGED <<written, ofonodVars, busVars, relayVars, zreq, up, crashes>>

\* The reply to a connection that is gone is dropped by the REP socket.
ServerReplies(some) ==
    /\ up /\ server # Idle
    /\ zrep' = IF server.conn = conn THEN Response(server.data, some) ELSE zrep
    /\ server' = Idle
    /\ UNCHANGED <<written, ofonodVars, busVars, relayVars, zreq, up, crashes>>

\* process() raises, or the Pi loses its power: the request in hand is lost,
\* and the one on the wire may be.
ServerCrashes ==
    /\ up /\ crashes < MaxCrashes
    /\ up' = FALSE /\ crashes' = crashes + 1
    /\ server' = Idle
    /\ zreq' \in {zreq, <<>>}
    /\ UNCHANGED <<written, ofonodVars, busVars, relayVars, zrep>>

ServerRestarts ==
    /\ ~up
    /\ up' = TRUE
    /\ UNCHANGED <<written, ofonodVars, busVars, relayVars, zmqVars, server, crashes>>

-----------------------------------------------------------------------------

Next ==
    \/ ModemWrites
    \/ \E n \in 1 .. ReadMax : hw_event_cb_smart(n)
    \/ smartcard_cb
    \/ CallTimesOut
    \/ processAPDU
    \/ processAPDU_return
    \/ apduProcessor
    \/ apduProcessor_recv
    \/ RelayRestarts
    \/ ServerReceives
    \/ \E some \in BOOLEAN : ServerReplies(some)
    \/ ServerCrashes
    \/ ServerRestarts

\* Main loops, threads and the D-Bus timer go on; nothing makes the modem
\* write, the server fail, or anybody restart a process.
Fairness ==
    /\ WF_vars(\E n \in 1 .. ReadMax : hw_event_cb_smart(n))
    /\ WF_vars(smartcard_cb)
    /\ WF_vars(CallTimesOut)
    /\ WF_vars(processAPDU)
    /\ WF_vars(processAPDU_return)
    /\ WF_vars(apduProcessor)
    /\ WF_vars(apduProcessor_recv)
    /\ WF_vars(ServerReceives)
    /\ WF_vars(\E some \in BOOLEAN : ServerReplies(some))

Spec == Init /\ [][Next]_vars /\ Fairness

-----------------------------------------------------------------------------
(* Properties.                                                             *)

Data == Seq(Nat \ {0})
Responses == [to : Data, some : BOOLEAN]

TypeOK ==
    /\ written \in 0 .. MaxChunks
    /\ ttyIn \in Data
    /\ calls \in Seq(Data \ {<<>>})
    /\ ttyOut \in Seq([serial : 1 .. Len(calls), to : Data])
    /\ current \in {0, Len(calls)}
    /\ bus \in Seq(1 .. Len(calls))
    /\ replies \in Seq([serial : 1 .. Len(calls), response : Responses])
    /\ serving \in 0 .. Len(calls)
    /\ reqQueue \in Seq(Data) /\ respQueue \in Seq(Responses)
    /\ worker \in {"get", "recv"}
    /\ conn \in Nat \ {0}
    /\ zreq \in Data /\ zrep \in Responses
    /\ server \in [data : Data, conn : Nat]
    /\ up \in BOOLEAN /\ crashes \in 0 .. MaxCrashes

\* The server is processing the request of the relay that runs now.
InServer == server.conn = conn

\* The FIFO pair of queues loses no match between request and response
\* (FIXME of dbusrelaynet.py:83-84): while processAPDU serves a call, what is
\* in the queues, on the wire and in the server belongs to that call; while
\* it serves none, nothing is there.
PipelineServesOneCall ==
    /\ serving = 0 => /\ worker = "get" /\ reqQueue = <<>> /\ respQueue = <<>>
                      /\ zreq = <<>> /\ zrep = NoResponse /\ ~InServer
    /\ serving # 0 =>
           /\ \A i \in 1 .. Len(reqQueue) : reqQueue[i] = calls[serving]
           /\ \A i \in 1 .. Len(respQueue) : respQueue[i].to = calls[serving]
           /\ zreq \in {<<>>, calls[serving]}
           /\ zrep = NoResponse \/ zrep.to = calls[serving]
           /\ InServer => server.data = calls[serving]

\* Whatever ofonod writes to the modem's port answers the very bytes it read
\* for that call (telit.c:259-277, 180-230), across timeouts, server crashes
\* and relay restarts.
AnswersMatchCalls ==
    \A i \in 1 .. Len(ttyOut) : ttyOut[i].to = calls[ttyOut[i].serial]

\* The modem gets its answers in the order of its requests, none twice.
AnswersInOrder ==
    \A i, j \in 1 .. Len(ttyOut) : i < j => ttyOut[i].serial < ttyOut[j].serial

\* An answer is written only while its call is the one ofonod waits for: the
\* answer to a call that timed out never reaches the modem.
NoLateAnswer ==
    [][ttyOut' # ttyOut => current # 0 /\ Len(ttyOut') = Len(ttyOut) + 1
           /\ ttyOut'[Len(ttyOut')].serial = current]_vars

\* The request the worker waits for was lost with the server.
Lost == worker = "recv" /\ zreq = <<>> /\ zrep = NoResponse /\ ~InServer

\* A server that ends with a request in hand blocks the relay for good, even
\* when the server is started again: REQ neither resends nor times out
\* (dbusrelaynet.py:98-104).  Only a restart of the relay helps.
LostRequestBlocksRelay ==
    [][Lost /\ conn' = conn => Lost' /\ serving' = serving]_vars

\* ofonod's main loop always gets out of dbus_pending_call_block, and reads
\* whatever the modem writes, however the rest of the path has failed.
ModemIsRead == ttyIn # <<>> ~> ttyIn = <<>>

\* The relay returns from every call, unless the server is down or took the
\* call's request down with it (dbusrelaynet.py:76-104).
RelayReturns == serving # 0 ~> serving = 0 \/ ~up \/ Lost

\* Neither of the two blocking calls of the path waits for ever.
CallsReturn == ModemIsRead /\ RelayReturns

Link == INSTANCE SimLink WITH
    Chunk <- 1 .. MaxChunks,
    unread <- ttyIn,
    taken <- IF current = 0 THEN <<>> ELSE calls[current],
    answers <- [i \in 1 .. Len(ttyOut) |-> ttyOut[i].to]

\* The path implements the link's promise.
ImplementsLink == Link!Spec

=============================================================================
