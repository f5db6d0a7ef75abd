--------------------------------- MODULE Ppp ---------------------------------
(***************************************************************************)
(* A packet data call of ofono-wifi: the context of src/gprs.c, its driver *)
(* drivers/atmodem/gprs-context.c, and the PPP client gatchat/gatppp.c     *)
(* with its two layers, LCP and IPCP.  The peer sends any packet at any    *)
(* time, only that its answers to our requests are answers to requests     *)
(* sent under the current identifier (ppp_cp.c drops the others).          *)
(***************************************************************************)
EXTENDS PppCp, FiniteSets

VARIABLES
    ppp,            \* GAtPPP, or NoPpp
    io,             \* the channel to the modem: "chat", "ppp" or "gone"
    gcd,            \* gprs_context_data: state and cb
    ctx,            \* pri_context: active and pending
    \* history, of the present GAtPPP
    closing,        \* a shutdown took effect
    reopened,       \* a layer was opened, and negotiated once more
    stray           \* gcd->cb was called before that, with no request for it

vars == <<ppp, io, gcd, ctx, closing, reopened, stray>>

NoPpp == [phase |-> "none"]

Init ==
    /\ ppp = NoPpp /\ io = "chat"
    /\ gcd = [state |-> "IDLE", cb |-> "none"]
    /\ ctx = [active |-> FALSE, pending |-> "none"]
    /\ closing = FALSE /\ reopened = FALSE /\ stray = FALSE

-----------------------------------------------------------------------------
(* GAtPPP: the two layers, the phase, the network interface, whether the   *)
(* peer wants CHAP, a Terminate-Ack not written yet (sta), the idle source *)
(* of ppp_dead; connect is set by an event that calls connect_cb.          *)

ppp_new ==
    [lcp |-> pppcp_new(INITIAL), ipcp |-> pppcp_new(INITIAL), phase |-> "DEAD", net |-> FALSE,
     chap |-> FALSE, sta |-> FALSE, dead |-> FALSE, connect |-> FALSE]

enter_phase(p, phase) ==
    [p EXCEPT !.phase = phase, !.dead = @ \/ (phase = "DEAD" /\ ~p.sta)]

\* What ipcp_down does to the options and to the interface.
ipcp_down(p) == [p EXCEPT !.net = FALSE, !.ipcp.options = "default"]

\* Open, Up, Down and Close of IPCP: of its hooks only Down calls one.
SignalIpcp(p, event) ==
    LET q == [p EXCEPT !.ipcp = generate_event(@, event, "none")]
    IN  IF "TLD" \in Layer(p.ipcp, event) THEN ipcp_down(q) ELSE q

auth_notify(p) == SignalIpcp(SignalIpcp(enter_phase(p, "NETWORK"), "OPEN"), "UP")

lcp_up(p) == IF p.chap THEN enter_phase(p, "AUTHENTICATION") ELSE auth_notify(p)

lcp_downKeepsIpcp(p) == enter_phase(p, "TERMINATION")

lcp_down(p) ==
    enter_phase(IF p.phase \in {"NETWORK", "LINK_UP"} THEN SignalIpcp(p, "DOWN") ELSE p,
                "TERMINATION")

LcpEvent(p, event, answer) ==
    LET q == [p EXCEPT !.lcp = generate_event(@, event, answer),
                       !.sta = @ \/ "STA" \in Transition(p.lcp, event).acts]
    IN  IF "TLU" \in Layer(p.lcp, event) THEN lcp_up(q)
        ELSE IF "TLD" \in Layer(p.lcp, event) THEN lcp_down(q)
        ELSE IF "TLF" \in Layer(p.lcp, event) THEN enter_phase(q, "DEAD") ELSE q

CloseLcp(p) == LcpEvent(p, "CLOSE", "none")

\* ppp_net_new may fail to create the interface.
ipcp_up(p, created) ==
    IF created THEN [enter_phase(p, "LINK_UP") EXCEPT !.net = TRUE, !.connect = TRUE]
    ELSE CloseLcp(p)

ipcp_finished(p) ==
    IF p.phase = "NETWORK" THEN CloseLcp(SignalIpcp(p, "CLOSE")) ELSE p

IpcpEvent(p, event, answer, created) ==
    LET q == [p EXCEPT !.ipcp = generate_event(@, event, answer)]
    IN  IF "TLU" \in Layer(p.ipcp, event) THEN ipcp_up(q, created)
        ELSE IF "TLD" \in Layer(p.ipcp, event) THEN ipcp_down(q)
        ELSE IF "TLF" \in Layer(p.ipcp, event) THEN ipcp_finished(q) ELSE q

-----------------------------------------------------------------------------
(* The context driver, called from GAtPPP and from the core.               *)

\* gcd->cb is called: pri_activate_callback or pri_deactivate_callback.
callback(ok) ==
    /\ stray' = (stray \/ (~reopened' /\ ctx.pending # gcd.cb))
    /\ ctx' = [active |-> IF ok THEN gcd.cb = "activate" ELSE ctx.active, pending |-> "none"]

ppp_connectStaysEnabling == callback(TRUE) /\ UNCHANGED gcd

ppp_connect ==
    /\ gcd' = [gcd EXCEPT !.state = "ACTIVE"]
    /\ callback(TRUE)

deactivatedUnheard == UNCHANGED <<ctx, stray>>

\* ofono_gprs_context_deactivated.
deactivated == ctx' = [ctx EXCEPT !.active = FALSE] /\ UNCHANGED stray

\* The context is reported deactivated when nobody waits for an answer.
ppp_disconnect ==
    /\ ppp' = NoPpp
    /\ gcd' = [gcd EXCEPT !.state = "IDLE"]
    /\ UNCHANGED reopened
    /\ CASE gcd.state = "ENABLING" -> callback(FALSE)
         [] gcd.state = "DISABLING" -> callback(TRUE)
         [] OTHER -> deactivated
    /\ io' = IF io = "ppp" THEN "chat" ELSE io
    /\ closing' = FALSE

\* Was a layer of p opened, and does it negotiate again, or is it down, in q?
Reopens(p, q) ==
    \/ p.lcp.state = OPENED /\ q.lcp.state \in {REQSENT, ACKRCVD, ACKSENT}
    \/ p.ipcp.state = OPENED /\ q.ipcp.state # OPENED /\ q.lcp.state = OPENED

\* GAtPPP goes on as q, telling the driver when the network is up.
Goes(q) ==
    /\ ppp' = [q EXCEPT !.connect = FALSE]
    /\ reopened' = (reopened \/ Reopens(ppp, q))
    /\ IF q.connect THEN ppp_connect ELSE UNCHANGED <<gcd, ctx, stray>>

ppp_dead == ppp # NoPpp /\ ppp.dead /\ ppp_disconnect

\* The channel has written the Terminate-Ack, or is gone.
sta_sent ==
    /\ ppp # NoPpp /\ ppp.sta
    /\ IF ppp.phase = "DEAD" THEN ppp_disconnect
       ELSE /\ ppp' = [ppp EXCEPT !.sta = FALSE]
            /\ UNCHANGED <<io, gcd, ctx, closing, reopened, stray>>

\* SetProperty of Active; the driver sends AT commands before PPP begins.
pri_set_active ==
    /\ io # "gone" /\ ctx.pending = "none" /\ ~ctx.active
    /\ ctx' = [ctx EXCEPT !.pending = "activate"]
    /\ gcd' = [state |-> "ENABLING", cb |-> "activate"]
    /\ UNCHANGED <<ppp, io, closing, reopened, stray>>

at_cgdata_cb(ok) ==
    /\ gcd.state = "ENABLING" /\ ppp = NoPpp /\ io # "gone"
    /\ IF ok
       THEN /\ ppp' = enter_phase(LcpEvent(LcpEvent(ppp_new, "UP", "none"), "OPEN", "none"),
                                  "ESTABLISHMENT")
            /\ io' = "ppp"
            /\ reopened' = FALSE /\ stray' = FALSE
            /\ UNCHANGED <<gcd, ctx>>
       ELSE /\ gcd' = [gcd EXCEPT !.state = "IDLE"]
            /\ reopened' = FALSE
            /\ callback(FALSE)
            /\ UNCHANGED <<ppp, io>>
    /\ UNCHANGED closing

Shuts(p) == p.phase \notin {"DEAD", "TERMINATION"}

g_at_ppp_shutdownOfIpcp(p) == IF Shuts(p) THEN SignalIpcp(p, "CLOSE") ELSE p

g_at_ppp_shutdown(p) == IF Shuts(p) THEN CloseLcp(p) ELSE p

deactivate_primary ==
    /\ ctx.pending = "none" /\ ctx.active /\ ppp # NoPpp
    /\ ctx' = [ctx EXCEPT !.pending = "deactivate"]
    /\ gcd' = [state |-> "DISABLING", cb |-> "deactivate"]
    /\ ppp' = g_at_ppp_shutdown(ppp)
    /\ closing' = (closing \/ Shuts(ppp))
    /\ UNCHANGED <<io, reopened, stray>>

\* The network detaches, or deactivates the context (+CGEV: NW DEACT).
detach_shutdown ==
    /\ ppp # NoPpp /\ gcd.state # "IDLE"
    /\ ppp' = g_at_ppp_shutdown(ppp)
    /\ closing' = (closing \/ Shuts(ppp))
    /\ UNCHANGED <<io, gcd, ctx, reopened, stray>>

-----------------------------------------------------------------------------
(* Packets, timers and the loss of the channel.                            *)

Plain == {"RTR", "RTA", "RXJ_MINUS"}
Received == Plain \cup {"RCR_PLUS", "RCR_MINUS", "RCA", "RCN"}

\* Refused with a Nak or a Reject; with a Reject once there were too many Naks.
Refusals(cp) == IF cp.failures >= MAX_FAILURE THEN {"reject"} ELSE {"nak", "reject"}

process_configure_ackAny(cp, o) == TRUE

\* An Ack of the options o counts only when they are those we ask for now.
process_configure_ack(cp, o) == o = cp.options

\* The options after a Nak or a Reject of one of the requests sent.
Changed(cp) == {cp.options, "changed"}

LcpPacket(event) ==
    /\ ppp.phase # "DEAD"
    /\ UNCHANGED <<io, closing>>
    /\ \/ event \in Plain /\ Goes(LcpEvent(ppp, event, "none"))
       \/ /\ event = "RCR_PLUS" /\ ppp.lcp.failures < MAX_FAILURE
          /\ \E chap \in BOOLEAN :
                Goes(LcpEvent([ppp EXCEPT !.chap = @ \/ chap], event, "none"))
       \/ /\ event = "RCR_MINUS"
          /\ \E answer \in Refusals(ppp.lcp) : Goes(LcpEvent(ppp, event, answer))
       \/ /\ event = "RCA"
          /\ \E o \in ppp.lcp.asked :
                /\ process_configure_ack(ppp.lcp, o)
                /\ Goes(LcpEvent([ppp EXCEPT !.lcp.acked = o], event, "none"))
       \/ /\ event = "RCN" /\ ppp.lcp.asked # {}
          /\ \E o \in Changed(ppp.lcp) :
                Goes(LcpEvent([ppp EXCEPT !.lcp.options = o], event, "none"))

IpcpPacket(created) ==
    /\ ppp.phase \in {"NETWORK", "LINK_UP"}
    /\ UNCHANGED <<io, closing>>
    /\ \/ \E event \in Plain : Goes(IpcpEvent(ppp, event, "none", created))
       \/ Goes(IpcpEvent(ppp, "RCR_PLUS", "none", created))
       \/ Goes(IpcpEvent(ppp, "RCR_MINUS", "reject", created))
       \/ \E o \in ppp.ipcp.asked :
            /\ process_configure_ack(ppp.ipcp, o)
            /\ Goes(IpcpEvent([ppp EXCEPT !.ipcp.acked = o], "RCA", "none", created))
       \/ /\ ppp.ipcp.asked # {}
          /\ \E o \in Changed(ppp.ipcp) :
                Goes(IpcpEvent([ppp EXCEPT !.ipcp.options = o], "RCN", "none", created))

\* Success and Failure of CHAP.
ChapPacket ==
    /\ ppp.chap /\ ppp.phase \in {"AUTHENTICATION", "NETWORK", "LINK_UP"}
    /\ Goes(auth_notify(ppp)) \/ Goes(CloseLcp(ppp))
    /\ UNCHANGED <<io, closing>>

Packet ==
    /\ ppp # NoPpp /\ io = "ppp"
    /\ \/ \E event \in Received : LcpPacket(event)
       \/ \E created \in BOOLEAN : IpcpPacket(created)
       \/ ChapPacket

LcpTimeout ==
    /\ ppp # NoPpp /\ ppp.lcp.timers # <<>>
    /\ Goes(LcpEvent([ppp EXCEPT !.lcp = Expired(@)], TimeoutEvent(ppp.lcp), "none"))
    /\ UNCHANGED <<io, closing>>

IpcpTimeout ==
    /\ ppp # NoPpp /\ ppp.ipcp.timers # <<>>
    /\ Goes(IpcpEvent([ppp EXCEPT !.ipcp = Expired(@)], TimeoutEvent(ppp.ipcp), "none", TRUE))
    /\ UNCHANGED <<io, closing>>

io_disconnect ==
    /\ ppp # NoPpp /\ io = "ppp"
    /\ io' = "gone"
    /\ Goes(IF ppp.phase = "DEAD" THEN ppp ELSE CloseLcp(LcpEvent(ppp, "DOWN", "none")))
    /\ UNCHANGED closing

Next ==
    \/ ppp_dead \/ sta_sent
    \/ pri_set_active \/ (\E ok \in BOOLEAN : at_cgdata_cb(ok))
    \/ deactivate_primary \/ detach_shutdown
    \/ Packet \/ LcpTimeout \/ IpcpTimeout \/ io_disconnect

\* A packet on which LCP starts a timer although one runs (pppcp_start_timer
\* removes the source and adds it again).
LcpRestart ==
    /\ ppp # NoPpp /\ io = "ppp"
    /\ \E event \in Received :
        /\ ppp.lcp.timers # <<>> /\ Transition(ppp.lcp, event).acts \cap {"SCR", "STR", "STA"} # {}
        /\ LcpPacket(event)

\* A timer that runs expires, or the peer has it started again before.
Fairness == WF_vars(ppp_dead \/ sta_sent) /\ WF_vars(LcpTimeout \/ LcpRestart)

Spec == Init /\ [][Next]_vars /\ Fairness

-----------------------------------------------------------------------------
(* Properties.                                                             *)

Requests == {"none", "activate", "deactivate"}
Counters == 0 .. GUINT - 1
Layers(options) ==
    [state : INITIAL .. OPENED, config : Counters, terminate : Counters,
     failures : 0 .. MAX_FAILURE, timers : {<<>>, <<"config">>, <<"terminate">>,
     <<"config", "terminate">>, <<"terminate", "config">>},
     options : options, asked : SUBSET options, acked : options \cup {"none"},
     answer : {"none", "ack", "refusal"}]

\* Types.
TypeOK ==
    /\ ppp \in {NoPpp} \cup
            [lcp : Layers({"default", "changed"}), ipcp : Layers({"default", "changed"}),
             phase : {"ESTABLISHMENT", "AUTHENTICATION", "NETWORK", "LINK_UP", "TERMINATION", "DEAD"},
             net : BOOLEAN, chap : BOOLEAN, sta : BOOLEAN, dead : BOOLEAN, connect : {FALSE}]
    /\ io \in {"chat", "ppp", "gone"}
    /\ gcd \in [state : {"IDLE", "ENABLING", "ACTIVE", "DISABLING"}, cb : Requests]
    /\ ctx \in [active : BOOLEAN, pending : Requests]
    /\ closing \in BOOLEAN /\ reopened \in BOOLEAN /\ stray \in BOOLEAN

\* The network interface exists exactly while IPCP is open, and IPCP leaves its
\* starting states only while LCP is open: whatever closes or renegotiates LCP
\* takes IPCP and the interface down in the same step (lcp_down, ipcp_down).
NetworkNeedsBothLayers ==
    ppp # NoPpp =>
        /\ ppp.net <=> ppp.ipcp.state = OPENED
        /\ ppp.ipcp.state \notin {INITIAL, STARTING} => ppp.lcp.state = OPENED

\* A layer is open only on options the peer acknowledged as we ask for them
\* now, and after our last answer to the peer's requests was an Ack, whatever
\* was retransmitted, refused or renegotiated before (ppp_cp.c).
Agreed(cp) == cp.state = OPENED => cp.acked = cp.options /\ cp.answer = "ack"
OpenOnAgreement == ppp # NoPpp => Agreed(ppp.lcp) /\ Agreed(ppp.ipcp)

\* The restart counters of LCP never run below zero, although a timer that was
\* started for one of them retransmits what the other one counts: LCP gives up
\* after a bounded number of requests without an answer.
LcpCountersDontWrap ==
    ppp # NoPpp => ppp.lcp.config <= MAX_CONFIGURE /\ ppp.lcp.terminate <= MAX_TERMINATE

\* In the dead phase nothing runs any more, and exactly one of the idle source
\* and the unwritten Terminate-Ack will call disconnect_cb (ppp_enter_phase,
\* sta_sent).
DeadIsReportedOnce ==
    ppp # NoPpp /\ (ppp.phase = "DEAD" \/ ppp.dead) =>
        /\ ppp.phase = "DEAD"
        /\ ppp.lcp.timers = <<>> /\ ppp.ipcp.timers = <<>> /\ ~ppp.net
        /\ ppp.dead # ppp.sta

\* A link that is shut down does not come up again under the feet of the
\* caller: connect_cb is not called after g_at_ppp_shutdown took effect.
NeverUpAfterShutdown ==
    [][closing /\ ppp # NoPpp /\ ppp' # NoPpp => ~(~ppp.net /\ ppp'.net)]_vars

\* Each request of the core is answered exactly once, by its own callback:
\* gcd->cb is never called without a request, or for another one (unless a
\* layer was renegotiated: then ppp_connect calls the last callback again).
OneAnswerEach == ~stray

\* An active context has its PPP link, so that deactivation finds one to shut
\* down (at_gprs_deactivate_primary does not look).
ActiveHasLink == ctx.active => ppp # NoPpp

\* The call as a whole: layers, interface, counters and the context agree.
LinkIsConsistent == TypeOK /\ NetworkNeedsBothLayers /\ LcpCountersDontWrap /\ ActiveHasLink

\* Every end of a link is reported once, and each request answered once.
ReportedOnce == DeadIsReportedOnce /\ OneAnswerEach

\* What is shut down, or lost with its channel, ends in ppp_disconnect, unless
\* the peer goes on asking a closing link to terminate, each time before the
\* terminate timer that its last request restarted expires (pppcp_send_
\* terminate_ack), and except a link that is closing when the channel goes:
\* Down takes CLOSING to INITIAL, where no timer runs and Close calls nothing.
HungUpWhileClosing == io = "gone" /\ ppp # NoPpp /\ ppp.lcp.state = INITIAL /\ ppp.phase # "DEAD"
PeerRelents == <>[][~(closing /\ LcpRestart)]_vars
EveryCallEnds ==
    PeerRelents =>
        (ppp # NoPpp /\ (closing \/ io = "gone") ~> ppp = NoPpp \/ HungUpWhileClosing)

\* The comment of gatppp.c at its phases: PPP_PHASE_LINK_UP is "IPCP
\* negotiation ok, link up".  Packets of the network are dropped in any other
\* phase.
LinkUpPhase == ppp # NoPpp => (ppp.phase = "LINK_UP" <=> ppp.net)
==============================================================================
