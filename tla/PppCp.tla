-------------------------------- MODULE PppCp --------------------------------
(***************************************************************************)
(* The control protocol automaton of ofono-wifi/gatchat/ppp_cp.c, which    *)
(* LCP and IPCP share: the transition table, the two restart timers with   *)
(* their counters, and the actions of an event on the record of a layer.   *)
(***************************************************************************)
EXTENDS Integers, Sequences

\* (Two Terminate-Requests at least: the timer of an earlier Configure-Request
\* may still run when termination begins, and sends one of them.)
CONSTANTS
    MAX_CONFIGURE, MAX_TERMINATE, MAX_FAILURE,
    GUINT           \* number of values of a counter: it wraps around

ASSUME PppCpAssumption ==
    /\ MAX_CONFIGURE \in Nat \ {0} /\ MAX_FAILURE \in Nat
    /\ MAX_TERMINATE \in Nat /\ MAX_TERMINATE >= 2
    /\ GUINT \in Nat /\ GUINT > MAX_CONFIGURE /\ GUINT > MAX_TERMINATE

INITIAL == 0
STARTING == 1
CLOSED == 2
STOPPED == 3
CLOSING == 4
STOPPING == 5
REQSENT == 6
ACKRCVD == 7
ACKSENT == 8
OPENED == 9

To(acts, state) == [acts |-> acts, next |-> state]
INV == To({"INV"}, INITIAL)
Go(state) == To({}, state)

\* The rows are the events, the columns the states 0 to 9.
cp_transitions == [
    UP |-> << Go(2), To({"IRC", "SCR"}, 6), INV, INV, INV, INV, INV, INV, INV, INV >>,
    DOWN |-> << INV, INV, Go(0), To({"TLS"}, 1), Go(0), Go(1), Go(1), Go(1), Go(1),
                To({"TLD"}, 1) >>,
    OPEN |-> << To({"TLS"}, 1), Go(1), To({"IRC", "SCR"}, 6), Go(3), Go(5), Go(5), Go(6), Go(7),
                Go(8), Go(9) >>,
    CLOSE |-> << Go(0), To({"TLF"}, 0), Go(2), Go(2), Go(4), Go(4), To({"IRC", "STR"}, 4),
                 To({"IRC", "STR"}, 4), To({"IRC", "STR"}, 4), To({"TLD", "IRC", "STR"}, 4) >>,
    TO_PLUS |-> << INV, INV, INV, INV, To({"STR"}, 4), To({"STR"}, 5), To({"SCR"}, 6),
                   To({"SCR"}, 6), To({"SCR"}, 8), INV >>,
    TO_MINUS |-> << INV, INV, INV, INV, To({"TLF"}, 2), To({"TLF"}, 3), To({"TLF"}, 3),
                    To({"TLF"}, 3), To({"TLF"}, 3), INV >>,
    RCR_PLUS |-> << INV, INV, To({"STA"}, 2), To({"IRC", "SCR", "SCA"}, 8), Go(4), Go(5),
                    To({"SCA"}, 8), To({"SCA", "TLU"}, 9), To({"SCA"}, 8),
                    To({"TLD", "SCR", "SCA"}, 8) >>,
    RCR_MINUS |-> << INV, INV, To({"STA"}, 2), To({"IRC", "SCR", "SCN"}, 6), Go(4), Go(5),
                     To({"SCN"}, 6), To({"SCN"}, 7), To({"SCN"}, 6), To({"TLD", "SCR", "SCN"}, 6) >>,
    RCA |-> << INV, INV, To({"STA"}, 2), To({"STA"}, 3), Go(4), Go(5), To({"IRC"}, 7),
               To({"SCR"}, 6), To({"IRC", "TLU"}, 9), To({"TLD", "SCR"}, 6) >>,
    RCN |-> << INV, INV, To({"STA"}, 2), To({"STA"}, 3), Go(4), Go(5), To({"IRC", "SCR"}, 6),
               To({"SCR"}, 6), To({"IRC", "SCR"}, 8), To({"TLD", "SCR"}, 6) >>,
    RTR |-> << INV, INV, To({"STA"}, 2), To({"STA"}, 3), To({"STA"}, 4), To({"STA"}, 5),
               To({"STA"}, 6), To({"STA"}, 6), To({"STA"}, 6), To({"TLD", "ZRC", "STA"}, 5) >>,
    RTA |-> << INV, INV, Go(2), Go(3), To({"TLF"}, 2), To({"TLF"}, 3), Go(6), Go(6), Go(8),
               To({"TLD", "SCR"}, 6) >>,
    RXJ_MINUS |-> << INV, INV, To({"TLF"}, 2), To({"TLF"}, 3), To({"TLF"}, 2), To({"TLF"}, 3),
                     To({"TLF"}, 3), To({"TLF"}, 3), To({"TLF"}, 3), To({"TLD", "IRC", "STR"}, 5) >> ]

Transition(cp, event) == cp_transitions[event][cp.state + 1]

-----------------------------------------------------------------------------
(* A layer: its state, the restart counters, the failure counter, the      *)
(* timers that run in the order they were started (their intervals are     *)
(* equal), our options ("default" or "changed" on the peer's demand) and   *)
(* those of the requests sent under the current identifier.  History: the  *)
(* options the peer last acknowledged, and our last answer to a request.   *)

pppcp_new(state) ==
    [state |-> state, config |-> 0, terminate |-> 0, failures |-> 0, timers |-> <<>>,
     options |-> "default", asked |-> {}, acked |-> "none", answer |-> "none"]

\* There are two timers: the other one, if it runs, expires before.
Other(timer) == IF timer = "config" THEN "terminate" ELSE "config"

start_timer(cp, timer) ==
    [cp EXCEPT !.timers = IF @ \in {<<>>, <<timer>>} THEN <<timer>> ELSE <<Other(timer), timer>>]

restart_countOfConfig(cp, tr) ==
    [cp EXCEPT !.config = IF "IRC" \in tr.acts THEN MAX_CONFIGURE ELSE @]

\* IRC and ZRC.
restart_count(cp, tr) ==
    IF "IRC" \in tr.acts
    THEN IF tr.next \in {CLOSING, STOPPING} THEN [cp EXCEPT !.terminate = MAX_TERMINATE]
         ELSE [cp EXCEPT !.config = MAX_CONFIGURE]
    ELSE IF "ZRC" \in tr.acts THEN [cp EXCEPT !.terminate = 0] ELSE cp

Less(counter) == IF counter = 0 THEN GUINT - 1 ELSE counter - 1

\* Only the first request after IRC takes a new identifier.
send_configure_request(cp) ==
    start_timer([cp EXCEPT !.asked = (IF cp.config = MAX_CONFIGURE THEN {} ELSE @) \cup {cp.options},
                           !.config = Less(@)], "config")

send_configure_ack(cp) == [cp EXCEPT !.failures = 0, !.answer = "ack"]

\* A reject, of some options or after too many failures of all, does not count.
send_configure_nak(cp, answer) ==
    [cp EXCEPT !.failures = IF answer = "nak" /\ @ < MAX_FAILURE THEN @ + 1 ELSE @,
               !.answer = "refusal"]

send_terminate_request(cp) ==
    start_timer([cp EXCEPT !.terminate = Less(@)], "terminate")

send_terminate_ack(cp) == start_timer(cp, "terminate")

\* The packets of an event, in the order they are sent.
Transmitted(cp, acts, answer) ==
    LET scr == IF "SCR" \in acts THEN send_configure_request(cp) ELSE cp
        sca == IF "SCA" \in acts THEN send_configure_ack(scr)
               ELSE IF "SCN" \in acts THEN send_configure_nak(scr, answer) ELSE scr
    IN  IF "STR" \in acts THEN send_terminate_request(sca)
        ELSE IF "STA" \in acts THEN send_terminate_ack(sca) ELSE sca

\* What the history remembers in a state: it is up to date only in the states
\* named for it.
Remembered(cp, state) ==
    [cp EXCEPT !.state = state,
               !.acked = IF state \in {ACKRCVD, OPENED} THEN @ ELSE "none",
               !.answer = IF state \in {ACKSENT, OPENED} THEN @ ELSE "none"]

transition_stateKeepsTimers(cp, state) == Remembered(cp, state)

transition_state(cp, state) ==
    [Remembered(cp, state) EXCEPT
        !.timers = IF state \in {INITIAL, STARTING, CLOSED, STOPPED, OPENED} THEN <<>> ELSE @]

\* pppcp_generate_event up to the calls of the layer's driver; an event that
\* is illegal in the state is ignored.
generate_event(cp, event, answer) ==
    LET tr == Transition(cp, event)
    IN  IF "INV" \in tr.acts THEN cp
        ELSE transition_state(Transmitted(restart_count(cp, tr), tr.acts, answer), tr.next)

\* TLS, TLU, TLD and TLF of an event: the calls of the layer's driver.
Layer(cp, event) == Transition(cp, event).acts \cap {"TLU", "TLD", "TLF"}

TimeoutEventPlus(cp) == "TO_PLUS"

\* The event of a timer that expires.
TimeoutEvent(cp) ==
    IF (IF Head(cp.timers) = "config" THEN cp.config ELSE cp.terminate) > 0
    THEN "TO_PLUS" ELSE "TO_MINUS"

Expired(cp) == [cp EXCEPT !.timers = Tail(@)]
==============================================================================
