------------------------------ MODULE PppProofs ------------------------------
(***************************************************************************)
(* The safety of the packet data call of Ppp, for every restart counter    *)
(* and failure limit.  The proof goes up the layers of the code: what the  *)
(* entries of the transition table have in common (Row), what an event     *)
(* does to the record of a layer (Event), the invariants of a layer and of *)
(* LCP's counters, what each function of gatppp.c makes of the link        *)
(* (LinkFits), and the invariant of the call (IInv).                       *)
(***************************************************************************)
EXTENDS Ppp, TLAPS

-----------------------------------------------------------------------------
(* The timers of a layer.                                                  *)

Timers == {"config", "terminate"}
TimerLists == {<<>>, <<"config">>, <<"terminate">>, <<"config", "terminate">>,
               <<"terminate", "config">>}
\* The lists in which no Configure timer comes second.
ConfigFirst == {<<>>, <<"config">>, <<"terminate">>, <<"config", "terminate">>}
Started(l, timer) == IF l \in {<<>>, <<timer>>} THEN <<timer>> ELSE <<Other(timer), timer>>

\* A timer that is started runs, after the other one if that runs.
LEMMA TimerStarted ==
    ASSUME NEW l \in TimerLists, NEW timer \in Timers
    PROVE  /\ Started(l, timer) \in TimerLists
           /\ Started(l, timer) # <<>>
           /\ timer = "terminate" => Started(l, timer) \in ConfigFirst
<1>1. Started(l, timer) \in {<<timer>>, <<Other(timer), timer>>}
    BY DEF Started
<1>2. \A a, b : <<a>> # <<>> /\ <<a, b>> # <<>>
    OBVIOUS
<1> QED
    BY <1>1, <1>2 DEF Timers, TimerLists, ConfigFirst, Other

\* The Terminate timer started once more, and after a Configure timer.
LEMMA StartedLists ==
    /\ \A l \in {<<>>, <<"terminate">>} : Started(l, "terminate") = <<"terminate">>
    /\ \A l \in {<<"config">>, <<"config", "terminate">>} :
          Started(l, "terminate") = <<"config", "terminate">>
<1>1. /\ <<"config">> \notin {<<>>, <<"terminate">>}
      /\ <<"config", "terminate">> \notin {<<>>, <<"terminate">>}
    OBVIOUS
<1> QED
    BY <1>1 DEF Started, Other

\* What is left when the first timer expires.
LEMMA TimerExpired ==
    ASSUME NEW l \in TimerLists, l # <<>>
    PROVE  /\ Tail(l) \in TimerLists /\ Head(l) \in Timers
           /\ l \in ConfigFirst => Tail(l) \in {<<>>, <<"terminate">>}
<1>1. \A a, b : Head(<<a>>) = a /\ Tail(<<a>>) = <<>> /\ Head(<<a, b>>) = a /\ Tail(<<a, b>>) = <<b>>
    OBVIOUS
<1>2. <<"terminate", "config">> \notin ConfigFirst
    BY DEF ConfigFirst
<1>3. Tail(l) \in TimerLists /\ Head(l) \in Timers
    BY <1>1 DEF TimerLists, Timers
<1>4. ASSUME l \in ConfigFirst PROVE Tail(l) \in {<<>>, <<"terminate">>}
    BY <1>1, <1>4 DEF ConfigFirst
<1> QED
    BY <1>3, <1>4

-----------------------------------------------------------------------------
(* The table.                                                              *)

Acts == {"INV", "IRC", "ZRC", "SCR", "SCA", "SCN", "STR", "STA", "TLS", "TLU", "TLD", "TLF"}
Events == {"UP", "DOWN", "OPEN", "CLOSE", "TO_PLUS", "TO_MINUS", "RCR_PLUS", "RCR_MINUS",
           "RCA", "RCN", "RTR", "RTA", "RXJ_MINUS"}

\* A state that needs the peer's Ack, or an Ack to the peer (of the entries
\* that are not illegal, as below).
AckRow(event, s, tr) ==
    /\ event = "RCN" /\ "INV" \in tr.acts => s \in {0, 1}
    /\ "INV" \notin tr.acts =>
        /\ tr.next \in {7, 9} => (event = "RCA" \/ s \in {7, 9}) /\ event # "RCN"
        /\ tr.next \in {8, 9} => "SCA" \in tr.acts \/ (s \in {8, 9} /\ "SCN" \notin tr.acts)

\* The calls of the driver.
LayerRow(event, s, tr) ==
    "INV" \notin tr.acts =>
        /\ tr.next = 9 => "TLU" \in tr.acts \/ s = 9
        /\ "TLU" \in tr.acts => tr.next = 9 /\ s \in {7, 8} /\ event \in {"RCR_PLUS", "RCA"}
        /\ "TLD" \in tr.acts <=> (s = 9 /\ tr.next # 9)
        /\ "TLD" \in tr.acts => tr.next # 7
        /\ "TLF" \in tr.acts => s # 9 /\ "STA" \notin tr.acts /\ tr.next \in {0, 2, 3}

\* The restart counters: a request is sent after its counter was reset, or
\* when a timer found it above zero.
CounterRow(event, s, tr) ==
    "INV" \notin tr.acts =>
        /\ "SCR" \in tr.acts => "IRC" \in tr.acts \/ s \in {7, 9} \/ event = "TO_PLUS"
        /\ "STR" \in tr.acts => "IRC" \in tr.acts \/ event = "TO_PLUS"
        /\ tr.next \in {7, 9} => "SCR" \notin tr.acts /\ ("IRC" \in tr.acts \/ s \in {7, 9})
        /\ tr.next \in 6 .. 9 =>
              /\ "STR" \notin tr.acts /\ "ZRC" \notin tr.acts
              /\ s \in 6 .. 9 \/ (s \in 0 .. 3 /\ event \notin {"CLOSE", "DOWN"})
        /\ tr.next \notin 6 .. 9 => "SCR" \notin tr.acts
        /\ "STR" \in tr.acts => tr.next \in {4, 5}
        /\ tr.next \in {4, 5} /\ s \in {4, 5} => "IRC" \notin tr.acts /\ "ZRC" \notin tr.acts
        /\ tr.next \in {4, 5} /\ s \notin {4, 5} =>
              IF "IRC" \in tr.acts THEN "STR" \in tr.acts
              ELSE s = 9 /\ "STR" \notin tr.acts /\ "STA" \in tr.acts

\* Where a layer between its start and its end goes on, and where the signals
\* of the layer below and of the administrator take it.
StateRow(event, s, tr) ==
    /\ "INV" \notin tr.acts /\ s \in 4 .. 9 /\ event \notin {"UP", "DOWN"} =>
        /\ tr.next \in 2 .. 9
        /\ tr.next \in {2, 3} => "TLF" \in tr.acts
        /\ s = 4 /\ event # "OPEN" => tr.next \in {2, 4}
    /\ event = "DOWN" => ("INV" \in tr.acts <=> s \in {0, 1}) /\ "TLF" \notin tr.acts
    /\ event = "DOWN" /\ s \notin {0, 1} =>
        tr.next \in {0, 1} /\ (s = 4 => tr.next = 0) /\ (s \in 5 .. 9 => tr.next = 1)
    /\ event = "CLOSE" =>
        /\ "INV" \notin tr.acts
        /\ s \in 4 .. 9 => tr.next = 4
        /\ s \in {0, 1} => tr.next = 0 /\ ("TLF" \in tr.acts <=> s = 1) /\ "STA" \notin tr.acts
    /\ event \in {"UP", "OPEN"} => "TLD" \notin tr.acts
    /\ event = "UP" /\ s = 0 => tr.acts = {} /\ tr.next = 2
    /\ event = "OPEN" /\ s = 2 => tr.acts = {"IRC", "SCR"} /\ tr.next = 6
    /\ event = "TO_PLUS" /\ "INV" \notin tr.acts => s \in 4 .. 8

TypeRow(tr) ==
    /\ tr.acts \in SUBSET Acts /\ tr.next \in 0 .. 9
    /\ "INV" \in tr.acts => \A act \in {"TLU", "TLD", "TLF", "STA"} : act \notin tr.acts

Row(event, s, tr) ==
    /\ AckRow(event, s, tr) /\ LayerRow(event, s, tr) /\ CounterRow(event, s, tr)
    /\ StateRow(event, s, tr) /\ TypeRow(tr)

\* Every entry of the table is as described.
LEMMA Rows ==
    ASSUME NEW event \in Events, NEW s \in 0 .. 9, NEW tr, tr = cp_transitions[event][s + 1]
    PROVE  Row(event, s, tr)
<1> USE DEF Row, AckRow, LayerRow, CounterRow, StateRow, TypeRow, Acts, cp_transitions,
            To, Go, INV, INITIAL
<1>1. CASE event = "UP"
    BY <1>1, SMT
<1>2. CASE event = "DOWN"
    BY <1>2, SMT
<1>3. CASE event = "OPEN"
    BY <1>3, SMT
<1>4. CASE event = "CLOSE"
    BY <1>4, SMT
<1>5. CASE event = "TO_PLUS"
    BY <1>5, SMT
<1>6. CASE event = "TO_MINUS"
    BY <1>6, SMT
<1>7. CASE event = "RCR_PLUS"
    BY <1>7, SMT
<1>8. CASE event = "RCR_MINUS"
    BY <1>8, SMT
<1>9. CASE event = "RCA"
    BY <1>9, SMT
<1>10. CASE event = "RCN"
    BY <1>10, SMT
<1>11. CASE event = "RTR"
    BY <1>11, SMT
<1>12. CASE event = "RTA"
    BY <1>12, SMT
<1>13. CASE event = "RXJ_MINUS"
    BY <1>13, SMT
<1> HIDE DEF Row
<1> QED
    BY <1>1, <1>2, <1>3, <1>4, <1>5, <1>6, <1>7, <1>8, <1>9, <1>10, <1>11, <1>12, <1>13 DEF Events

-----------------------------------------------------------------------------
(* What an event does to the record of a layer.                            *)

Options == {"default", "changed"}
Halted == {INITIAL, STARTING, CLOSED, STOPPED, OPENED}

\* A layer in which the fields change as described.
IsLayer(cp) ==
    /\ cp.state \in INITIAL .. OPENED /\ cp.config \in Counters /\ cp.terminate \in Counters
    /\ cp.failures \in 0 .. MAX_FAILURE /\ cp.timers \in TimerLists /\ cp.options \in Options
    /\ cp.asked \in SUBSET Options /\ cp.acked \in Options \cup {"none"}
    /\ cp.answer \in {"none", "ack", "refusal"}
    /\ cp = [state |-> cp.state, config |-> cp.config, terminate |-> cp.terminate,
             failures |-> cp.failures, timers |-> cp.timers, options |-> cp.options,
             asked |-> cp.asked, acked |-> cp.acked, answer |-> cp.answer]

\* The type of a layer's record, field by field.
LEMMA LayerType == ASSUME NEW cp PROVE cp \in Layers(Options) <=> IsLayer(cp)
<1>1. ASSUME cp \in Layers(Options) PROVE IsLayer(cp)
    BY <1>1 DEF Layers, IsLayer, TimerLists
<1>2. ASSUME IsLayer(cp) PROVE cp \in Layers(Options)
    BY <1>2 DEF Layers, IsLayer, TimerLists
<1> QED
    BY <1>1, <1>2

\* A counter above zero does not wrap around.
LEMMA LessType ==
    ASSUME NEW n \in Counters
    PROVE  Less(n) \in Counters /\ (n > 0 => Less(n) = n - 1)
BY PppCpAssumption DEF Counters, Less

\* r is cp with its restart counters set for the transition tr.
Counted(cp, tr, r) ==
    /\ r.state = cp.state /\ r.timers = cp.timers /\ r.options = cp.options
    /\ r.acked = cp.acked /\ r.answer = cp.answer
    /\ r.config = IF "IRC" \in tr.acts /\ tr.next \notin {4, 5} THEN MAX_CONFIGURE ELSE cp.config
    /\ r.terminate = IF "IRC" \in tr.acts
                     THEN IF tr.next \in {4, 5} THEN MAX_TERMINATE ELSE cp.terminate
                     ELSE IF "ZRC" \in tr.acts THEN 0 ELSE cp.terminate

\* IRC and ZRC touch the counters only.
LEMMA RestartCount ==
    ASSUME NEW cp, IsLayer(cp), NEW tr
    PROVE  IsLayer(restart_count(cp, tr)) /\ Counted(cp, tr, restart_count(cp, tr))
<1>1. MAX_CONFIGURE \in Counters /\ MAX_TERMINATE \in Counters /\ 0 \in Counters
    BY PppCpAssumption DEF Counters
<1> QED
    BY <1>1 DEF restart_count, CLOSING, STOPPING, IsLayer, Counted

\* A Configure-Request.
LEMMA Request ==
    ASSUME NEW cp, IsLayer(cp), NEW r, r = send_configure_request(cp)
    PROVE  /\ IsLayer(r)
           /\ r.state = cp.state /\ r.options = cp.options /\ r.acked = cp.acked
           /\ r.answer = cp.answer /\ r.terminate = cp.terminate
           /\ r.config = Less(cp.config) /\ r.timers = Started(cp.timers, "config")
<1>1. Less(cp.config) \in Counters /\ Started(cp.timers, "config") \in TimerLists
    BY LessType, TimerStarted DEF IsLayer, Timers
<1> QED
    BY <1>1 DEF send_configure_request, start_timer, Started, IsLayer

\* Configure-Ack, Configure-Nak and Configure-Reject.
LEMMA Answer ==
    ASSUME NEW cp, IsLayer(cp), NEW answer, NEW r,
           r = send_configure_ack(cp) \/ r = send_configure_nak(cp, answer)
    PROVE  /\ IsLayer(r)
           /\ r.state = cp.state /\ r.options = cp.options /\ r.acked = cp.acked
           /\ r.config = cp.config /\ r.terminate = cp.terminate /\ r.timers = cp.timers
           /\ r = send_configure_ack(cp) => r.answer = "ack"
<1>1. 0 \in 0 .. MAX_FAILURE /\ \A n \in 0 .. MAX_FAILURE : n < MAX_FAILURE => n + 1 \in 0 .. MAX_FAILURE
    BY PppCpAssumption
<1> QED
    BY <1>1 DEF send_configure_ack, send_configure_nak, IsLayer

\* Terminate-Request and Terminate-Ack.
LEMMA Terminate ==
    ASSUME NEW cp, IsLayer(cp), NEW r, r = send_terminate_request(cp) \/ r = send_terminate_ack(cp)
    PROVE  /\ IsLayer(r)
           /\ r.state = cp.state /\ r.options = cp.options /\ r.acked = cp.acked
           /\ r.answer = cp.answer /\ r.config = cp.config
           /\ r.timers = Started(cp.timers, "terminate")
           /\ r = send_terminate_request(cp) => r.terminate = Less(cp.terminate)
           /\ r = send_terminate_ack(cp) => r.terminate = cp.terminate
<1>1. Less(cp.terminate) \in Counters /\ Started(cp.timers, "terminate") \in TimerLists
    BY LessType, TimerStarted DEF IsLayer, Timers
<1> QED
    BY <1>1 DEF send_terminate_request, send_terminate_ack, start_timer, Started, IsLayer

\* An event that is not illegal, seen field by field.
EventFields(cp, tr, r) ==
    LET config    == IF "IRC" \in tr.acts /\ tr.next \notin {4, 5} THEN MAX_CONFIGURE ELSE cp.config
        terminate == IF "IRC" \in tr.acts
                     THEN IF tr.next \in {4, 5} THEN MAX_TERMINATE ELSE cp.terminate
                     ELSE IF "ZRC" \in tr.acts THEN 0 ELSE cp.terminate
        timers    == IF "SCR" \in tr.acts THEN Started(cp.timers, "config") ELSE cp.timers
    IN  /\ r.state = tr.next /\ r.options = cp.options
        /\ r.config = IF "SCR" \in tr.acts THEN Less(config) ELSE config
        /\ r.terminate = IF "STR" \in tr.acts THEN Less(terminate) ELSE terminate
        /\ r.timers = IF tr.next \in Halted THEN <<>>
                      ELSE IF tr.acts \cap {"STR", "STA"} # {} THEN Started(timers, "terminate")
                      ELSE timers
        /\ tr.next \in {ACKRCVD, OPENED} => r.acked = cp.acked
        /\ tr.next \in {ACKSENT, OPENED} =>
              /\ "SCA" \in tr.acts => r.answer = "ack"
              /\ "SCA" \notin tr.acts /\ "SCN" \notin tr.acts => r.answer = cp.answer

\* The actions of an event come out as EventFields says.
LEMMA Event ==
    ASSUME NEW cp, IsLayer(cp), NEW event, NEW answer, NEW tr, tr = Transition(cp, event),
           TypeRow(tr), "INV" \notin tr.acts, NEW r, r = generate_event(cp, event, answer)
    PROVE  IsLayer(r) /\ EventFields(cp, tr, r)
<1> DEFINE a == restart_count(cp, tr)
           b == IF "SCR" \in tr.acts THEN send_configure_request(a) ELSE a
           c == IF "SCA" \in tr.acts THEN send_configure_ack(b)
                ELSE IF "SCN" \in tr.acts THEN send_configure_nak(b, answer) ELSE b
           d == IF "STR" \in tr.acts THEN send_terminate_request(c)
                ELSE IF "STA" \in tr.acts THEN send_terminate_ack(c) ELSE c
<1>1. r = transition_state(d, tr.next)
    BY Zenon DEF generate_event, Transmitted
<1>2. IsLayer(a) /\ Counted(cp, tr, a)
    BY RestartCount
<1> HIDE DEF a
<1>3. /\ IsLayer(b)
      /\ b.options = a.options /\ b.acked = a.acked /\ b.answer = a.answer
      /\ b.terminate = a.terminate
      /\ b.config = IF "SCR" \in tr.acts THEN Less(a.config) ELSE a.config
      /\ b.timers = IF "SCR" \in tr.acts THEN Started(a.timers, "config") ELSE a.timers
    BY <1>2, Request
<1> HIDE DEF b
<1>4. /\ IsLayer(c)
      /\ c.options = b.options /\ c.acked = b.acked /\ c.config = b.config
      /\ c.terminate = b.terminate /\ c.timers = b.timers
      /\ "SCA" \in tr.acts => c.answer = "ack"
      /\ "SCA" \notin tr.acts /\ "SCN" \notin tr.acts => c.answer = b.answer
    BY <1>3, Answer
<1> HIDE DEF c
<1>5. /\ IsLayer(d)
      /\ d.options = c.options /\ d.acked = c.acked /\ d.config = c.config
      /\ d.answer = c.answer
      /\ d.terminate = IF "STR" \in tr.acts THEN Less(c.terminate) ELSE c.terminate
      /\ d.timers = IF tr.acts \cap {"STR", "STA"} # {} THEN Started(c.timers, "terminate")
                    ELSE c.timers
    <2>1. CASE "STR" \in tr.acts
        BY <1>4, <2>1, Terminate
    <2>2. CASE "STR" \notin tr.acts /\ "STA" \in tr.acts
        BY <1>4, <2>2, Terminate
    <2>3. CASE "STR" \notin tr.acts /\ "STA" \notin tr.acts
        BY <1>4, <2>3
    <2> QED
        BY <2>1, <2>2, <2>3
<1> HIDE DEF d
<1>6. /\ IsLayer(r)
      /\ r.state = tr.next /\ r.options = d.options /\ r.config = d.config
      /\ r.terminate = d.terminate
      /\ r.timers = IF tr.next \in Halted THEN <<>> ELSE d.timers
      /\ tr.next \in {ACKRCVD, OPENED} => r.acked = d.acked
      /\ tr.next \in {ACKSENT, OPENED} => r.answer = d.answer
    BY <1>1, <1>5 DEF transition_state, Remembered, IsLayer, TypeRow, Halted, TimerLists, INITIAL, OPENED
<1> QED
    BY <1>2, <1>3, <1>4, <1>5, <1>6 DEF EventFields, Counted

-----------------------------------------------------------------------------
(* The invariant of one layer.                                             *)

\* The states that need the peer's Ack have it, for the options as they are;
\* those that need ours have sent it; and the halted states have no timer.
LayerOK(cp) ==
    /\ cp.state \in Halted => cp.timers = <<>>
    /\ cp.state \in {ACKRCVD, OPENED} => cp.acked = cp.options
    /\ cp.state \in {ACKSENT, OPENED} => cp.answer = "ack"

\* The layer as an event finds it: a packet has changed its options (RCN) or
\* what the peer acknowledged (RCA), a timer that expired is gone.
ReadyFor(cp, event) ==
    /\ cp.state \in Halted => cp.timers = <<>>
    /\ cp.state \in {ACKRCVD, OPENED} /\ event # "RCN" => cp.acked = cp.options
    /\ event = "RCA" => cp.acked = cp.options
    /\ cp.state \in {ACKSENT, OPENED} => cp.answer = "ack"

\* The entry an event finds in the table.
LEMMA TheRow ==
    ASSUME NEW cp, IsLayer(cp), NEW event \in Events
    PROVE  Row(event, cp.state, Transition(cp, event))
<1>1. cp.state \in 0 .. 9
    BY DEF IsLayer, INITIAL, OPENED
<1> QED
    BY <1>1, Rows DEF Transition

\* Every event preserves the invariant of the layer.
LEMMA LayerStep ==
    ASSUME NEW cp, IsLayer(cp), NEW event \in Events, ReadyFor(cp, event), NEW answer,
           NEW r, r = generate_event(cp, event, answer)
    PROVE  IsLayer(r) /\ LayerOK(r) /\ r.options = cp.options
<1> DEFINE tr == Transition(cp, event)
<1>1. Row(event, cp.state, tr)
    BY TheRow
<1>2. CASE "INV" \in tr.acts
    <2>1. r = cp
        BY <1>2 DEF generate_event
    <2> QED
        BY <1>1, <1>2, <2>1 DEF Row, AckRow, ReadyFor, LayerOK, ACKRCVD, OPENED
<1>3. CASE "INV" \notin tr.acts
    <2>1. IsLayer(r) /\ EventFields(cp, tr, r)
        BY <1>1, <1>3, Event DEF Row
    <2>2. /\ r.state = tr.next /\ r.options = cp.options
          /\ tr.next \in Halted => r.timers = <<>>
          /\ tr.next \in {7, 9} => r.acked = cp.acked
          /\ tr.next \in {8, 9} =>
                /\ "SCA" \in tr.acts => r.answer = "ack"
                /\ "SCA" \notin tr.acts /\ "SCN" \notin tr.acts => r.answer = cp.answer
        BY <2>1 DEF EventFields, ACKRCVD, ACKSENT, OPENED
    <2>3. /\ tr.next \in {7, 9} => (event = "RCA" \/ cp.state \in {7, 9}) /\ event # "RCN"
          /\ tr.next \in {8, 9} =>
                "SCA" \in tr.acts \/ (cp.state \in {8, 9} /\ "SCN" \notin tr.acts)
        BY <1>1, <1>3 DEF Row, AckRow
    <2> QED
        BY <2>1, <2>2, <2>3 DEF ReadyFor, LayerOK, ACKRCVD, ACKSENT, OPENED
<1> QED
    BY <1>2, <1>3

-----------------------------------------------------------------------------
(* The restart counters of LCP.                                            *)

Negotiating == {REQSENT, ACKRCVD, ACKSENT, OPENED}

\* While LCP terminates, a Configure timer that is still running comes first,
\* and finds a Terminate-Request left to send.
CountersOK(cp) ==
    /\ cp.config <= MAX_CONFIGURE /\ cp.terminate <= MAX_TERMINATE
    /\ cp.state \in {ACKRCVD, OPENED} => cp.config = MAX_CONFIGURE
    /\ cp.state \in Negotiating => cp.terminate = 0
    /\ cp.state \in {CLOSING, STOPPING} =>
         /\ cp.timers \in ConfigFirst
         /\ cp.timers # <<>> /\ Head(cp.timers) = "config" => cp.terminate > 0

\* The event of a timer finds its request still to be sent.
TimedRight(cp, event) ==
    event = "TO_PLUS" =>
        /\ cp.state \in {REQSENT, ACKRCVD, ACKSENT} => cp.config > 0
        /\ cp.state \in {CLOSING, STOPPING} =>
              cp.terminate > 0 /\ cp.timers \in {<<>>, <<"terminate">>}

\* Every event of LCP preserves the bounds of its counters.
LEMMA CountersStep ==
    ASSUME NEW cp, IsLayer(cp), NEW event \in Events, ReadyFor(cp, event), CountersOK(cp),
           TimedRight(cp, event), cp.state \in 4 .. 9 \/ event \in {"CLOSE", "DOWN"} \/ cp.terminate = 0,
           NEW answer, NEW r, r = generate_event(cp, event, answer)
    PROVE  CountersOK(r)
<1> DEFINE tr == Transition(cp, event)
<1>1. Row(event, cp.state, tr)
    BY TheRow
<1>2. CASE "INV" \in tr.acts
    BY <1>2 DEF generate_event
<1>3. CASE "INV" \notin tr.acts
    <2>1. IsLayer(r) /\ EventFields(cp, tr, r)
        BY <1>1, <1>3, Event DEF Row
    <2>2. CounterRow(event, cp.state, tr) /\ tr.next \in 0 .. 9
        BY <1>1 DEF Row, TypeRow
    <2>3. /\ cp.config \in Counters /\ cp.terminate \in Counters /\ cp.state \in 0 .. 9
          /\ cp.timers \in TimerLists
        BY DEF IsLayer, INITIAL, OPENED
    <2>4. /\ r.config <= MAX_CONFIGURE
          /\ tr.next \in {7, 9} => r.config = MAX_CONFIGURE
        <3>1. r.config = LET config == IF "IRC" \in tr.acts /\ tr.next \notin {4, 5}
                                       THEN MAX_CONFIGURE ELSE cp.config
                         IN  IF "SCR" \in tr.acts THEN Less(config) ELSE config
            BY <2>1 DEF EventFields
        <3>2. "SCR" \in tr.acts => "IRC" \in tr.acts \/ cp.config > 0
            <4>1. MAX_CONFIGURE > 0
                BY PppCpAssumption
            <4> QED
                BY <1>1, <1>3, <2>2, <2>3, <4>1
                DEF CounterRow, Row, StateRow, CountersOK, TimedRight, REQSENT, ACKRCVD, ACKSENT, OPENED
        <3>3. "SCR" \in tr.acts => tr.next \notin {4, 5, 7, 9}
            BY <1>3, <2>2 DEF CounterRow
        <3>4. tr.next \in {7, 9} => "IRC" \in tr.acts \/ cp.state \in {7, 9}
            BY <1>3, <2>2 DEF CounterRow
        <3>5. /\ cp.config <= MAX_CONFIGURE /\ MAX_CONFIGURE \in Counters /\ MAX_CONFIGURE > 0
              /\ cp.state \in {7, 9} => cp.config = MAX_CONFIGURE
            BY PppCpAssumption DEF CountersOK, Counters, ACKRCVD, OPENED
        <3>6. /\ Less(MAX_CONFIGURE) = MAX_CONFIGURE - 1
              /\ cp.config > 0 => Less(cp.config) = cp.config - 1
            BY <2>3, <3>5, LessType
        <3> QED
            BY <2>3, <3>1, <3>2, <3>3, <3>4, <3>5, <3>6 DEF Counters
    <2>5. r.terminate = LET terminate == IF "IRC" \in tr.acts
                                         THEN IF tr.next \in {4, 5} THEN MAX_TERMINATE ELSE cp.terminate
                                         ELSE IF "ZRC" \in tr.acts THEN 0 ELSE cp.terminate
                        IN  IF "STR" \in tr.acts THEN Less(terminate) ELSE terminate
        BY <2>1 DEF EventFields
    <2>6. /\ MAX_TERMINATE \in Counters /\ MAX_TERMINATE >= 2
          /\ Less(MAX_TERMINATE) = MAX_TERMINATE - 1
          /\ cp.terminate > 0 => Less(cp.terminate) = cp.terminate - 1
        <3>1. MAX_TERMINATE \in Counters /\ MAX_TERMINATE >= 2
            BY PppCpAssumption DEF Counters
        <3> QED
            BY <2>3, <3>1, LessType DEF Counters
    <2>7. "STR" \in tr.acts =>
             /\ tr.next \in {4, 5}
             /\ "IRC" \notin tr.acts => event = "TO_PLUS" /\ cp.state \in {4, 5} /\ "ZRC" \notin tr.acts
        BY <1>3, <2>2 DEF CounterRow
    <2>8. /\ r.terminate <= MAX_TERMINATE
          /\ tr.next \in 6 .. 9 => r.terminate = 0
        <3>1. "STR" \in tr.acts /\ "IRC" \notin tr.acts => cp.terminate > 0
            BY <2>7 DEF TimedRight, CLOSING, STOPPING
        <3>2. cp.terminate <= MAX_TERMINATE
            BY DEF CountersOK
        <3>3. ASSUME tr.next \in 6 .. 9 PROVE cp.terminate = 0 /\ "STR" \notin tr.acts
            BY <1>3, <2>2, <2>3, <3>3
            DEF CounterRow, CountersOK, Negotiating, REQSENT, ACKRCVD, ACKSENT, OPENED
        <3> QED
            BY <2>3, <2>5, <2>6, <2>7, <3>1, <3>2, <3>3 DEF Counters
    <2>9. ASSUME tr.next \in {4, 5}
          PROVE  /\ r.timers \in ConfigFirst
                 /\ r.timers # <<>> /\ Head(r.timers) = "config" => r.terminate > 0
        <3>1. /\ "SCR" \notin tr.acts
              /\ r.timers = IF tr.acts \cap {"STR", "STA"} # {} THEN Started(cp.timers, "terminate")
                            ELSE cp.timers
            BY <1>3, <2>1, <2>2, <2>9
            DEF EventFields, CounterRow, Halted, INITIAL, STARTING, CLOSED, STOPPED, OPENED
        <3>2. CASE cp.state \in {4, 5}
            <4>1. /\ "IRC" \notin tr.acts /\ "ZRC" \notin tr.acts
                  /\ "STR" \in tr.acts => event = "TO_PLUS"
                BY <1>3, <2>2, <2>9, <3>2 DEF CounterRow
            <4>2. /\ cp.timers \in ConfigFirst
                  /\ cp.timers # <<>> /\ Head(cp.timers) = "config" => cp.terminate > 0
                BY <3>2 DEF CountersOK, CLOSING, STOPPING
            <4>3. "STR" \notin tr.acts => r.terminate = cp.terminate
                BY <2>5, <4>1
            <4>4. "STR" \in tr.acts => cp.timers \in {<<>>, <<"terminate">>}
                BY <3>2, <4>1 DEF TimedRight, CLOSING, STOPPING
            <4>5. /\ cp.timers \in {<<>>, <<"terminate">>} => Started(cp.timers, "terminate") = <<"terminate">>
                  /\ cp.timers \in {<<"config">>, <<"config", "terminate">>} =>
                        Started(cp.timers, "terminate") = <<"config", "terminate">>
                BY StartedLists
            <4>6. \A x, y : Head(<<x>>) = x /\ Head(<<x, y>>) = x /\ <<x>> # <<>> /\ <<x, y>> # <<>>
                OBVIOUS
            <4> QED
                BY <3>1, <4>2, <4>3, <4>4, <4>5, <4>6 DEF ConfigFirst
        <3>3. CASE cp.state \notin {4, 5} /\ "IRC" \in tr.acts
            <4>1. r.timers = Started(cp.timers, "terminate") /\ r.terminate = MAX_TERMINATE - 1
                BY <1>3, <2>2, <2>9, <2>5, <2>6, <3>1, <3>3 DEF CounterRow
            <4> QED
                BY <2>3, <2>6, <4>1, TimerStarted DEF Timers, Counters
        <3>4. CASE cp.state \notin {4, 5} /\ "IRC" \notin tr.acts
            <4>1. cp.state = 9 /\ "STA" \in tr.acts
                BY <1>3, <2>2, <2>9, <3>4 DEF CounterRow
            <4>2. r.timers = <<"terminate">>
                BY <3>1, <4>1, StartedLists DEF ReadyFor, Halted, OPENED
            <4>3. Head(<<"terminate">>) = "terminate"
                OBVIOUS
            <4> QED
                BY <4>2, <4>3 DEF ConfigFirst
        <3> QED
            BY <3>2, <3>3, <3>4
    <2>10. r.state = tr.next
        BY <2>1 DEF EventFields
    <2> QED
        BY <2>2, <2>4, <2>8, <2>9, <2>10
        DEF CountersOK, Negotiating, REQSENT, ACKRCVD, ACKSENT, OPENED, CLOSING, STOPPING
<1> QED
    BY <1>2, <1>3

-----------------------------------------------------------------------------
(* The link: what each function of gatppp.c does to the record.            *)

Phases == {"ESTABLISHMENT", "AUTHENTICATION", "NETWORK", "LINK_UP", "TERMINATION", "DEAD"}

IsLink(p) ==
    /\ IsLayer(p.lcp) /\ IsLayer(p.ipcp) /\ p.phase \in Phases
    /\ p.net \in BOOLEAN /\ p.chap \in BOOLEAN /\ p.sta \in BOOLEAN /\ p.dead \in BOOLEAN
    /\ p.connect \in BOOLEAN
    /\ p = [lcp |-> p.lcp, ipcp |-> p.ipcp, phase |-> p.phase, net |-> p.net, chap |-> p.chap,
            sta |-> p.sta, dead |-> p.dead, connect |-> p.connect]

\* The parts of q that most functions leave as they are in p.
SameButIpcp(p, q) ==
    /\ q.lcp = p.lcp /\ q.chap = p.chap /\ q.sta = p.sta /\ q.dead = p.dead
    /\ q.connect = p.connect

Entered(p, phase, q) ==
    /\ q.phase = phase /\ q.ipcp = p.ipcp /\ q.net = p.net
    /\ q.lcp = p.lcp /\ q.chap = p.chap /\ q.sta = p.sta /\ q.connect = p.connect
    /\ phase # "DEAD" => q.dead = p.dead
    /\ phase = "DEAD" /\ p.dead = FALSE => q.dead # q.sta

\* ppp_enter_phase: the dead phase wakes the idle source, unless a Terminate-Ack waits.
LEMMA EnterPhase ==
    ASSUME NEW p, IsLink(p), NEW phase \in Phases
    PROVE  IsLink(enter_phase(p, phase)) /\ Entered(p, phase, enter_phase(p, phase))
<1> DEFINE q == enter_phase(p, phase)
<1>1. q = [p EXCEPT !.phase = phase, !.dead = (p.dead \/ (phase = "DEAD" /\ ~p.sta))]
    BY DEF enter_phase
<1>2. /\ (p.dead \/ (phase = "DEAD" /\ ~p.sta)) \in BOOLEAN
      /\ phase # "DEAD" => (p.dead \/ (phase = "DEAD" /\ ~p.sta)) = p.dead
      /\ phase = "DEAD" /\ p.dead = FALSE => (p.dead \/ (phase = "DEAD" /\ ~p.sta)) # p.sta
    BY DEF IsLink
<1> DEFINE d == (p.dead \/ (phase = "DEAD" /\ ~p.sta))
<1>3. /\ q = [p EXCEPT !.phase = phase, !.dead = d] /\ d \in BOOLEAN
      /\ phase # "DEAD" => d = p.dead
      /\ phase = "DEAD" /\ p.dead = FALSE => d # p.sta
    BY <1>1, <1>2
<1> HIDE DEF d, q
<1>4. IsLink(q) /\ Entered(p, phase, q)
    BY <1>3 DEF IsLink, Entered
<1> QED
    BY <1>4 DEF q

\* The interface belongs to an open IPCP.
NetNeedsIpcp(p) == p.net = TRUE => p.ipcp.state = OPENED
IpcpHasNet(p) == p.ipcp.state = OPENED => p.net = TRUE

\* ipcp_down of a layer that has left OPENED.
LEMMA DownType ==
    ASSUME NEW p, IsLink(p), p.ipcp.state \notin {ACKRCVD, OPENED}, LayerOK(p.ipcp),
           NEW q, q = ipcp_down(p)
    PROVE  /\ IsLink(q) /\ LayerOK(q.ipcp) /\ SameButIpcp(p, q) /\ q.phase = p.phase
           /\ q.net = FALSE /\ q.ipcp.state = p.ipcp.state
<1>1. IsLayer([p.ipcp EXCEPT !.options = "default"])
    BY DEF IsLink, IsLayer, Options
<1>2. q = [p EXCEPT !.net = FALSE, !.ipcp = [p.ipcp EXCEPT !.options = "default"]]
    BY DEF ipcp_down, IsLink, IsLayer
<1>3. LayerOK([p.ipcp EXCEPT !.options = "default"])
    BY DEF LayerOK, IsLink, IsLayer
<1>4. [p.ipcp EXCEPT !.options = "default"].state = p.ipcp.state
    BY DEF IsLink, IsLayer
<1> QED
    BY <1>1, <1>2, <1>3, <1>4 DEF IsLink, SameButIpcp

Signals == {"UP", "DOWN", "OPEN", "CLOSE"}

\* Open, Up, Down and Close of IPCP keep the interface with an open IPCP.
LEMMA SignalStep ==
    ASSUME NEW p, IsLink(p), LayerOK(p.ipcp), NetNeedsIpcp(p), NEW event \in Signals,
           NEW q, q = SignalIpcp(p, event)
    PROVE  /\ IsLink(q) /\ LayerOK(q.ipcp) /\ SameButIpcp(p, q) /\ q.phase = p.phase
           /\ NetNeedsIpcp(q) /\ (IpcpHasNet(p) => IpcpHasNet(q))
           /\ q.ipcp.state = OPENED => p.ipcp.state = OPENED
           /\ event \in {"UP", "OPEN"} /\ p.ipcp.state = OPENED => q.ipcp.state = OPENED
           /\ event = "DOWN" => q.ipcp.state \in {INITIAL, STARTING} /\ IpcpHasNet(q)
<1> DEFINE tr == Transition(p.ipcp, event)
           c == generate_event(p.ipcp, event, "none")
           b == [p EXCEPT !.ipcp = c]
<1>1. event \in Events /\ IsLayer(p.ipcp) /\ p.ipcp.state \in 0 .. 9
    BY DEF Signals, Events, IsLink, IsLayer, INITIAL, OPENED
<1>2. Row(event, p.ipcp.state, tr)
    BY <1>1, TheRow
<1>3. ReadyFor(p.ipcp, event)
    BY DEF LayerOK, ReadyFor, Signals
<1>4. IsLayer(c) /\ LayerOK(c)
    BY <1>1, <1>3, LayerStep
<1>5. c.state = IF "INV" \in tr.acts THEN p.ipcp.state ELSE tr.next
    <2>1. CASE "INV" \in tr.acts
        BY <2>1 DEF generate_event
    <2>2. CASE "INV" \notin tr.acts
        BY <1>1, <1>2, <2>2, Event DEF Row, EventFields
    <2> QED
        BY <2>1, <2>2
<1> HIDE DEF c
<1>6. IsLink(b) /\ SameButIpcp(p, b) /\ b.phase = p.phase /\ b.net = p.net /\ b.ipcp = c
    BY <1>4 DEF IsLink, SameButIpcp
<1>7. /\ "TLD" \in tr.acts <=> "INV" \notin tr.acts /\ p.ipcp.state = 9 /\ c.state # 9
      /\ "TLD" \in tr.acts => c.state # 7
      /\ c.state = 9 => p.ipcp.state = 9
      /\ event \in {"UP", "OPEN"} => "TLD" \notin tr.acts
      /\ event = "DOWN" => c.state \in {0, 1}
    <2>1. "INV" \in tr.acts => "TLD" \notin tr.acts
        BY <1>2 DEF Row, TypeRow
    <2>2. "INV" \notin tr.acts =>
            /\ "TLD" \in tr.acts <=> (p.ipcp.state = 9 /\ tr.next # 9)
            /\ "TLD" \in tr.acts => tr.next # 7
            /\ tr.next = 9 => p.ipcp.state = 9
        BY <1>2 DEF Row, LayerRow, Signals
    <2>3. /\ event = "DOWN" => ("INV" \in tr.acts <=> p.ipcp.state \in {0, 1})
          /\ event = "DOWN" /\ p.ipcp.state \notin {0, 1} => tr.next \in {0, 1}
          /\ event \in {"UP", "OPEN"} => "TLD" \notin tr.acts
        BY <1>2 DEF Row, StateRow
    <2> QED
        BY <1>5, <2>1, <2>2, <2>3
<1>8. q = IF "TLD" \in tr.acts THEN ipcp_down(b) ELSE b
    BY DEF SignalIpcp, Layer, c
<1> HIDE DEF b
<1>9. CASE "TLD" \in tr.acts
    <2>1. /\ IsLink(q) /\ LayerOK(q.ipcp) /\ SameButIpcp(b, q) /\ q.phase = b.phase
          /\ q.net = FALSE /\ q.ipcp.state = c.state
        BY <1>4, <1>6, <1>7, <1>8, <1>9, DownType DEF ACKRCVD, OPENED
    <2> QED
        BY <1>6, <1>7, <1>9, <2>1
        DEF SameButIpcp, NetNeedsIpcp, IpcpHasNet, OPENED, INITIAL, STARTING
<1>10. CASE "TLD" \notin tr.acts
    <2>1. p.ipcp.state = 9 => c.state = 9 \/ "INV" \in tr.acts
        BY <1>7, <1>10
    <2>2. p.ipcp.state = 9 => c.state = 9
        BY <1>5, <2>1
    <2>3. event = "DOWN" => p.ipcp.state # 9
        BY <1>7, <2>2
    <2> QED
        BY <1>4, <1>6, <1>7, <1>8, <1>10, <2>2, <2>3
        DEF SameButIpcp, NetNeedsIpcp, IpcpHasNet, OPENED, INITIAL, STARTING
<1> QED
    BY <1>9, <1>10

\* auth_notify keeps IPCP open if it is, and starts it otherwise.
LEMMA NotifyStep ==
    ASSUME NEW p, IsLink(p), LayerOK(p.ipcp), NetNeedsIpcp(p), NEW q, q = auth_notify(p)
    PROVE  /\ IsLink(q) /\ LayerOK(q.ipcp) /\ SameButIpcp(p, q) /\ q.phase = "NETWORK"
           /\ NetNeedsIpcp(q) /\ (IpcpHasNet(p) => IpcpHasNet(q))
           /\ q.ipcp.state = OPENED <=> p.ipcp.state = OPENED
<1> DEFINE a == enter_phase(p, "NETWORK")
           b == SignalIpcp(a, "OPEN")
<1>1. q = SignalIpcp(b, "UP")
    BY DEF auth_notify
<1>2. IsLink(a) /\ SameButIpcp(p, a) /\ a.phase = "NETWORK" /\ a.ipcp = p.ipcp /\ a.net = p.net
    <2>1. "NETWORK" \in Phases
        BY DEF Phases
    <2>2. IsLink(a) /\ Entered(p, "NETWORK", a)
        BY <2>1, EnterPhase
    <2> QED
        BY <2>2 DEF Entered, SameButIpcp
<1> HIDE DEF a
<1>3. /\ IsLink(b) /\ LayerOK(b.ipcp) /\ SameButIpcp(a, b) /\ b.phase = a.phase
      /\ NetNeedsIpcp(b) /\ (IpcpHasNet(a) => IpcpHasNet(b))
      /\ b.ipcp.state = OPENED <=> a.ipcp.state = OPENED
    <2>1. NetNeedsIpcp(a) /\ "OPEN" \in Signals
        BY <1>2 DEF NetNeedsIpcp, Signals
    <2> QED
        BY <1>2, <2>1, SignalStep
<1> HIDE DEF b
<1>4. /\ IsLink(q) /\ LayerOK(q.ipcp) /\ SameButIpcp(b, q) /\ q.phase = b.phase
      /\ NetNeedsIpcp(q) /\ (IpcpHasNet(b) => IpcpHasNet(q))
      /\ q.ipcp.state = OPENED <=> b.ipcp.state = OPENED
    <2>1. "UP" \in Signals
        BY DEF Signals
    <2> QED
        BY <1>1, <1>3, <2>1, SignalStep
<1> QED
    BY <1>2, <1>3, <1>4 DEF SameButIpcp, IpcpHasNet

\* The phase says how far the layers are; only in the dead phase does one of
\* the idle source and the Terminate-Ack wait.
PhaseFits(p) ==
    /\ p.ipcp.state \notin {INITIAL, STARTING} => p.lcp.state = OPENED
    /\ p.phase \in {"AUTHENTICATION", "NETWORK", "LINK_UP"} => p.lcp.state = OPENED
    /\ p.phase = "AUTHENTICATION" => p.ipcp.state \in {INITIAL, STARTING}
    /\ p.phase = "DEAD" => p.lcp.state \in {INITIAL, CLOSED, STOPPED} /\ p.dead # p.sta
    /\ p.phase # "DEAD" => p.dead = FALSE

LcpRuns(p) ==
    p.phase \in {"ESTABLISHMENT", "TERMINATION"} => p.lcp.state \in {0, 4, 5, 6, 7, 8}

LinkFits(p) ==
    /\ IsLink(p) /\ LayerOK(p.lcp) /\ LayerOK(p.ipcp) /\ CountersOK(p.lcp)
    /\ NetNeedsIpcp(p) /\ IpcpHasNet(p) /\ PhaseFits(p) /\ LcpRuns(p)

\* A link that LcpEvent is called for: it may still hold what the callers are
\* about to take down, an open IPCP without an interface (ipcp_up), or LCP in
\* its starting state (io_disconnect).
Live(p, event) ==
    /\ IsLink(p) /\ p.phase # "DEAD" /\ PhaseFits(p)
    /\ LayerOK(p.ipcp) /\ ReadyFor(p.lcp, event) /\ CountersOK(p.lcp) /\ TimedRight(p.lcp, event)
    /\ NetNeedsIpcp(p)
    /\ IpcpHasNet(p) \/ (event = "CLOSE" /\ p.phase \in {"NETWORK", "LINK_UP"})
    /\ p.phase \in {"ESTABLISHMENT", "TERMINATION"} => p.lcp.state \in {0, 1, 4, 5, 6, 7, 8}
    /\ p.lcp.state \in 4 .. 9 \/ event = "CLOSE"

\* Where LCP goes, and where it came from.
Moves(p, q, event) ==
    /\ q.lcp.state \in 6 .. 9 => p.lcp.state \in 6 .. 9
    /\ q.lcp.state = 0 => p.lcp.state = 0 \/ q.phase = "DEAD"
    /\ p.lcp.state \in {0, 4} => q.lcp.state \in {0, 2, 4}
    /\ event = "CLOSE" => q.lcp.state \in {0, 4}
    /\ event = "CLOSE" /\ p.lcp.state \in {0, 1} => q.lcp.state = 0
    /\ q.connect = p.connect

\* lcp_down takes IPCP and the interface down.
LEMMA LcpDown ==
    ASSUME NEW p, IsLink(p), LayerOK(p.ipcp), NetNeedsIpcp(p), p.phase # "DEAD",
           p.phase \in {"NETWORK", "LINK_UP"} \/ p.ipcp.state \in {INITIAL, STARTING},
           NEW q, q = lcp_down(p)
    PROVE  /\ IsLink(q) /\ LayerOK(q.ipcp) /\ SameButIpcp(p, q) /\ q.phase = "TERMINATION"
           /\ q.net = FALSE /\ q.ipcp.state \in {INITIAL, STARTING}
<1> DEFINE a == IF p.phase \in {"NETWORK", "LINK_UP"} THEN SignalIpcp(p, "DOWN") ELSE p
<1>1. q = enter_phase(a, "TERMINATION")
    BY DEF lcp_down
<1>2. /\ IsLink(a) /\ LayerOK(a.ipcp) /\ SameButIpcp(p, a) /\ NetNeedsIpcp(a)
      /\ a.ipcp.state \in {INITIAL, STARTING}
    <2>1. "DOWN" \in Signals
        BY DEF Signals
    <2> QED
        BY <2>1, SignalStep DEF SameButIpcp
<1> HIDE DEF a
<1>3. "TERMINATION" \in Phases
    BY DEF Phases
<1>4. a.net = FALSE
    BY <1>2 DEF NetNeedsIpcp, IsLink, INITIAL, STARTING, OPENED
<1>5. IsLink(q) /\ Entered(a, "TERMINATION", q)
    BY <1>1, <1>2, <1>3, EnterPhase
<1> QED
    BY <1>2, <1>4, <1>5 DEF SameButIpcp, Entered

\* Every event of LCP leaves a link whose layers, interface and phase fit.
LEMMA LcpStep ==
    ASSUME NEW p, NEW event \in Events \ {"UP", "DOWN", "OPEN"}, Live(p, event), NEW answer,
           NEW q, q = LcpEvent(p, event, answer)
    PROVE  LinkFits(q) /\ Moves(p, q, event)
<1> DEFINE tr == Transition(p.lcp, event)
           c == generate_event(p.lcp, event, answer)
           b == [p EXCEPT !.lcp = c, !.sta = (p.sta \/ "STA" \in tr.acts)]
<1>1. event \in Events /\ IsLayer(p.lcp) /\ p.lcp.state \in 0 .. 9
    BY DEF IsLink, IsLayer, INITIAL, OPENED, Live
<1>2. Row(event, p.lcp.state, tr)
    BY <1>1, TheRow
<1>3. IsLayer(c) /\ LayerOK(c) /\ CountersOK(c)
    BY <1>1, LayerStep, CountersStep DEF Live
<1>4. c.state = IF "INV" \in tr.acts THEN p.lcp.state ELSE tr.next
    <2>1. CASE "INV" \in tr.acts
        BY <2>1 DEF generate_event
    <2>2. CASE "INV" \notin tr.acts
        BY <1>1, <1>2, <2>2, Event DEF Row, EventFields
    <2> QED
        BY <2>1, <2>2
<1> HIDE DEF c
<1>5. /\ IsLink(b) /\ b.lcp = c /\ b.ipcp = p.ipcp /\ b.phase = p.phase /\ b.net = p.net
      /\ b.chap = p.chap /\ b.dead = p.dead /\ b.connect = p.connect
      /\ "STA" \notin tr.acts => b.sta = p.sta
    <2> DEFINE sta == (p.sta \/ "STA" \in tr.acts)
    <2>1. IsLink(p)
        BY DEF Live
    <2>2. sta \in BOOLEAN /\ ("STA" \notin tr.acts => sta = p.sta)
        BY <2>1 DEF IsLink
    <2>3. b = [p EXCEPT !.lcp = c, !.sta = sta]
        OBVIOUS
    <2> HIDE DEF sta, b
    <2> QED
        BY <1>3, <2>1, <2>2, <2>3 DEF IsLink
<1>6. q = IF "TLU" \in tr.acts THEN lcp_up(b)
          ELSE IF "TLD" \in tr.acts THEN lcp_down(b)
          ELSE IF "TLF" \in tr.acts THEN enter_phase(b, "DEAD") ELSE b
    BY DEF LcpEvent, Layer, c
<1> HIDE DEF b
<1>7. /\ "TLU" \in tr.acts => c.state = 9 /\ p.lcp.state \in {7, 8}
      /\ "TLD" \in tr.acts <=> p.lcp.state = 9 /\ c.state # 9
      /\ "TLF" \in tr.acts => p.lcp.state # 9 /\ "STA" \notin tr.acts /\ c.state \in {0, 2, 3}
      /\ c.state = 9 => "TLU" \in tr.acts \/ p.lcp.state = 9
      /\ c.state \in 6 .. 9 => p.lcp.state \in 6 .. 9
      /\ p.lcp.state \in 4 .. 9 =>
            /\ c.state \in 2 .. 9
            /\ c.state \in {2, 3} => "TLF" \in tr.acts
            /\ p.lcp.state = 4 => c.state \in {2, 4}
            /\ event = "CLOSE" => c.state = 4
      /\ event = "CLOSE" /\ p.lcp.state \in {0, 1} =>
            c.state = 0 /\ ("TLF" \in tr.acts <=> p.lcp.state = 1)
    <2>0. p.lcp.state \in 4 .. 9 \/ event = "CLOSE"
        BY DEF Live
    <2>1. ASSUME "INV" \in tr.acts
          PROVE  /\ "TLU" \notin tr.acts /\ "TLD" \notin tr.acts /\ "TLF" \notin tr.acts
                 /\ c.state = p.lcp.state /\ event # "CLOSE" /\ p.lcp.state \in 4 .. 9
        BY <1>2, <1>4, <2>0, <2>1 DEF Row, TypeRow, StateRow
    <2>2. ASSUME "INV" \notin tr.acts PROVE c.state = tr.next
        BY <1>4, <2>2
    <2>3. "INV" \notin tr.acts =>
            /\ tr.next = 9 => "TLU" \in tr.acts \/ p.lcp.state = 9
            /\ "TLU" \in tr.acts => tr.next = 9 /\ p.lcp.state \in {7, 8}
            /\ "TLD" \in tr.acts <=> (p.lcp.state = 9 /\ tr.next # 9)
            /\ "TLF" \in tr.acts => p.lcp.state # 9 /\ "STA" \notin tr.acts /\ tr.next \in {0, 2, 3}
        BY <1>2 DEF Row, LayerRow
    <2>4. "INV" \notin tr.acts =>
            (tr.next \in 6 .. 9 => p.lcp.state \in 6 .. 9 \/ (p.lcp.state \in 0 .. 3 /\ event # "CLOSE"))
        BY <1>2 DEF Row, CounterRow
    <2>5. /\ "INV" \notin tr.acts /\ p.lcp.state \in 4 .. 9 =>
                /\ tr.next \in 2 .. 9
                /\ tr.next \in {2, 3} => "TLF" \in tr.acts
                /\ p.lcp.state = 4 => tr.next \in {2, 4}
          /\ event = "CLOSE" =>
                /\ p.lcp.state \in 4 .. 9 => tr.next = 4
                /\ p.lcp.state \in {0, 1} => tr.next = 0 /\ ("TLF" \in tr.acts <=> p.lcp.state = 1)
        BY <1>2 DEF Row, StateRow
    <2>6. CASE "INV" \in tr.acts
        BY <2>1, <2>6
    <2>7. CASE "INV" \notin tr.acts
        BY <1>1, <2>0, <2>2, <2>3, <2>4, <2>5, <2>7
    <2> QED
        BY <2>6, <2>7
<1>8. /\ p.phase \in {"ESTABLISHMENT", "TERMINATION"} => p.lcp.state \in {0, 1, 4, 5, 6, 7, 8}
      /\ p.phase \in {"AUTHENTICATION", "NETWORK", "LINK_UP"} => p.lcp.state = 9
      /\ p.phase = "AUTHENTICATION" => p.ipcp.state \in {0, 1}
      /\ p.ipcp.state \notin {0, 1} => p.lcp.state = 9
      /\ p.phase \in Phases \ {"DEAD"} /\ p.dead = FALSE
      /\ p.lcp.state \in 4 .. 9 \/ event = "CLOSE"
      /\ p.lcp.state \in {0, 1, 4, 5, 6, 7, 8, 9}
    BY DEF Live, PhaseFits, INITIAL, STARTING, OPENED, IsLink, Phases
<1>9. LayerOK(b.ipcp) /\ NetNeedsIpcp(b)
    BY <1>5 DEF Live, NetNeedsIpcp
<1>10. CASE "TLU" \in tr.acts
    <2>1. q = IF b.chap = TRUE THEN enter_phase(b, "AUTHENTICATION") ELSE auth_notify(b)
        BY <1>5, <1>6, <1>10 DEF lcp_up, IsLink
    <2>2. p.ipcp.state \in {0, 1} /\ c.state = 9 /\ event # "CLOSE" /\ p.lcp.state \in {7, 8}
        BY <1>7, <1>8, <1>10
    <2>3. b.net = FALSE /\ b.dead = FALSE
        BY <1>5, <1>8, <1>9, <2>2 DEF NetNeedsIpcp, OPENED, IsLink
    <2>4. /\ IsLink(q) /\ LayerOK(q.ipcp) /\ SameButIpcp(b, q) /\ NetNeedsIpcp(q) /\ IpcpHasNet(q)
          /\ q.phase \in {"AUTHENTICATION", "NETWORK"}
          /\ q.phase = "AUTHENTICATION" => q.ipcp.state \in {0, 1}
        <3>1. IpcpHasNet(b)
            BY <1>5, <2>2 DEF IpcpHasNet, OPENED
        <3>2. CASE b.chap = TRUE
            <4>1. "AUTHENTICATION" \in Phases
                BY DEF Phases
            <4>2. q = enter_phase(b, "AUTHENTICATION")
                BY <2>1, <3>2
            <4>3. IsLink(q) /\ Entered(b, "AUTHENTICATION", q)
                BY <1>5, <4>1, <4>2, EnterPhase
            <4> QED
                BY <1>5, <1>9, <2>2, <3>1, <4>3 DEF Entered, SameButIpcp, NetNeedsIpcp, IpcpHasNet
        <3>3. CASE b.chap # TRUE
            BY <1>5, <1>9, <2>1, <3>1, <3>3, NotifyStep
        <3> QED
            BY <3>2, <3>3
    <2> QED
        BY <1>3, <1>5, <2>2, <2>3, <2>4
        DEF LinkFits, PhaseFits, LcpRuns, Moves, SameButIpcp, INITIAL, STARTING, OPENED
<1>11. CASE "TLD" \in tr.acts
    <2>1. q = lcp_down(b) /\ p.lcp.state = 9 /\ c.state # 9
        BY <1>6, <1>7, <1>11
    <2>2. /\ IsLink(q) /\ LayerOK(q.ipcp) /\ SameButIpcp(b, q) /\ q.phase = "TERMINATION"
          /\ q.net = FALSE /\ q.ipcp.state \in {0, 1}
        <3>1. b.phase \in {"NETWORK", "LINK_UP"} \/ b.ipcp.state \in {0, 1}
            BY <1>5, <1>8, <2>1 DEF Phases
        <3> QED
            BY <1>5, <1>8, <1>9, <2>1, <3>1, LcpDown DEF INITIAL, STARTING
    <2>3. c.state \in {4, 5, 6, 7, 8} /\ (event = "CLOSE" => c.state = 4)
        BY <1>7, <1>11, <2>1
    <2> QED
        BY <1>3, <1>5, <1>8, <2>1, <2>2, <2>3
        DEF LinkFits, PhaseFits, LcpRuns, Moves, SameButIpcp, INITIAL, STARTING, OPENED,
            NetNeedsIpcp, IpcpHasNet
<1>12. CASE "TLF" \in tr.acts
    <2>1. p.lcp.state # 9 /\ "STA" \notin tr.acts /\ c.state \in {0, 2, 3} /\ "TLU" \notin tr.acts
          /\ "TLD" \notin tr.acts
        BY <1>7, <1>12
    <2>2. p.ipcp.state \in {0, 1}
        BY <1>8, <2>1
    <2>3. IsLink(q) /\ Entered(b, "DEAD", q)
        <3>1. "DEAD" \in Phases
            BY DEF Phases
        <3> QED
            BY <1>5, <1>6, <1>12, <2>1, <3>1, EnterPhase
    <2>4. q.dead # q.sta /\ q.lcp = c /\ q.ipcp = p.ipcp /\ q.net = p.net /\ q.phase = "DEAD"
          /\ q.connect = p.connect
        BY <1>5, <1>8, <2>3 DEF Entered
    <2>5. Moves(p, q, event)
        BY <1>7, <1>8, <1>12, <2>1, <2>4 DEF Moves
    <2> QED
        BY <1>3, <1>5, <1>9, <2>1, <2>2, <2>3, <2>4, <2>5
        DEF LinkFits, PhaseFits, LcpRuns, INITIAL, STARTING, CLOSED, STOPPED, OPENED,
            NetNeedsIpcp, IpcpHasNet
<1>13. CASE "TLU" \notin tr.acts /\ "TLD" \notin tr.acts /\ "TLF" \notin tr.acts
    <2>1. q = b
        BY <1>6, <1>13
    <2>2. /\ c.state = 9 <=> p.lcp.state = 9
          /\ p.lcp.state \in 4 .. 9 => c.state \in 4 .. 9
          /\ p.lcp.state = 0 => c.state = 0
          /\ p.lcp.state # 1
          /\ event = "CLOSE" => c.state \in {0, 4} /\ p.lcp.state \in {0, 4, 5, 6, 7, 8}
        BY <1>7, <1>8, <1>13, <1>1
    <2>3. IpcpHasNet(b)
        BY <1>5, <1>8, <2>2 DEF IpcpHasNet, Live
    <2>4. Moves(p, q, event)
        BY <1>5, <1>7, <1>8, <2>1, <2>2 DEF Moves
    <2> QED
        BY <1>3, <1>5, <1>8, <1>9, <2>1, <2>2, <2>3, <2>4
        DEF LinkFits, PhaseFits, LcpRuns, INITIAL, STARTING, OPENED
<1> QED
    BY <1>10, <1>11, <1>12, <1>13

\* Close is such an event, whoever calls it.
LEMMA CloseStep ==
    ASSUME NEW p, IsLink(p), p.phase # "DEAD", PhaseFits(p), LayerOK(p.ipcp), LayerOK(p.lcp),
           CountersOK(p.lcp), NetNeedsIpcp(p), IpcpHasNet(p) \/ p.phase \in {"NETWORK", "LINK_UP"},
           p.phase \in {"ESTABLISHMENT", "TERMINATION"} => p.lcp.state \in {0, 1, 4, 5, 6, 7, 8}
    PROVE  LinkFits(CloseLcp(p)) /\ Moves(p, CloseLcp(p), "CLOSE")
<1>1. Live(p, "CLOSE")
    BY DEF Live, LayerOK, ReadyFor, TimedRight
<1>2. "CLOSE" \in Events \ {"UP", "DOWN", "OPEN"}
    BY DEF Events
<1> QED
    BY <1>1, <1>2, LcpStep DEF CloseLcp

\* The network comes up only with an IPCP that was not open.
IpcpOutcome(p, q) ==
    /\ LinkFits(q) /\ q.lcp.state \in {0, 4, 9} /\ (q.lcp.state = 0 => q.phase = "DEAD")
    /\ q.connect = TRUE => p.ipcp.state # OPENED /\ q.ipcp.state = OPENED

\* Every event of IPCP leaves a link that fits.
LEMMA IpcpStep ==
    ASSUME NEW p, LinkFits(p), p.phase \in {"NETWORK", "LINK_UP"}, p.connect = FALSE,
           NEW p1, IsLink(p1), SameButIpcp(p, p1), p1.phase = p.phase, p1.net = p.net,
           p1.ipcp.state = p.ipcp.state,
           NEW event \in Events \ Signals, ReadyFor(p1.ipcp, event), NEW answer,
           NEW created \in BOOLEAN
    PROVE  IpcpOutcome(p, IpcpEvent(p1, event, answer, created))
<1> DEFINE q == IpcpEvent(p1, event, answer, created)
<1> SUFFICES /\ LinkFits(q) /\ q.lcp.state \in {0, 4, 9} /\ (q.lcp.state = 0 => q.phase = "DEAD")
             /\ q.connect = TRUE => p.ipcp.state # OPENED /\ q.ipcp.state = OPENED
    BY DEF IpcpOutcome
<1> DEFINE tr == Transition(p1.ipcp, event)
           c == generate_event(p1.ipcp, event, answer)
           b == [p1 EXCEPT !.ipcp = c]
<1>1. event \in Events /\ IsLayer(p1.ipcp) /\ p1.ipcp.state \in 0 .. 9
    BY DEF IsLink, IsLayer, INITIAL, OPENED
<1>2. Row(event, p1.ipcp.state, tr)
    BY <1>1, TheRow
<1>3. IsLayer(c) /\ LayerOK(c)
    BY <1>1, LayerStep
<1>4. c.state = IF "INV" \in tr.acts THEN p1.ipcp.state ELSE tr.next
    <2>1. CASE "INV" \in tr.acts
        BY <2>1 DEF generate_event
    <2>2. CASE "INV" \notin tr.acts
        BY <1>1, <1>2, <2>2, Event DEF Row, EventFields
    <2> QED
        BY <2>1, <2>2
<1> HIDE DEF c
<1>5. /\ IsLink(b) /\ SameButIpcp(p, b) /\ b.ipcp = c /\ b.phase = p.phase /\ b.net = p.net
    BY <1>3 DEF IsLink, SameButIpcp
<1>6. q = IF "TLU" \in tr.acts THEN ipcp_up(b, created)
          ELSE IF "TLD" \in tr.acts THEN ipcp_down(b)
          ELSE IF "TLF" \in tr.acts THEN ipcp_finished(b) ELSE b
    BY DEF IpcpEvent, Layer, c
<1> HIDE DEF b, q
<1>7. /\ "TLU" \in tr.acts => c.state = 9 /\ p.ipcp.state \in {7, 8}
      /\ "TLD" \in tr.acts <=> p.ipcp.state = 9 /\ c.state # 9
      /\ "TLD" \in tr.acts => c.state # 7
      /\ "TLF" \in tr.acts => p.ipcp.state # 9 /\ c.state \in {0, 2, 3}
      /\ c.state = 9 => "TLU" \in tr.acts \/ p.ipcp.state = 9
    <2>1. "INV" \in tr.acts => "TLU" \notin tr.acts /\ "TLD" \notin tr.acts /\ "TLF" \notin tr.acts
        BY <1>2 DEF Row, TypeRow
    <2>2. "INV" \notin tr.acts =>
            /\ tr.next = 9 => "TLU" \in tr.acts \/ p.ipcp.state = 9
            /\ "TLU" \in tr.acts => tr.next = 9 /\ p.ipcp.state \in {7, 8}
            /\ "TLD" \in tr.acts <=> (p.ipcp.state = 9 /\ tr.next # 9)
            /\ "TLD" \in tr.acts => tr.next # 7
            /\ "TLF" \in tr.acts => p.ipcp.state # 9 /\ tr.next \in {0, 2, 3}
        BY <1>2 DEF Row, LayerRow
    <2> QED
        BY <1>4, <2>1, <2>2
<1>8. /\ LayerOK(b.ipcp) /\ LayerOK(b.lcp) /\ CountersOK(b.lcp) /\ b.connect = FALSE
      /\ b.lcp.state = 9 /\ b.dead = FALSE /\ b.phase \in {"NETWORK", "LINK_UP"}
      /\ p.net = TRUE <=> p.ipcp.state = 9
    BY <1>3, <1>5
    DEF LinkFits, PhaseFits, SameButIpcp, NetNeedsIpcp, IpcpHasNet, OPENED
<1>9. PhaseFits(b) /\ LcpRuns(b)
    BY <1>8 DEF PhaseFits, LcpRuns, OPENED
<1>10. CASE "TLU" \in tr.acts
    <2>1. c.state = 9 /\ p.ipcp.state # 9 /\ p.net = FALSE /\ NetNeedsIpcp(b)
        BY <1>5, <1>7, <1>8, <1>10 DEF NetNeedsIpcp, IsLink
    <2>2. CASE created = TRUE
        <3> DEFINE e == enter_phase(b, "LINK_UP")
        <3>1. q = [e EXCEPT !.net = TRUE, !.connect = TRUE]
            BY <1>6, <1>10, <2>2 DEF ipcp_up
        <3>2. IsLink(e) /\ Entered(b, "LINK_UP", e)
            <4>1. "LINK_UP" \in Phases
                BY DEF Phases
            <4> QED
                BY <1>5, <4>1, EnterPhase
        <3> HIDE DEF e
        <3>3. /\ IsLink(q) /\ q.lcp = e.lcp /\ q.ipcp = e.ipcp /\ q.phase = "LINK_UP"
              /\ q.net = TRUE /\ q.dead = e.dead
            BY <3>1, <3>2 DEF IsLink, Entered
        <3>4. q.lcp = b.lcp /\ q.ipcp = c /\ q.dead = FALSE
            BY <1>5, <1>8, <3>2, <3>3 DEF Entered
        <3> QED
            BY <1>3, <1>8, <2>1, <3>3, <3>4
            DEF LinkFits, PhaseFits, LcpRuns, NetNeedsIpcp, IpcpHasNet, OPENED
    <2>3. CASE created # TRUE
        <3>1. q = CloseLcp(b)
            BY <1>6, <1>10, <2>3 DEF ipcp_up
        <3>2. LinkFits(q) /\ Moves(b, q, "CLOSE")
            BY <1>5, <1>8, <1>9, <2>1, <3>1, CloseStep
        <3> QED
            BY <1>8, <3>2 DEF Moves
    <2> QED
        BY <2>2, <2>3
<1>11. CASE "TLD" \in tr.acts
    <2>1. q = ipcp_down(b) /\ c.state # 9 /\ c.state # 7
        BY <1>6, <1>7, <1>11
    <2>2. /\ IsLink(q) /\ LayerOK(q.ipcp) /\ SameButIpcp(b, q) /\ q.phase = b.phase
          /\ q.net = FALSE /\ q.ipcp.state = c.state
        BY <1>5, <1>8, <2>1, DownType DEF ACKRCVD, OPENED
    <2> QED
        BY <1>5, <1>8, <2>1, <2>2
        DEF LinkFits, PhaseFits, LcpRuns, SameButIpcp, NetNeedsIpcp, IpcpHasNet, OPENED
<1>12. CASE "TLF" \in tr.acts
    <2>1. q = ipcp_finished(b) /\ p.ipcp.state # 9 /\ c.state # 9 /\ p.net = FALSE
        BY <1>5, <1>6, <1>7, <1>8, <1>12 DEF IsLink
    <2>2. NetNeedsIpcp(b) /\ IpcpHasNet(b)
        BY <1>5, <2>1 DEF NetNeedsIpcp, IpcpHasNet, OPENED
    <2>3. CASE b.phase = "NETWORK"
        <3> DEFINE d == SignalIpcp(b, "CLOSE")
        <3>1. q = CloseLcp(d)
            BY <2>1, <2>3 DEF ipcp_finished
        <3>2. /\ IsLink(d) /\ LayerOK(d.ipcp) /\ SameButIpcp(b, d) /\ d.phase = b.phase
              /\ NetNeedsIpcp(d) /\ IpcpHasNet(d)
            <4>1. "CLOSE" \in Signals
                BY DEF Signals
            <4> QED
                BY <1>5, <1>8, <2>2, <4>1, SignalStep
        <3> HIDE DEF d
        <3>3. PhaseFits(d) /\ LayerOK(d.lcp) /\ CountersOK(d.lcp)
            BY <1>8, <2>3, <3>2 DEF PhaseFits, SameButIpcp, OPENED
        <3>4. LinkFits(q) /\ Moves(d, q, "CLOSE")
            BY <2>3, <3>1, <3>2, <3>3, CloseStep
        <3> QED
            BY <1>8, <3>2, <3>4 DEF Moves, SameButIpcp
    <2>4. CASE b.phase # "NETWORK"
        <3>1. q = b
            BY <2>1, <2>4 DEF ipcp_finished
        <3> QED
            BY <1>5, <1>8, <1>9, <2>2, <3>1 DEF LinkFits
    <2> QED
        BY <2>3, <2>4
<1>13. CASE "TLU" \notin tr.acts /\ "TLD" \notin tr.acts /\ "TLF" \notin tr.acts
    <2>1. q = b /\ (c.state = 9 <=> p.ipcp.state = 9)
        BY <1>6, <1>7, <1>13
    <2>2. NetNeedsIpcp(q) /\ IpcpHasNet(q)
        BY <1>5, <1>8, <2>1 DEF NetNeedsIpcp, IpcpHasNet, OPENED
    <2> QED
        BY <1>5, <1>8, <1>9, <2>1, <2>2 DEF LinkFits
<1> QED
    BY <1>10, <1>11, <1>12, <1>13

\* The loss of the channel: LCP ends in its initial state.
LEMMA HangUpStep ==
    ASSUME NEW p, LinkFits(p), p.phase # "DEAD", NEW q, q = CloseLcp(LcpEvent(p, "DOWN", "none"))
    PROVE  LinkFits(q) /\ q.lcp.state = 0 /\ q.connect = p.connect
<1> DEFINE tr == Transition(p.lcp, "DOWN")
           c == generate_event(p.lcp, "DOWN", "none")
           b == [p EXCEPT !.lcp = c, !.sta = (p.sta \/ "STA" \in tr.acts)]
           d == LcpEvent(p, "DOWN", "none")
<1>1. "DOWN" \in Events /\ IsLink(p) /\ IsLayer(p.lcp) /\ p.lcp.state \in 0 .. 9
    BY DEF Events, LinkFits, IsLink, IsLayer, INITIAL, OPENED
<1>2. Row("DOWN", p.lcp.state, tr)
    BY <1>1, TheRow
<1>3. IsLayer(c) /\ LayerOK(c) /\ CountersOK(c)
    <2>1. ReadyFor(p.lcp, "DOWN") /\ TimedRight(p.lcp, "DOWN") /\ CountersOK(p.lcp)
        BY DEF LinkFits, LayerOK, ReadyFor, TimedRight
    <2> QED
        BY <1>1, <2>1, LayerStep, CountersStep
<1>4. c.state = IF "INV" \in tr.acts THEN p.lcp.state ELSE tr.next
    <2>1. CASE "INV" \in tr.acts
        BY <2>1 DEF generate_event
    <2>2. CASE "INV" \notin tr.acts
        BY <1>1, <1>2, <2>2, Event DEF Row, EventFields
    <2> QED
        BY <2>1, <2>2
<1> HIDE DEF c
<1>5. /\ IsLink(b) /\ b.lcp = c /\ b.ipcp = p.ipcp /\ b.phase = p.phase /\ b.net = p.net
      /\ b.dead = p.dead /\ b.connect = p.connect
    <2> DEFINE sta == (p.sta \/ "STA" \in tr.acts)
    <2>1. sta \in BOOLEAN
        BY <1>1 DEF IsLink
    <2>2. b = [p EXCEPT !.lcp = c, !.sta = sta]
        OBVIOUS
    <2> HIDE DEF sta, b
    <2> QED
        BY <1>1, <1>3, <2>1, <2>2 DEF IsLink
<1>6. d = IF "TLU" \in tr.acts THEN lcp_up(b)
          ELSE IF "TLD" \in tr.acts THEN lcp_down(b)
          ELSE IF "TLF" \in tr.acts THEN enter_phase(b, "DEAD") ELSE b
    BY DEF LcpEvent, Layer, c
<1> HIDE DEF b
<1>7. /\ "TLU" \notin tr.acts /\ "TLF" \notin tr.acts
      /\ "TLD" \in tr.acts <=> p.lcp.state = 9
      /\ c.state \in {0, 1}
    <2>1. "INV" \in tr.acts => "TLU" \notin tr.acts /\ "TLD" \notin tr.acts
        BY <1>2 DEF Row, TypeRow
    <2>2. "INV" \notin tr.acts =>
            /\ "TLU" \in tr.acts => tr.next = 9
            /\ "TLD" \in tr.acts <=> (p.lcp.state = 9 /\ tr.next # 9)
        BY <1>2 DEF Row, LayerRow
    <2>3. /\ ("INV" \in tr.acts <=> p.lcp.state \in {0, 1}) /\ "TLF" \notin tr.acts
          /\ p.lcp.state \notin {0, 1} => tr.next \in {0, 1}
        BY <1>2 DEF Row, StateRow
    <2> QED
        BY <1>4, <2>1, <2>2, <2>3
<1>8. /\ IsLink(d) /\ d.lcp = c /\ d.phase \in {"ESTABLISHMENT", "TERMINATION"}
      /\ d.dead = FALSE /\ d.connect = p.connect
      /\ LayerOK(d.ipcp) /\ d.ipcp.state \in {0, 1} /\ d.net = FALSE
    <2>1. /\ LayerOK(b.ipcp) /\ NetNeedsIpcp(b) /\ b.dead = FALSE /\ b.phase \in Phases \ {"DEAD"}
          /\ b.phase \in {"AUTHENTICATION", "NETWORK", "LINK_UP"} => p.lcp.state = 9
          /\ b.phase = "AUTHENTICATION" => b.ipcp.state \in {0, 1}
          /\ b.phase \in {"ESTABLISHMENT", "TERMINATION"} => p.lcp.state # 9
          /\ p.lcp.state # 9 => b.ipcp.state \in {0, 1}
        BY <1>5 DEF LinkFits, PhaseFits, LcpRuns, NetNeedsIpcp, IsLink, INITIAL, STARTING, OPENED
    <2>2. CASE p.lcp.state = 9
        <3>1. d = lcp_down(b)
            BY <1>6, <1>7, <2>2
        <3>2. b.phase \in {"NETWORK", "LINK_UP"} \/ b.ipcp.state \in {0, 1}
            BY <2>1, <2>2 DEF Phases
        <3>3. /\ IsLink(d) /\ LayerOK(d.ipcp) /\ SameButIpcp(b, d) /\ d.phase = "TERMINATION"
              /\ d.net = FALSE /\ d.ipcp.state \in {0, 1}
            BY <1>5, <2>1, <3>1, <3>2, LcpDown DEF INITIAL, STARTING
        <3> QED
            BY <1>5, <2>1, <3>3 DEF SameButIpcp
    <2>3. CASE p.lcp.state # 9
        <3>1. d = b
            BY <1>6, <1>7, <2>3
        <3>2. b.net = FALSE
            BY <1>5, <2>1, <2>3 DEF NetNeedsIpcp, IsLink, OPENED
        <3> QED
            BY <1>5, <2>1, <2>3, <3>1, <3>2 DEF Phases
    <2> QED
        BY <2>2, <2>3
<1> HIDE DEF d
<1>9. PhaseFits(d) /\ NetNeedsIpcp(d) /\ IpcpHasNet(d)
    BY <1>8 DEF PhaseFits, NetNeedsIpcp, IpcpHasNet, INITIAL, STARTING, OPENED
<1>10. LinkFits(q) /\ Moves(d, q, "CLOSE")
    <2>1. d.phase # "DEAD" /\ d.lcp.state \in {0, 1}
        BY <1>7, <1>8
    <2>2. q = CloseLcp(d)
        BY DEF d
    <2> QED
        BY <1>3, <1>8, <1>9, <2>1, <2>2, CloseStep
<1>11. q.lcp.state = 0
    BY <1>7, <1>8, <1>10 DEF Moves
<1> QED
    BY <1>8, <1>10, <1>11 DEF Moves

\* A new link negotiates LCP.
FreshLink == LcpEvent(LcpEvent(ppp_new, "UP", "none"), "OPEN", "none")

\* ... and fits.
LEMMA NewStep ==
    ASSUME NEW q, q = enter_phase(FreshLink, "ESTABLISHMENT")
    PROVE  LinkFits(q) /\ q.lcp.state = 6 /\ q.connect = FALSE
<1> DEFINE new == pppcp_new(INITIAL)
           c == generate_event(new, "UP", "none")
           d == generate_event(c, "OPEN", "none")
           a == LcpEvent(ppp_new, "UP", "none")
           b == LcpEvent(a, "OPEN", "none")
<1>1. /\ IsLayer(new) /\ LayerOK(new) /\ CountersOK(new)
      /\ new.state = 0 /\ new.terminate = 0
    BY PppCpAssumption
    DEF pppcp_new, IsLayer, LayerOK, CountersOK, Counters, TimerLists, Options, INITIAL, OPENED,
        ACKRCVD, ACKSENT, Negotiating, REQSENT, CLOSING, STOPPING
<1>2. /\ "UP" \in Events /\ "OPEN" \in Events
    BY DEF Events
<1>3. Transition(new, "UP").acts = {} /\ Transition(new, "UP").next = 2
    BY <1>1, <1>2, TheRow DEF Row, StateRow
<1>4. IsLayer(c) /\ LayerOK(c) /\ CountersOK(c) /\ c.state = 2 /\ c.terminate = 0
    <2>1. ReadyFor(new, "UP") /\ TimedRight(new, "UP")
        BY <1>1 DEF LayerOK, ReadyFor, TimedRight
    <2>2. IsLayer(c) /\ LayerOK(c) /\ CountersOK(c)
        BY <1>1, <1>2, <2>1, LayerStep, CountersStep
    <2>3. EventFields(new, Transition(new, "UP"), c)
        BY <1>1, <1>2, <1>3, TheRow, Event DEF Row
    <2> QED
        BY <1>1, <1>3, <2>2, <2>3 DEF EventFields
<1>5. a = [ppp_new EXCEPT !.lcp = c, !.sta = FALSE]
    <2>1. a = [ppp_new EXCEPT !.lcp = c, !.sta = ppp_new.sta \/ FALSE]
        BY <1>3 DEF LcpEvent, Layer, ppp_new
    <2>2. (ppp_new.sta \/ FALSE) = FALSE
        BY DEF ppp_new
    <2> QED
        BY <2>1, <2>2
<1> HIDE DEF new, c
<1>6. /\ IsLink(a) /\ a.lcp = c /\ a.ipcp = new /\ a.net = FALSE /\ a.sta = FALSE
      /\ a.dead = FALSE /\ a.connect = FALSE
    BY <1>1, <1>4, <1>5 DEF ppp_new, IsLink, Phases, new
<1> HIDE DEF a
<1>7. Transition(c, "OPEN").acts = {"IRC", "SCR"} /\ Transition(c, "OPEN").next = 6
    BY <1>2, <1>4, TheRow DEF Row, StateRow
<1>8. IsLayer(d) /\ LayerOK(d) /\ CountersOK(d) /\ d.state = 6
    <2>1. ReadyFor(c, "OPEN") /\ TimedRight(c, "OPEN")
        BY <1>4 DEF LayerOK, ReadyFor, TimedRight
    <2>2. IsLayer(d) /\ LayerOK(d) /\ CountersOK(d)
        BY <1>2, <1>4, <2>1, LayerStep, CountersStep
    <2>3. EventFields(c, Transition(c, "OPEN"), d)
        BY <1>2, <1>4, <1>7, TheRow, Event DEF Row
    <2> QED
        BY <1>7, <2>2, <2>3 DEF EventFields
<1>9. b = [a EXCEPT !.lcp = d]
    <2>1. b = [a EXCEPT !.lcp = d, !.sta = a.sta \/ FALSE]
        BY <1>6, <1>7 DEF LcpEvent, Layer
    <2> QED
        BY <1>6, <2>1 DEF IsLink
<1> HIDE DEF d
<1>10. /\ IsLink(b) /\ b.lcp = d /\ b.ipcp = new /\ b.net = FALSE /\ b.dead = FALSE
       /\ b.connect = FALSE
    BY <1>6, <1>8, <1>9 DEF IsLink
<1>11. q = enter_phase(b, "ESTABLISHMENT")
    BY DEF FreshLink, a
<1> HIDE DEF b
<1>12. IsLink(q) /\ Entered(b, "ESTABLISHMENT", q)
    <2>1. "ESTABLISHMENT" \in Phases
        BY DEF Phases
    <2> QED
        BY <1>10, <1>11, <2>1, EnterPhase
<1> QED
    BY <1>1, <1>8, <1>10, <1>12
    DEF Entered, LinkFits, NetNeedsIpcp, IpcpHasNet, PhaseFits, LcpRuns, INITIAL, OPENED

-----------------------------------------------------------------------------
(* The invariant of the call.                                              *)

\* The link: a link without LCP has lost its channel, and one that is shut
\* down is closing, closed, or lost.
LinkInv ==
    ppp # NoPpp =>
        /\ LinkFits(ppp) /\ ppp.connect = FALSE
        /\ ppp.lcp.state = INITIAL /\ ppp.phase # "DEAD" => io = "gone"
        /\ closing = TRUE => ppp.lcp.state \in {INITIAL, CLOSING, CLOSED}

\* The driver and the core: the driver's state says which request waits, and
\* until a layer is negotiated once more only an activation waits for IPCP.
CallInv ==
    /\ gcd.state = "ENABLING" =>
          ctx.active = FALSE /\ ctx.pending = "activate" /\ gcd.cb = "activate"
    /\ gcd.state = "DISABLING" => ctx.pending = "deactivate" /\ gcd.cb = "deactivate"
    /\ ctx.active = TRUE => ppp # NoPpp
    /\ ppp = NoPpp => closing = FALSE
    /\ ppp # NoPpp /\ reopened = FALSE /\ ppp.lcp.state \in 6 .. 9 /\ ppp.ipcp.state # OPENED
          => gcd.state = "ENABLING"
    /\ stray = FALSE

CallType ==
    /\ io \in {"chat", "ppp", "gone"}
    /\ gcd \in [state : {"IDLE", "ENABLING", "ACTIVE", "DISABLING"}, cb : Requests]
    /\ ctx \in [active : BOOLEAN, pending : Requests]
    /\ closing \in BOOLEAN /\ reopened \in BOOLEAN

IInv == CallType /\ LinkInv /\ CallInv

\* A link is not the absent one.
LEMMA NotNoPpp == ASSUME NEW p, IsLink(p) PROVE p # NoPpp
BY DEF IsLink, Phases, NoPpp

\* GAtPPP goes on as q.
Follows(q) ==
    /\ LinkFits(q)
    /\ q.lcp.state \in 6 .. 9 => ppp.lcp.state \in 6 .. 9
    /\ q.lcp.state = INITIAL /\ q.phase # "DEAD" => io' = "gone"
    /\ closing = TRUE => q.lcp.state \in {INITIAL, CLOSING, CLOSED}
    /\ q.connect = TRUE => ppp.lcp.state = OPENED /\ ppp.ipcp.state # OPENED /\ q.ipcp.state = OPENED

\* A link that goes on as Follows says preserves the invariant, reported or not.
LEMMA GoesStep ==
    ASSUME IInv, ppp # NoPpp, NEW q, Follows(q), Goes(q), io' \in {io, "gone"}, closing' = closing
    PROVE  IInv'
<1>1. /\ reopened' \in BOOLEAN
      /\ reopened' = FALSE => reopened = FALSE /\ ~Reopens(ppp, q)
    BY DEF Goes, IInv, CallType
<1>2. /\ LinkFits(ppp') /\ ppp'.connect = FALSE /\ ppp'.lcp = q.lcp /\ ppp'.ipcp = q.ipcp
      /\ ppp'.phase = q.phase /\ ppp' # NoPpp
    <2>1. ppp' = [q EXCEPT !.connect = FALSE] /\ IsLink(q)
        BY DEF Goes, Follows, LinkFits
    <2>2. /\ IsLink(ppp') /\ ppp'.lcp = q.lcp /\ ppp'.ipcp = q.ipcp /\ ppp'.phase = q.phase
          /\ ppp'.net = q.net /\ ppp'.dead = q.dead /\ ppp'.sta = q.sta /\ ppp'.connect = FALSE
        BY <2>1 DEF IsLink
    <2> QED
        BY <2>2, NotNoPpp
        DEF Follows, LinkFits, NetNeedsIpcp, IpcpHasNet, PhaseFits, LcpRuns
<1>3. LinkInv'
    BY <1>2 DEF LinkInv, Follows
<1>4. ASSUME reopened' = FALSE, q.lcp.state \in 6 .. 9, q.ipcp.state # OPENED
      PROVE  gcd.state = "ENABLING"
    <2>1. reopened = FALSE /\ ppp.lcp.state \in 6 .. 9
        BY <1>1, <1>4 DEF Follows
    <2>2. ppp.ipcp.state # OPENED
        <3>1. ppp.ipcp.state = OPENED => ppp.lcp.state = OPENED
            BY DEF IInv, LinkInv, LinkFits, PhaseFits, OPENED, INITIAL, STARTING
        <3> QED
            BY <1>1, <1>4, <3>1 DEF Reopens, OPENED, REQSENT, ACKRCVD, ACKSENT
    <2> QED
        BY <2>1, <2>2 DEF IInv, CallInv
<1>5. CASE q.connect = TRUE
    <2>1. /\ gcd' = [gcd EXCEPT !.state = "ACTIVE"]
          /\ ctx' = [active |-> gcd.cb = "activate", pending |-> "none"]
          /\ stray' = (stray \/ (~reopened' /\ ctx.pending # gcd.cb))
        BY <1>5 DEF Goes, ppp_connect, callback
    <2>2. gcd' \in [state : {"IDLE", "ENABLING", "ACTIVE", "DISABLING"}, cb : Requests]
          /\ gcd'.state = "ACTIVE"
        BY <2>1 DEF IInv, CallType
    <2>3. ctx' \in [active : BOOLEAN, pending : Requests]
        BY <2>1 DEF Requests
    <2>4. reopened' = FALSE => ctx.pending = gcd.cb
        BY <1>1, <1>5 DEF IInv, CallInv, Follows, OPENED
    <2>5. stray' = FALSE
        BY <1>1, <2>1, <2>4 DEF IInv, CallInv
    <2>6. ~(ppp'.lcp.state \in 6 .. 9 /\ ppp'.ipcp.state # OPENED)
        BY <1>2, <1>5 DEF Follows
    <2> QED
        BY <1>1, <1>2, <1>3, <2>2, <2>3, <2>5, <2>6 DEF IInv, CallType, CallInv
<1>6. CASE q.connect # TRUE
    <2>1. UNCHANGED <<gcd, ctx, stray>>
        BY <1>6 DEF Goes, Follows, LinkFits, IsLink
    <2> QED
        BY <1>1, <1>2, <1>3, <1>4, <2>1 DEF IInv, CallType, CallInv
<1> QED
    BY <1>5, <1>6

\* Follows for an event of LCP.
LEMMA LcpFollows ==
    ASSUME IInv, ppp # NoPpp, ppp.phase # "DEAD", NEW p, NEW event, NEW q, LinkFits(q),
           p.lcp.state = ppp.lcp.state, p.connect = FALSE, Moves(p, q, event), io' = io
    PROVE  Follows(q)
<1>1. ppp.lcp.state = INITIAL => io = "gone"
    BY DEF IInv, LinkInv
<1>2. closing = TRUE => ppp.lcp.state \in {0, 4}
    <2>1. /\ ppp.phase \in {"ESTABLISHMENT", "TERMINATION"} => ppp.lcp.state \in {0, 4, 5, 6, 7, 8}
          /\ ppp.phase \in {"AUTHENTICATION", "NETWORK", "LINK_UP"} => ppp.lcp.state = 9
          /\ ppp.phase \in Phases
        BY DEF IInv, LinkInv, LinkFits, PhaseFits, LcpRuns, IsLink, OPENED
    <2> QED
        BY <2>1 DEF IInv, LinkInv, Phases, INITIAL, CLOSING, CLOSED
<1> QED
    BY <1>1, <1>2 DEF Follows, Moves, INITIAL, CLOSING, CLOSED

\* A link that is closed goes on so.
LEMMA CloseFollows ==
    ASSUME IInv, ppp # NoPpp, ppp.phase # "DEAD", io' = io
    PROVE  Follows(CloseLcp(ppp)) /\ CloseLcp(ppp).lcp.state \in {0, 4}
                                  /\ CloseLcp(ppp).connect = FALSE
<1>1. LinkFits(ppp) /\ ppp.connect = FALSE
    BY DEF IInv, LinkInv
<1>2. LinkFits(CloseLcp(ppp)) /\ Moves(ppp, CloseLcp(ppp), "CLOSE")
    BY <1>1, CloseStep DEF LinkFits, LcpRuns
<1> QED
    BY <1>1, <1>2, LcpFollows DEF Moves

\* The record of LCP with a packet's content noted in it.
LEMMA Noted ==
    ASSUME NEW cp, IsLayer(cp), LayerOK(cp), NEW o \in Options, NEW c,
           \/ c = [cp EXCEPT !.acked = o] /\ o = cp.options
           \/ c = [cp EXCEPT !.options = o]
    PROVE  /\ IsLayer(c) /\ c.state = cp.state /\ c.config = cp.config /\ c.terminate = cp.terminate
           /\ c.timers = cp.timers
           /\ c = [cp EXCEPT !.acked = o] /\ o = cp.options => ReadyFor(c, "RCA")
           /\ ReadyFor(c, "RCN")
BY DEF IsLayer, LayerOK, ReadyFor

\* A timer that expires leaves a layer ready for its event.
LEMMA ExpiredStep ==
    ASSUME NEW cp, IsLayer(cp), LayerOK(cp), cp.timers # <<>>
    PROVE  /\ IsLayer(Expired(cp)) /\ Expired(cp).state = cp.state /\ cp.state \notin Halted
           /\ TimeoutEvent(cp) \in Events \ Signals
           /\ ReadyFor(Expired(cp), TimeoutEvent(cp))
           /\ CountersOK(cp) => CountersOK(Expired(cp)) /\ TimedRight(Expired(cp), TimeoutEvent(cp))
<1> DEFINE c == Expired(cp)
<1>1. cp.timers \in TimerLists
    BY DEF IsLayer
<1>2. /\ Tail(cp.timers) \in TimerLists /\ Head(cp.timers) \in Timers
      /\ cp.timers \in ConfigFirst => Tail(cp.timers) \in {<<>>, <<"terminate">>}
    BY <1>1, TimerExpired
<1>3. /\ IsLayer(c) /\ c.state = cp.state /\ c.config = cp.config /\ c.terminate = cp.terminate
      /\ c.timers = Tail(cp.timers) /\ c.acked = cp.acked /\ c.options = cp.options
      /\ c.answer = cp.answer
    <2> DEFINE t == Tail(cp.timers)
    <2>1. c = [cp EXCEPT !.timers = t] /\ t \in TimerLists
        BY <1>2 DEF Expired
    <2> HIDE DEF t, c
    <2>2. /\ IsLayer(c) /\ c.state = cp.state /\ c.config = cp.config /\ c.terminate = cp.terminate
          /\ c.timers = t /\ c.acked = cp.acked /\ c.options = cp.options /\ c.answer = cp.answer
        BY <2>1 DEF IsLayer
    <2> QED
        BY <2>2 DEF t
<1> HIDE DEF c
<1>4. cp.state \notin Halted
    BY DEF LayerOK
<1>5. TimeoutEvent(cp) \in {"TO_PLUS", "TO_MINUS"}
    BY DEF TimeoutEvent
<1>6. ReadyFor(c, TimeoutEvent(cp))
    BY <1>3, <1>4, <1>5 DEF ReadyFor, LayerOK
<1>7. ASSUME CountersOK(cp) PROVE CountersOK(c) /\ TimedRight(c, TimeoutEvent(cp))
    <2>1. cp.state \in {CLOSING, STOPPING} =>
            /\ c.timers \in {<<>>, <<"terminate">>}
            /\ Head(cp.timers) = "config" => cp.terminate > 0
        BY <1>2, <1>3, <1>7 DEF CountersOK
    <2>2. Head(<<"terminate">>) = "terminate" /\ {<<>>, <<"terminate">>} \subseteq ConfigFirst
        BY DEF ConfigFirst
    <2>3. CountersOK(c)
        BY <1>3, <1>7, <2>1, <2>2 DEF CountersOK
    <2>4. ASSUME TimeoutEvent(cp) = "TO_PLUS"
          PROVE  IF Head(cp.timers) = "config" THEN cp.config > 0 ELSE cp.terminate > 0
        BY <2>4 DEF TimeoutEvent
    <2>5. cp.state \in {REQSENT, ACKRCVD, ACKSENT} => cp.terminate = 0
        BY <1>7 DEF CountersOK, Negotiating
    <2>6. TimedRight(c, TimeoutEvent(cp))
        BY <1>3, <2>1, <2>4, <2>5 DEF TimedRight
    <2> QED
        BY <2>3, <2>6
<1> QED
    BY <1>3, <1>4, <1>5, <1>6, <1>7 DEF c, Events, Signals

-----------------------------------------------------------------------------
(* The steps.                                                              *)

\* ppp_disconnect answers the request that waits, if one does.
LEMMA DisconnectStep == ASSUME IInv, ppp # NoPpp, ppp_disconnect PROVE IInv'
<1>1. /\ ppp' = NoPpp /\ closing' = FALSE /\ reopened' = reopened
      /\ gcd' = [gcd EXCEPT !.state = "IDLE"] /\ io' \in {io, "chat"}
    BY DEF ppp_disconnect
<1>2. gcd' \in [state : {"IDLE", "ENABLING", "ACTIVE", "DISABLING"}, cb : Requests]
      /\ gcd'.state = "IDLE"
    BY <1>1 DEF IInv, CallType
<1>3. ctx' \in [active : BOOLEAN, pending : Requests] /\ ctx'.active = FALSE /\ stray' = FALSE
    <2>1. CASE gcd.state = "ENABLING"
        <3>1. callback(FALSE)
            BY <2>1 DEF ppp_disconnect
        <3>2. ctx.active = FALSE /\ ctx.pending = gcd.cb /\ stray = FALSE
            BY <2>1 DEF IInv, CallInv
        <3>3. ctx' = [active |-> FALSE, pending |-> "none"] /\ stray' = FALSE
            BY <3>1, <3>2 DEF callback
        <3> QED
            BY <3>3 DEF Requests
    <2>2. CASE gcd.state = "DISABLING"
        <3>1. callback(TRUE)
            BY <2>2 DEF ppp_disconnect
        <3>2. gcd.cb = "deactivate" /\ ctx.pending = gcd.cb /\ stray = FALSE
            BY <2>2 DEF IInv, CallInv
        <3>3. ctx' = [active |-> FALSE, pending |-> "none"] /\ stray' = FALSE
            BY <3>1, <3>2 DEF callback
        <3> QED
            BY <3>3 DEF Requests
    <2>3. CASE gcd.state \notin {"ENABLING", "DISABLING"}
        <3>1. ctx' = [ctx EXCEPT !.active = FALSE] /\ stray' = stray
            BY <2>3 DEF ppp_disconnect, deactivated
        <3> QED
            BY <3>1 DEF IInv, CallType, CallInv
    <2> QED
        BY <2>1, <2>2, <2>3
<1> QED
    BY <1>1, <1>2, <1>3 DEF IInv, CallType, LinkInv, CallInv

\* The Terminate-Ack is written: the end is reported, or the link goes on.
LEMMA StaStep == ASSUME IInv, sta_sent PROVE IInv'
<1>1. CASE ppp.phase = "DEAD"
    BY <1>1, DisconnectStep DEF sta_sent
<1>2. CASE ppp.phase # "DEAD"
    <2>1. /\ ppp # NoPpp /\ ppp' = [ppp EXCEPT !.sta = FALSE]
          /\ UNCHANGED <<io, gcd, ctx, closing, reopened, stray>>
        BY <1>2 DEF sta_sent
    <2>2. LinkFits(ppp) /\ IsLink(ppp)
        BY <2>1 DEF IInv, LinkInv, LinkFits
    <2>3. /\ IsLink(ppp') /\ ppp'.lcp = ppp.lcp /\ ppp'.ipcp = ppp.ipcp /\ ppp'.phase = ppp.phase
          /\ ppp'.net = ppp.net /\ ppp'.dead = ppp.dead /\ ppp'.connect = ppp.connect
        BY <2>1, <2>2 DEF IsLink
    <2>4. LinkFits(ppp') /\ ppp' # NoPpp
        BY <1>2, <2>2, <2>3, NotNoPpp
        DEF LinkFits, NetNeedsIpcp, IpcpHasNet, PhaseFits, LcpRuns
    <2> QED
        BY <2>1, <2>3, <2>4 DEF IInv, CallType, LinkInv, CallInv
<1> QED
    BY <1>1, <1>2

\* A client asks for the context.
LEMMA SetActiveStep == ASSUME IInv, pri_set_active PROVE IInv'
<1>1. /\ ctx.active = FALSE /\ ctx' = [ctx EXCEPT !.pending = "activate"]
      /\ gcd' = [state |-> "ENABLING", cb |-> "activate"]
      /\ UNCHANGED <<ppp, io, closing, reopened, stray>>
    BY DEF pri_set_active, IInv, CallType
<1>2. /\ ctx' \in [active : BOOLEAN, pending : Requests]
      /\ ctx'.active = FALSE /\ ctx'.pending = "activate"
      /\ gcd' \in [state : {"IDLE", "ENABLING", "ACTIVE", "DISABLING"}, cb : Requests]
    BY <1>1 DEF IInv, CallType, Requests
<1> QED
    BY <1>1, <1>2 DEF IInv, CallType, LinkInv, CallInv

\* The modem connects, or refuses.
LEMMA CgdataStep == ASSUME IInv, NEW ok \in BOOLEAN, at_cgdata_cb(ok) PROVE IInv'
<1>1. gcd.state = "ENABLING" /\ ppp = NoPpp /\ closing' = FALSE /\ closing = FALSE
    BY DEF at_cgdata_cb, IInv, CallInv
<1>2. CASE ok = TRUE
    <2>1. /\ ppp' = enter_phase(FreshLink, "ESTABLISHMENT") /\ io' = "ppp"
          /\ reopened' = FALSE /\ stray' = FALSE /\ UNCHANGED <<gcd, ctx>>
        BY <1>2 DEF at_cgdata_cb, FreshLink
    <2>2. LinkFits(ppp') /\ ppp'.lcp.state = 6 /\ ppp'.connect = FALSE
        BY <2>1, NewStep
    <2>3. ppp' # NoPpp
        BY <2>2, NotNoPpp DEF LinkFits
    <2> QED
        <3>1. LinkInv'
            BY <1>1, <2>2 DEF LinkInv, INITIAL
        <3>2. CallInv'
            BY <1>1, <2>1, <2>3 DEF IInv, CallInv
        <3>3. CallType'
            BY <1>1, <2>1 DEF IInv, CallType
        <3> QED
            BY <3>1, <3>2, <3>3 DEF IInv
<1>3. CASE ok # TRUE
    <2>1. /\ gcd' = [gcd EXCEPT !.state = "IDLE"] /\ reopened' = FALSE /\ callback(FALSE)
          /\ ppp' = NoPpp /\ io' = io
        BY <1>1, <1>3 DEF at_cgdata_cb
    <2>2. ctx.active = FALSE /\ ctx.pending = gcd.cb /\ stray = FALSE
        BY <1>1 DEF IInv, CallInv
    <2>3. ctx' = [active |-> FALSE, pending |-> "none"] /\ stray' = FALSE
        BY <2>1, <2>2 DEF callback
    <2>4. /\ gcd' \in [state : {"IDLE", "ENABLING", "ACTIVE", "DISABLING"}, cb : Requests]
          /\ gcd'.state = "IDLE" /\ ctx' \in [active : BOOLEAN, pending : Requests]
          /\ ctx'.active = FALSE
        BY <2>1, <2>3 DEF IInv, CallType, Requests
    <2> QED
        BY <1>1, <2>1, <2>3, <2>4 DEF IInv, CallType, LinkInv, CallInv
<1> QED
    BY <1>2, <1>3

\* A shutdown that takes effect leaves LCP closing, or lost.
LEMMA ShutdownStep ==
    ASSUME IInv, ppp # NoPpp, ppp' = g_at_ppp_shutdown(ppp),
           closing' = (closing \/ Shuts(ppp)), io' = io
    PROVE  /\ LinkInv' /\ ppp' # NoPpp /\ closing' \in BOOLEAN
           /\ ppp'.lcp.state \in 6 .. 9 => ppp' = ppp
<1>1. CASE Shuts(ppp)
    <2>1. ppp' = CloseLcp(ppp) /\ closing' = TRUE /\ ppp.phase # "DEAD"
        BY <1>1 DEF g_at_ppp_shutdown, Shuts
    <2>2. Follows(ppp') /\ ppp'.lcp.state \in {0, 4} /\ ppp'.connect = FALSE
        BY <2>1, CloseFollows
    <2> QED
        BY <2>1, <2>2, NotNoPpp DEF Follows, LinkFits, LinkInv, INITIAL, CLOSING, CLOSED
<1>2. CASE ~Shuts(ppp)
    <2>1. ppp' = ppp /\ closing' = closing
        BY <1>2 DEF g_at_ppp_shutdown, IInv, CallType
    <2> QED
        BY <2>1 DEF IInv, CallType, LinkInv
<1> QED
    BY <1>1, <1>2

\* The core deactivates an active context.
LEMMA DeactivateStep == ASSUME IInv, deactivate_primary PROVE IInv'
<1>1. /\ ctx.active = TRUE /\ ppp # NoPpp /\ ctx' = [ctx EXCEPT !.pending = "deactivate"]
      /\ gcd' = [state |-> "DISABLING", cb |-> "deactivate"]
      /\ ppp' = g_at_ppp_shutdown(ppp) /\ closing' = (closing \/ Shuts(ppp))
      /\ UNCHANGED <<io, reopened, stray>>
    BY DEF deactivate_primary, IInv, CallType
<1>2. /\ LinkInv' /\ ppp' # NoPpp /\ closing' \in BOOLEAN
      /\ ppp'.lcp.state \in 6 .. 9 => ppp' = ppp
    BY <1>1, ShutdownStep
<1>3. /\ ctx' \in [active : BOOLEAN, pending : Requests] /\ ctx'.pending = "deactivate"
      /\ gcd' \in [state : {"IDLE", "ENABLING", "ACTIVE", "DISABLING"}, cb : Requests]
    BY <1>1 DEF IInv, CallType, Requests
<1>4. ~(reopened' = FALSE /\ ppp'.lcp.state \in 6 .. 9 /\ ppp'.ipcp.state # OPENED)
    BY <1>1, <1>2 DEF IInv, CallInv
<1> QED
    BY <1>1, <1>2, <1>3, <1>4 DEF IInv, CallType, CallInv

\* The network detaches.
LEMMA DetachStep == ASSUME IInv, detach_shutdown PROVE IInv'
<1>1. /\ ppp # NoPpp /\ ppp' = g_at_ppp_shutdown(ppp) /\ closing' = (closing \/ Shuts(ppp))
      /\ UNCHANGED <<io, gcd, ctx, reopened, stray>>
    BY DEF detach_shutdown
<1>2. /\ LinkInv' /\ ppp' # NoPpp /\ closing' \in BOOLEAN
      /\ ppp'.lcp.state \in 6 .. 9 => ppp' = ppp
    BY <1>1, ShutdownStep
<1> QED
    BY <1>1, <1>2 DEF IInv, CallType, CallInv

\* The three ways a packet or a timer reaches a layer.
LEMMA LcpGoes ==
    ASSUME IInv, ppp # NoPpp, ppp.phase # "DEAD", UNCHANGED <<io, closing>>,
           NEW event \in Events \ Signals, NEW answer, NEW c, NEW chap \in BOOLEAN,
           IsLayer(c), c.state = ppp.lcp.state, ReadyFor(c, event), CountersOK(c),
           TimedRight(c, event), c.state \in 4 .. 9, NEW p,
           p = [ppp EXCEPT !.lcp = c, !.chap = chap], Goes(LcpEvent(p, event, answer))
    PROVE  IInv'
<1>1. LinkFits(ppp) /\ IsLink(ppp) /\ ppp.connect = FALSE
    BY DEF IInv, LinkInv, LinkFits
<1>2. /\ IsLink(p) /\ p.lcp = c /\ p.ipcp = ppp.ipcp /\ p.phase = ppp.phase /\ p.net = ppp.net
      /\ p.sta = ppp.sta /\ p.dead = ppp.dead /\ p.connect = FALSE
    BY <1>1 DEF IsLink
<1>3. Live(p, event)
    BY <1>1, <1>2
    DEF Live, LinkFits, PhaseFits, LcpRuns, NetNeedsIpcp, IpcpHasNet, INITIAL, CLOSED, STOPPED
<1>4. event \in Events \ {"UP", "DOWN", "OPEN"}
    BY DEF Signals
<1>5. LinkFits(LcpEvent(p, event, answer)) /\ Moves(p, LcpEvent(p, event, answer), event)
    BY <1>3, <1>4, LcpStep
<1>6. Follows(LcpEvent(p, event, answer))
    BY <1>2, <1>5, LcpFollows
<1> QED
    BY <1>6, GoesStep

\* An event of IPCP that is ready for it.
LEMMA IpcpGoes ==
    ASSUME IInv, ppp # NoPpp, ppp.phase \in {"NETWORK", "LINK_UP"}, UNCHANGED <<io, closing>>,
           NEW event \in Events \ Signals, NEW answer, NEW created \in BOOLEAN, NEW c,
           IsLayer(c), c.state = ppp.ipcp.state, ReadyFor(c, event), NEW p,
           p = [ppp EXCEPT !.ipcp = c], Goes(IpcpEvent(p, event, answer, created))
    PROVE  IInv'
<1> DEFINE q == IpcpEvent(p, event, answer, created)
<1>1. LinkFits(ppp) /\ IsLink(ppp) /\ ppp.connect = FALSE
    BY DEF IInv, LinkInv, LinkFits
<1>2. /\ IsLink(p) /\ SameButIpcp(ppp, p) /\ p.ipcp = c /\ p.phase = ppp.phase /\ p.net = ppp.net
      /\ p.ipcp.state = ppp.ipcp.state /\ ReadyFor(p.ipcp, event)
    BY <1>1 DEF IsLink, SameButIpcp
<1>3. /\ LinkFits(q) /\ q.lcp.state \in {0, 4, 9} /\ (q.lcp.state = 0 => q.phase = "DEAD")
      /\ q.connect = TRUE => ppp.ipcp.state # OPENED /\ q.ipcp.state = OPENED
    <2>1. IpcpOutcome(ppp, q)
        BY <1>1, <1>2, IpcpStep
    <2> QED
        BY <2>1 DEF IpcpOutcome
<1>4. ppp.lcp.state = 9 /\ (closing = TRUE => FALSE)
    <2>1. ppp.lcp.state = 9
        BY <1>1 DEF LinkFits, PhaseFits, OPENED
    <2>2. closing = TRUE => ppp.lcp.state \in {0, 2, 4}
        BY DEF IInv, LinkInv, INITIAL, CLOSING, CLOSED
    <2> QED
        BY <2>1, <2>2
<1>5. Goes(q)
    OBVIOUS
<1> HIDE DEF q
<1>6. Follows(q)
    BY <1>3, <1>4 DEF Follows, OPENED, INITIAL
<1> QED
    BY <1>5, <1>6, GoesStep

\* The layers of a link, ready for an event that no packet prepared.
LEMMA Ready ==
    ASSUME NEW cp, LayerOK(cp), NEW event \in Events \ {"RCA", "RCN"}
    PROVE  ReadyFor(cp, event)
BY DEF LayerOK, ReadyFor

\* A packet of LCP.
LEMMA LcpPacketStep ==
    ASSUME IInv, ppp # NoPpp, io = "ppp", NEW received, LcpPacket(received) PROVE IInv'
<1>1. /\ ppp.phase # "DEAD" /\ UNCHANGED <<io, closing>>
    BY DEF LcpPacket
<1>2. /\ IsLink(ppp) /\ IsLayer(ppp.lcp) /\ LayerOK(ppp.lcp) /\ CountersOK(ppp.lcp)
      /\ ppp.lcp.state \in 4 .. 9 /\ ppp.chap \in BOOLEAN
      /\ ppp.lcp.options \in Options /\ ppp.lcp.asked \in SUBSET Options
    <2>1. LinkFits(ppp) /\ IsLink(ppp) /\ ppp.lcp.state # 0
        BY <1>1 DEF IInv, LinkInv, LinkFits, INITIAL
    <2>2. ppp.lcp.state \in 4 .. 9
        BY <1>1, <2>1 DEF LinkFits, PhaseFits, LcpRuns, IsLink, Phases, OPENED
    <2> QED
        BY <2>1, <2>2 DEF LinkFits, IsLink, IsLayer
<1>3. ppp = [ppp EXCEPT !.lcp = ppp.lcp, !.chap = ppp.chap]
    BY <1>2 DEF IsLink
<1>4. \A event \in Plain \cup {"RCR_PLUS", "RCR_MINUS"} :
        event \in Events \ Signals /\ ReadyFor(ppp.lcp, event) /\ TimedRight(ppp.lcp, event)
    BY <1>2, Ready DEF Plain, Events, Signals, TimedRight
<1>5. ASSUME NEW event \in Plain, Goes(LcpEvent(ppp, event, "none")) PROVE IInv'
    BY <1>1, <1>2, <1>3, <1>4, <1>5, LcpGoes
<1>6. ASSUME NEW chap \in BOOLEAN, Goes(LcpEvent([ppp EXCEPT !.chap = @ \/ chap], "RCR_PLUS", "none"))
      PROVE  IInv'
    <2> DEFINE d == (ppp.chap \/ chap)
               p == [ppp EXCEPT !.lcp = ppp.lcp, !.chap = d]
    <2>1. d \in BOOLEAN
        BY <1>2
    <2>2. [ppp EXCEPT !.chap = @ \/ chap] = p
        BY <1>2 DEF IsLink
    <2>3. Goes(LcpEvent(p, "RCR_PLUS", "none"))
        BY <1>6, <2>2
    <2> HIDE DEF d
    <2> QED
        BY <1>1, <1>2, <1>4, <2>1, <2>3, LcpGoes
<1>7. ASSUME NEW answer, Goes(LcpEvent(ppp, "RCR_MINUS", answer)) PROVE IInv'
    BY <1>1, <1>2, <1>3, <1>4, <1>7, LcpGoes
<1>8. ASSUME NEW o \in ppp.lcp.asked, process_configure_ack(ppp.lcp, o),
             Goes(LcpEvent([ppp EXCEPT !.lcp.acked = o], "RCA", "none"))
      PROVE  IInv'
    <2> DEFINE c == [ppp.lcp EXCEPT !.acked = o]
               p == [ppp EXCEPT !.lcp = c, !.chap = ppp.chap]
    <2>1. [ppp EXCEPT !.lcp.acked = o] = p
        BY <1>2 DEF IsLink
    <2>2. Goes(LcpEvent(p, "RCA", "none"))
        BY <1>8, <2>1
    <2>3. c = [ppp.lcp EXCEPT !.acked = o] /\ o = ppp.lcp.options
        BY <1>8 DEF process_configure_ack
    <2> HIDE DEF c
    <2>4. /\ IsLayer(c) /\ c.state = ppp.lcp.state /\ c.config = ppp.lcp.config
          /\ c.terminate = ppp.lcp.terminate /\ c.timers = ppp.lcp.timers /\ ReadyFor(c, "RCA")
        BY <1>2, <2>3, Noted
    <2>5. CountersOK(c) /\ TimedRight(c, "RCA") /\ "RCA" \in Events \ Signals
        BY <1>2, <2>4 DEF CountersOK, TimedRight, Events, Signals
    <2> QED
        BY <1>1, <1>2, <2>2, <2>4, <2>5, LcpGoes
<1>9. ASSUME NEW o \in Changed(ppp.lcp), Goes(LcpEvent([ppp EXCEPT !.lcp.options = o], "RCN", "none"))
      PROVE  IInv'
    <2> DEFINE c == [ppp.lcp EXCEPT !.options = o]
               p == [ppp EXCEPT !.lcp = c, !.chap = ppp.chap]
    <2>1. [ppp EXCEPT !.lcp.options = o] = p
        BY <1>2 DEF IsLink
    <2>2. Goes(LcpEvent(p, "RCN", "none"))
        BY <1>9, <2>1
    <2>3. c = [ppp.lcp EXCEPT !.options = o] /\ o \in Options
        BY <1>2 DEF Changed, Options
    <2> HIDE DEF c
    <2>4. /\ IsLayer(c) /\ c.state = ppp.lcp.state /\ c.config = ppp.lcp.config
          /\ c.terminate = ppp.lcp.terminate /\ c.timers = ppp.lcp.timers /\ ReadyFor(c, "RCN")
        BY <1>2, <2>3, Noted
    <2>5. CountersOK(c) /\ TimedRight(c, "RCN") /\ "RCN" \in Events \ Signals
        BY <1>2, <2>4 DEF CountersOK, TimedRight, Events, Signals
    <2> QED
        BY <1>1, <1>2, <2>2, <2>4, <2>5, LcpGoes
<1>10. \/ \E event \in Plain : Goes(LcpEvent(ppp, event, "none"))
       \/ \E chap \in BOOLEAN : Goes(LcpEvent([ppp EXCEPT !.chap = @ \/ chap], "RCR_PLUS", "none"))
       \/ \E answer : Goes(LcpEvent(ppp, "RCR_MINUS", answer))
       \/ \E o \in ppp.lcp.asked :
            /\ process_configure_ack(ppp.lcp, o)
            /\ Goes(LcpEvent([ppp EXCEPT !.lcp.acked = o], "RCA", "none"))
       \/ \E o \in Changed(ppp.lcp) : Goes(LcpEvent([ppp EXCEPT !.lcp.options = o], "RCN", "none"))
    BY Zenon DEF LcpPacket
<1> QED
    BY <1>5, <1>6, <1>7, <1>8, <1>9, <1>10

\* A packet of IPCP.
LEMMA IpcpPacketStep ==
    ASSUME IInv, ppp # NoPpp, NEW created \in BOOLEAN, IpcpPacket(created) PROVE IInv'
<1>1. /\ ppp.phase \in {"NETWORK", "LINK_UP"} /\ UNCHANGED <<io, closing>>
    BY DEF IpcpPacket
<1>2. /\ IsLink(ppp) /\ IsLayer(ppp.ipcp) /\ LayerOK(ppp.ipcp)
      /\ ppp.ipcp.options \in Options /\ ppp.ipcp.asked \in SUBSET Options
    BY DEF IInv, LinkInv, LinkFits, IsLink, IsLayer
<1>3. ppp = [ppp EXCEPT !.ipcp = ppp.ipcp]
    BY <1>2 DEF IsLink
<1>4. ASSUME NEW event \in Plain \cup {"RCR_PLUS", "RCR_MINUS"}, NEW answer,
             Goes(IpcpEvent(ppp, event, answer, created))
      PROVE  IInv'
    <2>1. event \in Events \ Signals /\ ReadyFor(ppp.ipcp, event)
        BY <1>2, Ready DEF Plain, Events, Signals
    <2> QED
        BY <1>1, <1>2, <1>3, <1>4, <2>1, IpcpGoes
<1>5. ASSUME NEW o \in ppp.ipcp.asked, process_configure_ack(ppp.ipcp, o),
             Goes(IpcpEvent([ppp EXCEPT !.ipcp.acked = o], "RCA", "none", created))
      PROVE  IInv'
    <2> DEFINE c == [ppp.ipcp EXCEPT !.acked = o]
               p == [ppp EXCEPT !.ipcp = c]
    <2>1. [ppp EXCEPT !.ipcp.acked = o] = p
        BY <1>2 DEF IsLink
    <2>2. Goes(IpcpEvent(p, "RCA", "none", created))
        BY <1>5, <2>1
    <2>3. c = [ppp.ipcp EXCEPT !.acked = o] /\ o = ppp.ipcp.options
        BY <1>5 DEF process_configure_ack
    <2> HIDE DEF c
    <2>4. IsLayer(c) /\ c.state = ppp.ipcp.state /\ ReadyFor(c, "RCA")
        BY <1>2, <2>3, Noted
    <2>5. "RCA" \in Events \ Signals
        BY DEF Events, Signals
    <2> QED
        BY <1>1, <1>2, <2>2, <2>4, <2>5, IpcpGoes
<1>6. ASSUME NEW o \in Changed(ppp.ipcp),
             Goes(IpcpEvent([ppp EXCEPT !.ipcp.options = o], "RCN", "none", created))
      PROVE  IInv'
    <2> DEFINE c == [ppp.ipcp EXCEPT !.options = o]
               p == [ppp EXCEPT !.ipcp = c]
    <2>1. [ppp EXCEPT !.ipcp.options = o] = p
        BY <1>2 DEF IsLink
    <2>2. Goes(IpcpEvent(p, "RCN", "none", created))
        BY <1>6, <2>1
    <2>3. c = [ppp.ipcp EXCEPT !.options = o] /\ o \in Options
        BY <1>2 DEF Changed, Options
    <2> HIDE DEF c
    <2>4. IsLayer(c) /\ c.state = ppp.ipcp.state /\ ReadyFor(c, "RCN")
        BY <1>2, <2>3, Noted
    <2>5. "RCN" \in Events \ Signals
        BY DEF Events, Signals
    <2> QED
        BY <1>1, <1>2, <2>2, <2>4, <2>5, IpcpGoes
<1>7. \/ \E event \in Plain : Goes(IpcpEvent(ppp, event, "none", created))
      \/ Goes(IpcpEvent(ppp, "RCR_PLUS", "none", created))
      \/ Goes(IpcpEvent(ppp, "RCR_MINUS", "reject", created))
      \/ \E o \in ppp.ipcp.asked :
            /\ process_configure_ack(ppp.ipcp, o)
            /\ Goes(IpcpEvent([ppp EXCEPT !.ipcp.acked = o], "RCA", "none", created))
      \/ \E o \in Changed(ppp.ipcp) :
            Goes(IpcpEvent([ppp EXCEPT !.ipcp.options = o], "RCN", "none", created))
    BY Zenon DEF IpcpPacket
<1>8. "RCR_PLUS" \in Plain \cup {"RCR_PLUS", "RCR_MINUS"} /\ "RCR_MINUS" \in Plain \cup {"RCR_PLUS", "RCR_MINUS"}
    OBVIOUS
<1> QED
    BY <1>4, <1>5, <1>6, <1>7, <1>8

\* Success or Failure of CHAP.
LEMMA ChapPacketStep == ASSUME IInv, ppp # NoPpp, ChapPacket PROVE IInv'
<1>1. /\ ppp.phase \in {"AUTHENTICATION", "NETWORK", "LINK_UP"} /\ UNCHANGED <<io, closing>>
    BY DEF ChapPacket
<1>2. LinkFits(ppp) /\ IsLink(ppp) /\ ppp.connect = FALSE /\ ppp.lcp.state = 9
    BY <1>1 DEF IInv, LinkInv, LinkFits, PhaseFits, OPENED
<1>3. ASSUME Goes(CloseLcp(ppp)) PROVE IInv'
    BY <1>1, <1>3, CloseFollows, GoesStep
<1>4. ASSUME Goes(auth_notify(ppp)) PROVE IInv'
    <2> DEFINE q == auth_notify(ppp)
    <2>1. /\ IsLink(q) /\ LayerOK(q.ipcp) /\ SameButIpcp(ppp, q) /\ q.phase = "NETWORK"
          /\ NetNeedsIpcp(q) /\ IpcpHasNet(q)
        BY <1>2, NotifyStep DEF LinkFits
    <2> HIDE DEF q
    <2>2. q.lcp = ppp.lcp /\ q.dead = FALSE /\ q.connect = FALSE
        BY <1>1, <1>2, <2>1 DEF SameButIpcp, LinkFits, PhaseFits
    <2>3. LinkFits(q)
        BY <1>2, <2>1, <2>2 DEF LinkFits, PhaseFits, LcpRuns, OPENED
    <2>4. closing = TRUE => FALSE
        BY <1>2 DEF IInv, LinkInv, INITIAL, CLOSING, CLOSED
    <2>5. Follows(q)
        BY <1>2, <2>2, <2>3, <2>4 DEF Follows, INITIAL
    <2> QED
        BY <1>1, <1>4, <2>5, GoesStep DEF q
<1> QED
    BY <1>3, <1>4 DEF ChapPacket

\* A restart timer expires.
LEMMA TimeoutStep == ASSUME IInv, LcpTimeout \/ IpcpTimeout PROVE IInv'
<1>1. ppp # NoPpp /\ UNCHANGED <<io, closing>>
    BY DEF LcpTimeout, IpcpTimeout
<1>2. LinkFits(ppp) /\ IsLink(ppp) /\ IsLayer(ppp.lcp) /\ IsLayer(ppp.ipcp) /\ ppp.chap \in BOOLEAN
    BY <1>1 DEF IInv, LinkInv, LinkFits, IsLink
<1>3. ASSUME ppp.lcp.timers # <<>>,
             Goes(LcpEvent([ppp EXCEPT !.lcp = Expired(@)], TimeoutEvent(ppp.lcp), "none"))
      PROVE  IInv'
    <2> DEFINE c == Expired(ppp.lcp)
               event == TimeoutEvent(ppp.lcp)
               p == [ppp EXCEPT !.lcp = c, !.chap = ppp.chap]
    <2>1. /\ IsLayer(c) /\ c.state = ppp.lcp.state /\ ppp.lcp.state \notin Halted
          /\ event \in Events \ Signals /\ ReadyFor(c, event)
          /\ CountersOK(c) /\ TimedRight(c, event)
        BY <1>2, <1>3, ExpiredStep DEF LinkFits
    <2>2. [ppp EXCEPT !.lcp = Expired(@)] = p
        BY <1>2 DEF IsLink
    <2>3. Goes(LcpEvent(p, event, "none"))
        BY <1>3, <2>2
    <2> HIDE DEF c, event
    <2>4. c.state \in 4 .. 9 /\ ppp.phase # "DEAD"
        BY <1>2, <2>1
        DEF LinkFits, PhaseFits, IsLayer, Halted, INITIAL, STARTING, CLOSED, STOPPED, OPENED
    <2> QED
        BY <1>1, <1>2, <2>1, <2>3, <2>4, LcpGoes
<1>4. ASSUME ppp.ipcp.timers # <<>>,
             Goes(IpcpEvent([ppp EXCEPT !.ipcp = Expired(@)], TimeoutEvent(ppp.ipcp), "none", TRUE))
      PROVE  IInv'
    <2> DEFINE c == Expired(ppp.ipcp)
               event == TimeoutEvent(ppp.ipcp)
               p == [ppp EXCEPT !.ipcp = c]
    <2>1. /\ IsLayer(c) /\ c.state = ppp.ipcp.state /\ ppp.ipcp.state \notin Halted
          /\ event \in Events \ Signals /\ ReadyFor(c, event)
        BY <1>2, <1>4, ExpiredStep DEF LinkFits
    <2>2. Goes(IpcpEvent(p, event, "none", TRUE))
        BY <1>4
    <2> HIDE DEF c, event
    <2>3. ppp.phase \in {"NETWORK", "LINK_UP"}
        <3>1. ppp.lcp.state = 9 /\ ppp.ipcp.state \notin {0, 1}
            BY <1>2, <2>1 DEF LinkFits, PhaseFits, Halted, INITIAL, STARTING, OPENED
        <3> QED
            BY <1>2, <3>1
            DEF LinkFits, PhaseFits, LcpRuns, IsLink, Phases, INITIAL, STARTING, CLOSED, STOPPED
    <2> QED
        BY <1>1, <1>2, <2>1, <2>2, <2>3, IpcpGoes
<1> QED
    BY <1>3, <1>4 DEF LcpTimeout, IpcpTimeout

\* The channel is lost.
LEMMA IoDisconnectStep == ASSUME IInv, io_disconnect PROVE IInv'
<1>1. ppp # NoPpp /\ io' = "gone" /\ closing' = closing
    BY DEF io_disconnect
<1>2. LinkFits(ppp) /\ ppp.connect = FALSE
    BY <1>1 DEF IInv, LinkInv
<1>3. CASE ppp.phase = "DEAD"
    <2>1. Goes(ppp)
        BY <1>3 DEF io_disconnect
    <2>2. Follows(ppp)
        BY <1>1, <1>2 DEF Follows, IInv, LinkInv
    <2> QED
        BY <1>1, <2>1, <2>2, GoesStep
<1>4. CASE ppp.phase # "DEAD"
    <2> DEFINE q == CloseLcp(LcpEvent(ppp, "DOWN", "none"))
    <2>1. Goes(q)
        BY <1>4 DEF io_disconnect
    <2>2. LinkFits(q) /\ q.lcp.state = 0 /\ q.connect = ppp.connect
        BY <1>2, <1>4, HangUpStep
    <2> HIDE DEF q
    <2>3. Follows(q)
        BY <1>1, <1>2, <2>2 DEF Follows, INITIAL
    <2> QED
        BY <1>1, <2>1, <2>3, GoesStep
<1> QED
    BY <1>3, <1>4

\* The initial state.
LEMMA InitOK == Init => IInv
<1> SUFFICES ASSUME Init PROVE IInv
    OBVIOUS
<1>1. /\ ppp = NoPpp /\ io = "chat" /\ gcd = [state |-> "IDLE", cb |-> "none"]
      /\ ctx = [active |-> FALSE, pending |-> "none"]
      /\ closing = FALSE /\ reopened = FALSE /\ stray = FALSE
    BY DEF Init
<1>2. CallType
    BY <1>1 DEF CallType, Requests
<1>3. LinkInv /\ CallInv
    BY <1>1 DEF LinkInv, CallInv
<1> QED
    BY <1>2, <1>3 DEF IInv

\* Every step preserves the invariant.
LEMMA Step == IInv /\ [Next]_vars => IInv'
<1> SUFFICES ASSUME IInv, [Next]_vars PROVE IInv'
    OBVIOUS
<1>1. CASE ppp_dead
    BY <1>1, DisconnectStep DEF ppp_dead
<1>2. CASE sta_sent
    BY <1>2, StaStep
<1>3. CASE pri_set_active
    BY <1>3, SetActiveStep
<1>4. ASSUME NEW ok \in BOOLEAN, at_cgdata_cb(ok) PROVE IInv'
    BY <1>4, CgdataStep
<1>5. CASE deactivate_primary
    BY <1>5, DeactivateStep
<1>6. CASE detach_shutdown
    BY <1>6, DetachStep
<1>7. CASE Packet
    <2>1. ppp # NoPpp /\ io = "ppp"
        BY <1>7 DEF Packet
    <2>2. ASSUME NEW received, LcpPacket(received) PROVE IInv'
        BY <2>1, <2>2, LcpPacketStep
    <2>3. ASSUME NEW b \in BOOLEAN, IpcpPacket(b) PROVE IInv'
        BY <2>1, <2>3, IpcpPacketStep
    <2>4. ASSUME ChapPacket PROVE IInv'
        BY <2>1, <2>4, ChapPacketStep
    <2> QED
        BY <1>7, <2>2, <2>3, <2>4 DEF Packet
<1>8. CASE LcpTimeout \/ IpcpTimeout
    BY <1>8, TimeoutStep
<1>9. CASE io_disconnect
    BY <1>9, IoDisconnectStep
<1>10. CASE UNCHANGED vars
    BY <1>10 DEF vars, IInv, CallType, LinkInv, CallInv
<1> QED
    BY <1>1, <1>2, <1>3, <1>4, <1>5, <1>6, <1>7, <1>8, <1>9, <1>10 DEF Next

\* The invariant holds.
LEMMA Inductive == Spec => []IInv
<1> QED
    BY InitOK, Step, PTL DEF Spec

-----------------------------------------------------------------------------
(* The theorems.                                                           *)

\* The layers, the interface, LCP's counters and the context agree in every state:
\* the interface exists exactly while IPCP is open, IPCP runs only over an open LCP
\* (lcp_down, ipcp_down), LCP's counters never run below zero although one timer
\* may retransmit what the other counts (ppp_cp.c), and an active context has its
\* link (gprs-context.c).
THEOREM CallConsistent == Spec => []LinkIsConsistent
<1>1. IInv => LinkIsConsistent
    <2> SUFFICES ASSUME IInv PROVE LinkIsConsistent
        OBVIOUS
    <2>1. TypeOK
        <3>1. ASSUME ppp # NoPpp
              PROVE  ppp \in [lcp : Layers(Options), ipcp : Layers(Options), phase : Phases,
                              net : BOOLEAN, chap : BOOLEAN, sta : BOOLEAN, dead : BOOLEAN,
                              connect : {FALSE}]
            <4>1. IsLink(ppp) /\ ppp.connect = FALSE
                BY <3>1 DEF IInv, LinkInv, LinkFits
            <4>2. ppp.lcp \in Layers(Options) /\ ppp.ipcp \in Layers(Options)
                BY <4>1, LayerType DEF IsLink
            <4> QED
                BY <4>1, <4>2 DEF IsLink
        <3>2. stray \in BOOLEAN
            BY DEF IInv, CallInv
        <3> QED
            BY <3>1, <3>2 DEF TypeOK, IInv, CallType, Options, Phases
    <2>2. NetworkNeedsBothLayers
        BY DEF IInv, LinkInv, LinkFits, NetNeedsIpcp, IpcpHasNet, IsLink, PhaseFits,
               NetworkNeedsBothLayers
    <2>3. LcpCountersDontWrap
        BY DEF IInv, LinkInv, LinkFits, CountersOK, LcpCountersDontWrap
    <2>4. ActiveHasLink
        BY DEF IInv, CallInv, CallType, ActiveHasLink
    <2> QED
        BY <2>1, <2>2, <2>3, <2>4 DEF LinkIsConsistent
<1> QED
    BY <1>1, Inductive, PTL

\* A layer is open only on options that the peer acknowledged as they are now and
\* with our Ack as our last answer (pppcp_process_configure_ack, the table's RCN
\* and RCR rows).
THEOREM OnlyAgreedOpen == Spec => []OpenOnAgreement
<1>1. IInv => OpenOnAgreement
    BY DEF IInv, LinkInv, LinkFits, LayerOK, OpenOnAgreement, Agreed, OPENED, ACKRCVD, ACKSENT
<1> QED
    BY <1>1, Inductive, PTL

\* A dead link has no timer and no interface, and exactly one of the idle source and
\* the Terminate-Ack reports its end (ppp_enter_phase, sta_sent); and gcd->cb
\* always answers the request that waits (ppp_connect, ppp_disconnect).
THEOREM EndsReportedOnce == Spec => []ReportedOnce
<1>1. IInv => ReportedOnce
    <2> SUFFICES ASSUME IInv PROVE ReportedOnce
        OBVIOUS
    <2>1. ASSUME ppp # NoPpp, ppp.phase = "DEAD" \/ ppp.dead
          PROVE  /\ ppp.phase = "DEAD"
                 /\ ppp.lcp.timers = <<>> /\ ppp.ipcp.timers = <<>> /\ ~ppp.net
                 /\ ppp.dead # ppp.sta
        <3>1. LinkFits(ppp) /\ IsLink(ppp)
            BY <2>1 DEF IInv, LinkInv, LinkFits
        <3>2. ppp.phase = "DEAD"
            BY <2>1, <3>1 DEF LinkFits, PhaseFits
        <3>3. /\ ppp.lcp.state \in {INITIAL, CLOSED, STOPPED} /\ ppp.dead # ppp.sta
              /\ ppp.ipcp.state \in {INITIAL, STARTING}
            BY <3>1, <3>2 DEF LinkFits, PhaseFits, INITIAL, CLOSED, STOPPED, OPENED
        <3>4. ppp.lcp.timers = <<>> /\ ppp.ipcp.timers = <<>>
            BY <3>1, <3>3 DEF LinkFits, LayerOK, Halted
        <3>5. ppp.net = TRUE => FALSE
            BY <3>1, <3>3 DEF LinkFits, NetNeedsIpcp, INITIAL, STARTING, OPENED
        <3> QED
            BY <3>1, <3>2, <3>3, <3>4, <3>5 DEF IsLink
    <2>2. OneAnswerEach
        BY DEF IInv, CallInv, OneAnswerEach
    <2> QED
        BY <2>1, <2>2 DEF ReportedOnce, DeadIsReportedOnce
<1> QED
    BY <1>1, Inductive, PTL

\* No step of a link brings its interface up after g_at_ppp_shutdown took effect:
\* LCP is closing, closed or lost from then on.
THEOREM ShutdownIsFinal == Spec => NeverUpAfterShutdown
<1>1. IInv /\ IInv' /\ [Next]_vars =>
        [closing /\ ppp # NoPpp /\ ppp' # NoPpp => ~(~ppp.net /\ ppp'.net)]_vars
    <2> SUFFICES ASSUME IInv, IInv', Next, closing, ppp # NoPpp, ppp' # NoPpp, ppp'.net
                 PROVE  FALSE
        BY DEF vars
    <2>1. closing' = TRUE
        <3>1. ~ppp_disconnect
            BY DEF ppp_disconnect
        <3>2. closing = TRUE
            BY DEF IInv, CallType
        <3>3. closing' = closing \/ closing' = (closing \/ Shuts(ppp))
            BY <3>1
            DEF Next, ppp_dead, sta_sent, pri_set_active, at_cgdata_cb, deactivate_primary,
                detach_shutdown, Packet, LcpPacket, IpcpPacket, ChapPacket, LcpTimeout,
                IpcpTimeout, io_disconnect
        <3> QED
            BY <3>2, <3>3
    <2>2. LinkFits(ppp') /\ ppp'.lcp.state \in {INITIAL, CLOSING, CLOSED}
        BY <2>1 DEF IInv, LinkInv
    <2>3. ppp'.net = TRUE
        BY <2>2 DEF LinkFits, IsLink
    <2> QED
        BY <2>2, <2>3
        DEF LinkFits, NetNeedsIpcp, PhaseFits, INITIAL, STARTING, OPENED, CLOSING, CLOSED
<1> QED
    BY <1>1, Inductive, PTL DEF Spec, NeverUpAfterShutdown
==============================================================================
