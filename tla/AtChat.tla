-------------------------------- MODULE AtChat -------------------------------
(***************************************************************************)
(* The command queue of ofono-wifi/gatchat/gatchat.c (struct at_chat) over *)
(* a modem that answers one command at a time.  Clients (the chat and its  *)
(* clones, one group each) send and cancel commands from the main loop or  *)
(* from the callback of a command that was just answered.  `chat' is the   *)
(* struct; every function of the code is an operator from struct to struct *)
(* so that a callback can go on from what finish_command has done.         *)
(***************************************************************************)
EXTENDS Integers, Sequences, FiniteSets, Queues

CONSTANTS
    Groups,         \* gid of the chat and of its clones
    Kinds,          \* "plain": AT...\r, "listing": with a listing callback,
                    \* "prompt": a second part ends in Ctrl-Z, after a prompt
    Wakeups,        \* is a wakeup command set? (a set of BOOLEANs)
    MaxCmds,        \* bound: commands sent
    MaxSuspends,    \* bound: how often the channel is handed to PPP
    MaxLost,        \* bound: wakeup commands a modem does not take, or refuses
    MaxSlips        \* bound: how often a timer or a prompt comes at a wrong time

ASSUME AtChatAssumption ==
    /\ Kinds \subseteq {"plain", "listing", "prompt"}
    /\ Wakeups \subseteq BOOLEAN
    /\ MaxCmds \in Nat /\ MaxSuspends \in Nat /\ MaxLost \in Nat /\ MaxSlips \in Nat

Ids == 1 .. MaxCmds
WAKEUP == 0         \* the id of wakeup commands; clients' ids start at 1

VARIABLES
    chat,           \* struct at_chat:
                    \*   open, queue, suspended, lines (response_lines, by the
                    \*   id of the command the modem answered),
                    \*   written (cmd_bytes_written: 2 per part, an odd number
                    \*   when a part is out in part only),
                    \*   armed (is there a write watch?),
                    \*   wakeup, wakeup_timer, timer (timeout_source),
                    \*   strays (sources it was before and that still run),
                    \*   next (next_cmd_id);
                    \* history: cancelled, destroyed (calls of notify),
                    \*   suspends
    line,           \* complete parts of commands the modem has, [id, last]
    wire,           \* what it has answered, [what, id]
    lost,
    \* history
    answer,         \* the modem's final response to each command
    prompted,       \* commands the modem has asked the second part of
    told,           \* what each command's callback was called with
    heard,          \* <<i, j>>: callbacks of i were given a line meant for j
    slips           \* how often a timer or a prompt came at a wrong time

modem == <<line, wire, lost, answer, prompted>>
vars == <<chat, modem, told, heard, slips>>

Cmd(id, gid, kind) == [id |-> id, gid |-> gid, kind |-> kind, callback |-> TRUE]
Wakeup == Cmd(WAKEUP, 0, "plain")
Length(cmd) == IF cmd.kind = "prompt" THEN 4 ELSE 2
Msg(what, id) == [what |-> what, id |-> id]

Init ==
    /\ \E w \in Wakeups :
          chat = [open |-> TRUE, queue |-> <<>>, written |-> 0, armed |-> FALSE,
                  suspended |-> FALSE, lines |-> <<>>, wakeup |-> w,
                  wakeup_timer |-> "unset", timer |-> FALSE, strays |-> 0, next |-> 1,
                  cancelled |-> {}, destroyed |-> [i \in Ids |-> 0], suspends |-> 0]
    /\ line = <<>> /\ wire = <<>> /\ lost = 0
    /\ answer = [i \in Ids |-> "none"]
    /\ prompted = {}
    /\ told = [i \in Ids |-> "none"]
    /\ heard = {}
    /\ slips = 0

-----------------------------------------------------------------------------
(* The API, from struct to struct.                                         *)

Queued(c) == {c.queue[i] : i \in DOMAIN c.queue}

\* at_command_destroy for a set of commands
Destroyed(c, cmds) ==
    [c EXCEPT !.destroyed = [i \in Ids |->
        @[i] + IF \E cmd \in cmds : cmd.id = i THEN 1 ELSE 0]]

\* chat_wakeup_writer
Armed(c) == [c EXCEPT !.armed = TRUE]

send_commonArms(c, gid, kind) ==
    Armed([c EXCEPT !.queue = Append(@, Cmd(c.next, gid, kind)), !.next = @ + 1])

send_commonFirst(c, gid, kind) ==
    Armed([c EXCEPT !.queue = <<Cmd(c.next, gid, kind)>> \o @, !.next = @ + 1])

send_common(c, gid, kind) ==
    LET q == [c EXCEPT !.queue = Append(@, Cmd(c.next, gid, kind)), !.next = @ + 1]
    IN  IF Len(q.queue) = 1 THEN Armed(q) ELSE q

InProgress(c, cmd) == cmd = Head(c.queue) /\ c.written > 0

cancelledAll(c, cmds) ==
    Destroyed(
        [c EXCEPT !.queue = Without(@, cmds),
                  !.written = IF \E cmd \in cmds : InProgress(c, cmd) THEN 0 ELSE @,
                  !.cancelled = @ \cup {cmd.id : cmd \in cmds}],
        cmds)

cancelledButCalled(c, cmds) ==
    LET gone == {cmd \in cmds : ~InProgress(c, cmd)}
    IN  Destroyed(
            [c EXCEPT !.queue = Without(@, gone),
                      !.cancelled = @ \cup {cmd.id : cmd \in cmds}],
            gone)

\* cancel and cancel_group: a command in progress stays and loses its callback.
cancelled(c, cmds) ==
    LET out  == {cmd \in cmds : InProgress(c, cmd)}
        kept == Without(c.queue, cmds \ out)
    IN  Destroyed(
            [c EXCEPT
                !.queue = IF out = {} THEN kept ELSE [kept EXCEPT ![1].callback = FALSE],
                !.cancelled = @ \cup {cmd.id : cmd \in cmds}],
            cmds \ out)

\* chat_cleanup, for the last unreference and for a hang-up
closed(c) ==
    Destroyed([c EXCEPT !.open = FALSE, !.queue = <<>>, !.written = 0, !.armed = FALSE,
                        !.lines = <<>>, !.timer = FALSE],
              Queued(c))

at_chat_suspend(c) == [c EXCEPT !.suspended = TRUE, !.armed = FALSE, !.suspends = @ + 1]

at_chat_resumeIdle(c) == [c EXCEPT !.suspended = FALSE]

at_chat_resume(c) ==
    LET r == [c EXCEPT !.suspended = FALSE] IN IF c.queue = <<>> THEN r ELSE Armed(r)

OfGroup(c, gid) == {cmd \in Queued(c) : cmd.gid = gid /\ cmd.id # WAKEUP}

\* A client makes a call.  Nobody sends on a channel that carries PPP.
Calls(c) ==
    {send_common(c, gid, kind) : gid \in {g \in Groups : c.next \in Ids /\ ~c.suspended},
                                 kind \in Kinds}
    \cup {cancelled(c, {cmd}) : cmd \in {d \in Queued(c) : d.id # WAKEUP}}
    \cup {cancelled(c, OfGroup(c, gid)) : gid \in Groups}
    \cup {closed(c)}

\* A callback may make a call, suspend the channel (the CONNECT of a data call)
\* or do neither.
Reactions(c) ==
    Calls(c) \cup {c}
    \cup (IF c.suspends < MaxSuspends THEN {at_chat_suspend(c)} ELSE {})

-----------------------------------------------------------------------------
(* Writing.                                                                *)

\* The wakeup goes first: never used yet, or not for inactivity_time.
WakeupFirst(c) ==
    c.wakeup /\ c.written = 0 /\ c.wakeup_timer \in {"unset", "old"}

\* A timer that is running goes on, and nobody has its source any more.
Prepared(c) ==
    IF WakeupFirst(c)
    THEN [c EXCEPT !.queue = <<Wakeup>> \o @, !.timer = TRUE,
                   !.strays = IF c.timer THEN @ + 1 ELSE @,
                   !.wakeup_timer = IF @ = "unset" THEN "fresh" ELSE @]
    ELSE c

\* How many sources run wakeup_no_response.
Running(c) == c.strays + (IF c.timer THEN 1 ELSE 0)

NothingToWrite(c) == c.queue # <<>> => c.written >= Length(Head(c.queue))

\* g_at_io_write takes the rest of a part, or some of it: then the watch stays.
can_write_data ==
    /\ chat.open /\ chat.armed
    /\ \/ /\ NothingToWrite(chat)
          /\ chat' = [chat EXCEPT !.armed = FALSE]
          /\ UNCHANGED modem
       \/ /\ ~NothingToWrite(chat)
          /\ LET c == Prepared(chat)
             IN  \/ /\ c.written % 2 = 0
                    /\ chat' = [c EXCEPT !.written = @ + 1]
                    /\ UNCHANGED modem
                 \/ /\ chat' = [c EXCEPT !.written = 2 * (@ \div 2) + 2,
                                         !.armed = FALSE,
                                         !.wakeup_timer = IF c.wakeup THEN "fresh" ELSE @]
                    /\ line' = Append(line, [id |-> Head(c.queue).id,
                                             last |-> chat'.written = Length(Head(c.queue))])
                    /\ UNCHANGED <<wire, lost, answer, prompted>>
    /\ UNCHANGED <<told, heard, slips>>

-----------------------------------------------------------------------------
(* Reading.                                                                *)

\* finish_command up to the callback
FinishedIdle(c) == [c EXCEPT !.queue = Tail(@), !.written = 0, !.lines = <<>>]

Finished(c) ==
    LET f == [c EXCEPT !.queue = Tail(@), !.written = 0, !.lines = <<>>]
    IN  IF f.queue = <<>> THEN f ELSE Armed(f)

wakeup_cb(c, ok) == IF ok THEN [c EXCEPT !.timer = FALSE] ELSE c

Called(cmd) == cmd.callback /\ cmd.id # WAKEUP

\* ... and with its callback: the structs it may leave.
FinishedBy(ok) ==
    LET cmd  == Head(chat.queue)
        done == Finished(chat)
    IN  IF Called(cmd) THEN {Destroyed(c, {cmd}) : c \in Reactions(done)}
        ELSE {Destroyed(IF cmd.id = WAKEUP THEN wakeup_cb(done, ok) ELSE done, {cmd})}

\* What the callback of the first command is given.
Tells(ok) ==
    LET cmd == Head(chat.queue)
    IN  IF Called(cmd)
        THEN /\ told' = [told EXCEPT ![cmd.id] = IF ok THEN "ok" ELSE "error"]
             /\ heard' = heard \cup {<<cmd.id, chat.lines[i]>> : i \in DOMAIN chat.lines}
        ELSE UNCHANGED <<told, heard>>

finish_command(ok) == chat' \in FinishedBy(ok) /\ Tells(ok)

\* have_line asks whether a part of the command has been submitted to its end.
Submitted(c) == c.queue # <<>> /\ c.written > 0 /\ c.written % 2 = 0

\* An intermediate line goes to the listing callback or is kept; a wakeup
\* command (none_prefix) has none.
TakeLine(msg) ==
    LET cmd == Head(chat.queue)
    IN  /\ heard' = IF cmd.kind = "listing" THEN heard \cup {<<cmd.id, msg.id>>} ELSE heard
        /\ chat' = IF cmd.kind = "listing" \/ cmd.id = WAKEUP THEN chat
                   ELSE [chat EXCEPT !.lines = Append(@, msg.id)]
        /\ UNCHANGED told

\* What is under way between a part written and its answer read.
Under ==
    LET answers == Without(wire, {Msg("line", id) : id \in Ids} \cup {Msg("prompt", WAKEUP)})
    IN  [i \in 1 .. Len(line) |-> line[i].id] \o [i \in 1 .. Len(answers) |-> answers[i].id]

\* A prompt comes in that is not for the command that waits for its own.
SlippedPrompt(id) ==
    LET cmd == Head(chat.queue)
    IN  /\ chat.queue # <<>> /\ cmd.kind = "prompt" /\ chat.written = 2
        /\ id # cmd.id /\ Under # <<>>

\* The timer of a wakeup goes off with another command first, with an answer on
\* its way, or before the wakeup is out in full.
SlippedTimer ==
    chat.queue # <<>> /\ ~(Head(chat.queue).id = WAKEUP /\ Under = <<>> /\ chat.written # 1)

Slips(slipped) ==
    /\ slipped => slips < MaxSlips
    /\ slips' = IF slipped THEN slips + 1 ELSE slips

new_bytes ==
    LET msg == Head(wire)
    IN  /\ chat.open /\ ~chat.suspended
        /\ wire # <<>> /\ wire' = Tail(wire)
        /\ Slips(msg.what = "prompt" /\ SlippedPrompt(msg.id))
        /\ \/ /\ msg.what = "prompt"
              /\ chat' = Armed(chat)
              /\ UNCHANGED <<told, heard>>
           \/ msg.what \in {"ok", "error"} /\ Submitted(chat) /\ finish_command(msg.what = "ok")
           \/ msg.what = "line" /\ Submitted(chat) /\ TakeLine(msg)
           \/ /\ msg.what # "prompt" /\ ~Submitted(chat)
              /\ UNCHANGED <<chat, told, heard>>
        /\ UNCHANGED <<line, lost, answer, prompted>>

\* A wakeup is put first again, whatever command was finished.
Again(c) == IF c.open THEN [c EXCEPT !.queue = <<Wakeup>> \o @] ELSE c

\* wakeup_timeout after a wakeup was put in the queue, and then again and again
\* until the queue is empty or wakeup_cb removes the source.
wakeup_no_response ==
    /\ chat.open /\ Running(chat) > 0
    /\ Slips(SlippedTimer)
    /\ \/ /\ chat.queue = <<>>
          /\ \/ chat.timer /\ chat' = [chat EXCEPT !.timer = FALSE]
             \/ chat.strays > 0 /\ chat' = [chat EXCEPT !.strays = @ - 1]
          /\ UNCHANGED <<told, heard>>
       \/ /\ chat.queue # <<>>
          /\ chat' \in {Again(c) : c \in FinishedBy(FALSE)}
          /\ Tells(FALSE)
    /\ UNCHANGED modem

\* inactivity_time goes by.  (An armed writer does not take so long, and a timer
\* that runs goes off before and writes: it is longer than wakeup_timeout.)
TimePasses ==
    /\ chat.wakeup_timer = "fresh" /\ ~chat.armed
    /\ Running(chat) > 0 => chat.written = 0
    /\ chat' = [chat EXCEPT !.wakeup_timer = "old"]
    /\ UNCHANGED <<modem, told, heard, slips>>

-----------------------------------------------------------------------------
(* Clients and the modem.                                                  *)

ClientCalls ==
    /\ chat.open
    /\ chat' \in Calls(chat)
    /\ UNCHANGED <<modem, told, heard, slips>>

Resume ==
    /\ chat.open /\ chat.suspended
    /\ chat' = at_chat_resume(chat)
    /\ UNCHANGED <<modem, told, heard, slips>>

Final(id, what, before) ==
    /\ wire' = wire \o before \o <<Msg(what, id)>>
    /\ answer' = IF id = WAKEUP THEN answer ELSE [answer EXCEPT ![id] = what]
    /\ UNCHANGED prompted

\* The modem works on the oldest part it has.
ModemAnswers ==
    /\ chat.open
    /\ line # <<>> /\ line' = Tail(line)
    /\ LET id == Head(line).id
           prompting == ~Head(line).last
       IN  \/ /\ id # WAKEUP
              /\ \E before \in {<<>>, <<Msg("line", id)>>} : Final(id, "error", before)
              /\ UNCHANGED lost
           \/ /\ id # WAKEUP /\ ~prompting
              /\ \E before \in {<<>>, <<Msg("line", id)>>} : Final(id, "ok", before)
              /\ UNCHANGED lost
           \/ /\ id # WAKEUP /\ prompting
              /\ wire' = Append(wire, Msg("prompt", id))
              /\ prompted' = prompted \cup {id}
              /\ UNCHANGED <<lost, answer>>
           \/ id = WAKEUP /\ Final(id, "ok", <<>>) /\ UNCHANGED lost
           \/ /\ id = WAKEUP /\ lost < MaxLost /\ lost' = lost + 1
              /\ \/ Final(id, "error", <<>>)
                 \/ UNCHANGED <<wire, answer, prompted>>
    /\ UNCHANGED <<chat, told, heard, slips>>

\* The modem prompts although no command has asked for it (or once more).
ModemPrompts ==
    /\ chat.open /\ wire = <<>>
    /\ wire' = <<Msg("prompt", WAKEUP)>>
    /\ UNCHANGED <<chat, line, lost, answer, prompted, told, heard, slips>>

Next ==
    \/ can_write_data \/ new_bytes \/ wakeup_no_response
    \/ ClientCalls \/ Resume
    \/ ModemAnswers \/ ModemPrompts \/ TimePasses

\* The main loop serves its watches and timers; the modem answers what it takes.
Fairness ==
    /\ WF_vars(can_write_data) /\ WF_vars(new_bytes)
    /\ WF_vars(wakeup_no_response) /\ WF_vars(ModemAnswers)

Spec == Init /\ [][Next]_vars /\ Fairness

-----------------------------------------------------------------------------
(* Properties.                                                             *)

TypeOK ==
    /\ chat.written \in 0 .. 4
    /\ chat.next \in 1 .. MaxCmds + 1
    /\ \A i \in DOMAIN chat.queue :
          /\ chat.queue[i].id \in 0 .. MaxCmds
          /\ chat.queue[i].id = WAKEUP => \A j \in 1 .. i : chat.queue[j].id = WAKEUP
    /\ chat.strays \in Nat /\ slips \in 0 .. MaxSlips
    /\ \A i \in Ids : told[i] \in {"none", "ok", "error"}

\* Half duplex: the modem has at most one part of a command that is not answered,
\* it belongs to the head of the queue, and the head waits for nothing else.
OneCommandOut ==
    chat.open => /\ Len(Under) <= 1
                 /\ Under # <<>> => /\ chat.queue # <<>>
                                    /\ Under[1] = Head(chat.queue).id
                                    /\ chat.written \in {2, 4}

\* Nothing is left in the queue for ever: it is being written, answered, waits
\* for a wakeup's timer, or for whoever suspended the channel.
NoLostWakeup ==
    chat.open /\ ~chat.suspended /\ chat.queue # <<>> =>
        chat.armed \/ Running(chat) > 0 \/ Under # <<>>

\* A wakeup the modem does not take is sent again: whatever stops timeout_source,
\* as many sources run as there are wakeups in the queue.
WakeupsAreTimed ==
    chat.open => \A i \in DOMAIN chat.queue : chat.queue[i].id = WAKEUP => i <= Running(chat)

\* The result and the lines a command's callbacks are given are those the modem
\* answered that command with, whatever was cancelled meanwhile.
OwnAnswer ==
    /\ \A i \in Ids : told[i] \in {"none", answer[i]}
    /\ \A p \in heard : p[1] = p[2]

\* The second part of a command is written only after its prompt: neither another
\* command nor a resumed channel starts the writer early.
PromptFirst == chat.written > 2 => Head(chat.queue).id \in prompted

\* Every command's destroy function is called once: when it leaves the queue.
DestroyedOnce ==
    \A i \in Ids : i < chat.next =>
        chat.destroyed[i] + (IF \E cmd \in Queued(chat) : cmd.id = i THEN 1 ELSE 0) = 1

\* The channel: never asleep with work to do, its wakeups timed, and, as long as
\* no timer and no prompt comes at a wrong time, half duplex.
ChannelInvariant ==
    /\ TypeOK /\ NoLostWakeup /\ WakeupsAreTimed
    /\ slips = 0 => OneCommandOut /\ PromptFirst

\* A command that was cancelled gets no final callback ("just null out the callback
\* so it won't be called", at_chat_cancel; its listing callback stays).
CancelledIsSilent == \A i \in chat.cancelled : told[i] = "none"

\* What a client hears of its command: its own answer (as long as no timer and no
\* prompt comes at a wrong time) or nothing if it cancelled, and in any case the
\* destroy function once.
EachHearsItsOwn == (slips = 0 => OwnAnswer) /\ CancelledIsSilent /\ DestroyedOnce

\* "Once the command executes, the callback function given by func is called"
\* (gatchat.h:86): not before the modem has answered it.
CalledOnceExecuted == \A i \in Ids : told[i] # "none" => answer[i] # "none"

\* The commands of clients that are still to be called back.
Silent(q) == {cmd \in {q[i] : i \in DOMAIN q} : ~cmd.callback \/ cmd.id = WAKEUP}
Waiting(q) == LET live == Without(q, Silent(q)) IN [i \in 1 .. Len(live) |-> live[i].id]

\* The channel is a FIFO service for its clients, whenever its timers go off.
Service == INSTANCE AtService WITH waiting <- Waiting(chat.queue)

ImplementsService == Service!Spec

\* Every command leaves the queue, unless the channel stays suspended (or the
\* modem answers one command too few after a slip).
EveryCommandLeaves ==
    \A i \in Ids : i < chat.next ~> chat.destroyed[i] > 0 \/ chat.suspended \/ slips > 0
==============================================================================
