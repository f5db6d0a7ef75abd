# A TLA+ model of phonelets: SIM sharing over WiFi and the core of oFono

The repository lets a modem without a SIM use the SIM card of another device.
A Raspberry Pi with a card reader serves the card in the SIM Access Profile
(SAP) message format; a modified oFono on the modem's host passes the bytes of
the modem's SAP port on, over Bluetooth (`ofono-bt`) or over D-Bus and ZeroMQ
(`ofono-wifi`).

```
 modem --tty--> ofonod -------- D-Bus -------> relay ------ ZeroMQ -----> SIM server --> card
        <------ plugins/telit.c   processAPDU  dbusrelaynet.py  REQ/REP   simserver.py
                plugins/sap.c                  (2 threads, 2 queues)
                src/modem.c <-- SetProperty -- D-Bus clients
```

Above the modem core stand oFono's atoms, each with a queue or a state machine
of its own. They talk to the modem through a driver, most drivers through the
AT command queue of `gatchat`, packet data through its PPP.

```
 D-Bus clients --> src/sms.c   src/gprs.c   src/simfs.c --> cache and outbox on disk
                        |           |            |
                        |      gprs-context.c    |           (drivers/atmodem and others)
                        v       |        v       v
                     gatchat.c  <--   gatppp.c (LCP, CHAP, IPCP: ppp_cp.c) --tty--> modem
```

## 1. Inventory

### Modelled

| part | state | operations | what is hard |
|---|---|---|---|
| SIM server, `rpi-sim/simserver.py` | `buffer`, `currentStep`, whether the process runs | `process` on a fragment (incomplete, CONNECT, ATR, APDU, exceptions), restart | fragments cut anywhere, bytes left by a modem that was reset, steps counted on one side only, exceptions that end the process |
| relay, `rpi-sim/dbusrelaynet.py` | `reqQueue`, `respQueue`, the method being served, the REQ socket | `processAPDU` (in two halves), `apduProcessor` (in two halves), restart | two threads, a FIFO match of request and response, a REQ socket that waits for ever |
| SAP port of ofonod, `plugins/telit.c` | the pending D-Bus call that blocks the main loop | `hw_event_cb_smart`, `smartcard_cb`, the call's timeout | a late answer, a blocked main loop |
| modem core, `src/modem.c` | `modem_state`, atoms, `powered`, `powered_pending`, `pending`, `timeout`, lock, `online`, `get_online`, emergency | `SetProperty` of Powered, Online, Lockdown; `ofono_modem_set_powered`; `online_cb`, `offline_cb`, `common_online_cb`; `set_powered_timeout`; `ofono_modem_reset`; SIM notifications; lock owner leaving; emergency mode; unregistration | answers of the driver that come late, fail, or never come; one request slot for all clients; state changed in a callback after a request was answered |
| SMS transmission, `src/sms.c`, outbox of `src/smsutil.c` | `txq`, `tx_source`, the driver's submission, the outbox directories | `txq_submit`, `txq_cancel`, `tx_next`, `tx_finished`, registration watches, removal and registration of the atom with `sms_restore_tx_queue` | four conditions that start the queue, retries of a message cancelled, files renumbered at a restart, kills between two files that are written or removed |
| AT command queue, `gatchat/gatchat.c` | `command_queue`, bytes written of its head, writer, wakeup timers | `send_common`, `at_chat_cancel(_group)`, `can_write_data`, `new_bytes`, `finish_command`, wakeup, suspend, resume, hang-up | one command out at a time, commands cancelled while the modem works on them, callbacks that send and cancel, prompts, a wakeup timer that meets another command |
| PPP, `gatchat/gatppp.c`, `ppp_cp.c`, on a call of `drivers/atmodem/gprs-context.c` | phase, two automata with counters and timers, the context's request | packets, timeouts, hang-up, shutdown, activation, deactivation, detach | the RFC 1661 table under any order of packets, two counters on two timers, the end of a link reported once |
| SIM file system, `src/simfs.c` | `op_q`, `op_source`, the driver's call, the open cache file, the cache on disk | reads, writes and info of clients, the driver's answers, `sim_fs_op_next` and its blocks, REFRESH, `sim_fs_free` | callbacks that queue and free, kills between the writes of a block, flushes under a running read |
| packet data, `src/gprs.c` | `powered`, `roaming_allowed`, `driver_attached`, `attached`, flags, contexts, drivers, cids | settings, registration and packet status, attach answers, activation, deactivation, removal, DeactivateAll | wishes that change while the driver works, contexts released one after another |

What makes each part correct:

* server: every message is reassembled exactly, a client that keeps to the
  protocol is answered in kind and never makes it raise, and a modem that was
  reset gets a session again;
* relay and port: an answer reaches only the request it belongs to, in order,
  and the host's main loop always gets out;
* modem core: power, state, atoms, Online, the request in flight and what
  clients were told stay consistent, and every request is answered once;
* SMS: a message accepted from a client is sent once, in its turn, or its
  failure is known, across restarts of ofonod (section 4 has the kills after
  which it is not);
* AT queue: a FIFO service to its clients, each told once or not at all, never
  asleep with work to do; half duplex with the modem and its own answer to each
  client, as long as the wakeup's timer meets only the wakeup;
* PPP: a layer opens only on options both sides agreed to, the network is there
  only on both layers, the end of a call is reported once, and a call that is shut
  down or lost ends, unless the peer prevents it (section 4);
* SIM files: operations are served in order, the cache says what the card says,
  and neither it nor its flushing is visible to clients;
* packet data: the driver is asked for what settings and registration want,
  clients hear the truth, and each context has its own driver, cid and answer.

### Not modelled (and why)

* **The enable, disable and #RSEN part of `plugins/telit.c`, and
  `plugins/sap.c`.** What it does is decided outside the program: every
  `#RSEN: 1` calls telit_enable again (telit.c:541), which opens the same two
  ttys once more while the first channels, their readers and their #RSEN
  registration stay. Two channels then read from one tty, and which of them
  gets an answer of the modem, or half of one, is up to the kernel. A model
  would be a free choice of what each callback ever sees. Read off the code:
  the first channels are leaked; #RSEN: 0 closes the port from its own
  notification, the destroy functions of its watches power the hardware modem
  down (not the SAP modem), and rsen_disable_cb closes it once more; without the
  relay on the bus telit_sap_enable_wifi returns -EIO and leaves port and
  channels to the next attempt to overwrite (l.686); in the WiFi branch of
  sap_enable a synchronous failure comes out as -EINPROGRESS (sap.c:203); a
  ConnectFD reply that comes after the modem was powered powers it down
  (sap.c:137). In `ModemCore` all of it appears as a driver that answers late,
  twice (`MaxEnables` 2), never, or hangs up.
* **`__ofono_modem_shutdown` with several modems** (modem.c:2203): it counts
  modems down in ofono_modem_set_powered, so the additional power-down above
  makes ofonod exit before the modem has answered CFUN. `ModemCore` has one
  modem. The watch lists of the atom registry are left out as well.
* **smartcard_cb writes an answer once** (telit.c:219): a short write or AGAIN
  drops the rest. The port of `SimRelay` takes every answer whole.
* Of the modelled atoms: SMS reception, assembly and status reports; PDU coding;
  PIN handling and initialisation of the SIM; loading, provisioning, suspension
  and removal in gprs.c; PPP's HDLC framing, option coding, IPv6CP and server
  side; parsers, notification nodes, slaves and the server side of gatchat.
* Multiplexer, voice calls, network registration, USSD, SIM toolkit and the
  other atoms: unmodified oFono; most keep a cache of a property in the network
  behind one pending request.
* `drivers/` (but for gprs-context.c), vendor plugins, `gdbus`, `gisi`, `btio`,
  `dundee`, tools, tests: translation to devices and libraries.
* `ofono-bt`: a second copy of the oFono tree. It differs in `plugins/sap.c`,
  `plugins/telit.c`, three test scripts and, in `src/modem.c`, only in the
  `SAP_type` argument of SetProperty: what is said of the other files holds for
  both.
* `dbus-service.py`: an older program that joins the relay's queues and an
  older server `process()` in one process; `simclient.py`, `dbus-client.py`,
  `generate_certificates.py`: scripts without a state.

The hazards of the code are listed line by line in PROJECT.json, with the
properties that look for them.

## 2. Modules

| module | models | state and actions |
|---|---|---|
| `Rsap` | message format, class `RSAPMessageProtocol` | operators only: `Message`, `isMessageComplete`, `Printable` (printMessage does not raise), `CarriesAPDU` (extractAPDU_REQ and transmit do not), the generated answers |
| `SapSession` | abstract: the promise to a SAP client, message by message | `session`, `request`, `reply` |
| `SimServer` | `Server` of simserver.py, with a SAP client and a card | `process(fragment)` is one of six outcomes; `Send`, `Transmit(n)`, `Cut`, `Restart` are the environment |
| `MCSimServer` | instances of the commands and card answers for TLC | |
| `SimServerProofs` | theorems about `SimServer` | |
| `SimLink` | abstract: the promise of the whole WiFi path to the modem | `unread`, `taken`, `answers` |
| `SimRelay` | telit.c data path + D-Bus + dbusrelaynet.py + ZeroMQ + run() of simserver.py | one action per handler or per half of a blocking one |
| `SimRelayProofs` | theorems about `SimRelay` | |
| `ModemCore` | src/modem.c for one modem | one action per D-Bus method, driver callback, timer and notification |
| `ModemCoreProofs` | theorems about the state of `ModemCore`, its requests, signals and the end of a modem | |
| `SmsOutbox` | abstract: the outbox as a FIFO of messages with an outcome, and what an end of ofonod may do to it | `outbox`, `outcome`, `entered`, `ends`, `torn` |
| `SmsTx` | the transmit queue of src/sms.c and its backup | one action per entry point; `sms_remove` ends ofonod between two of them, `txq_submit_killed`, `tx_finished_killed` and `txq_cancel_killed` between two files that one writes or removes; `ofono_sms_register` starts it again |
| `SmsTxProofs` | theorems about `SmsTx` | |
| `AtService` | abstract: a FIFO service that may be cancelled | `waiting` |
| `AtChat` | the command queue of gatchat.c, with a modem | `chat` is the struct, the operations are functions from `chat` to `chat`, so that callbacks can call them (`Calls`); `line`, `wire` is the tty; `slips` counts the timers and prompts that came at a wrong time |
| `AtChatProofs` | theorems about `AtChat` | |
| `PppCp` | ppp_cp.c: the automaton as a table and its actions | operators on one layer, `cp` |
| `Ppp` | gatppp.c with LCP and IPCP as two `PppCp`, CHAP, and one context of gprs-context.c | one action per kind of packet, timer, hang-up and driver call |
| `PppProofs` | theorems about `Ppp` | |
| `Queues` | a loop over a queue that takes elements out | operators only: `Without` |
| `SimFiles` | abstract: requests served in order, with content no older than announced | `pending`, `told` |
| `SimFs` | src/simfs.c with its cache on disk, a card and clients | one action per entry point, callback and idle source; `KilledInCacheBlock` between two writes |
| `SimFsProofs` | theorems about `SimFs` | |
| `Gprs` | src/gprs.c | attaching (`gprs`, `asked`) and contexts (`context`, `gc`) |
| `GprsProofs` | theorems about both halves of `Gprs` | |

How they fit: `SimServer` looks inside the bytes and takes fragments one by
one; `SimRelay` treats bytes as numbered chunks and the server as something
that takes a request, and answers with or without bytes or dies. What
`SimRelay` assumes of the server (one answer to each request, in lockstep, or
the end of the process) is `process` of `SimServer`, each of whose outcomes is
an answer (possibly empty) or `Raise`. `ModemCore` and `SimRelay` meet in
`hw_watch_remove` (a `Hangup` of `ModemCore`). `Gprs` and `Ppp` meet at one
context: an `Activate` of `Gprs` is `pri_set_active` of `Ppp`, whose
`gcd.cb` becomes the answer `Connected` or `ActivateFailed`, and whose
`ppp_disconnect` becomes `ofono_gprs_context_deactivated`. What `SmsTx`,
`SimFs` and `Gprs` take for granted of their drivers, that a request is answered
once, is `EachHearsItsOwn` of `AtChat` (with a
wakeup set, as plugins/calypso.c does, only while `slips = 0`).

### Abstractions, by module

* **SimServer.** A byte string is a sequence of 0..255. The card is a set of
  answers, and may fail. The first answer and the one fetched with GET
  RESPONSE are chosen freely. The modem sends one message at a time and
  believes any other answer than the expected one to mean that it must connect
  again; it may also connect again of its own accord. It does not ask for
  anything the server has no step for, unless `Disconnects`.
* **SimRelay.** A D-Bus call is its serial; `calls` and `ttyOut` are history
  variables that keep its data and what was written to the port. Calls,
  queues and replies carry the data itself, so a mix-up is visible. A restart
  of the relay makes new queues and a new socket; the bus answers the calls it
  had not replied to with an error. A reply to a connection that is gone is
  dropped. A crash of the server loses the request in hand, and the one on the
  wire or not.
* **ModemCore.** The driver is anything that returns one of `EnableResults`
  and `DisableResults` and, after -EINPROGRESS, calls
  `ofono_modem_set_powered` at any later time or never. Asked to disable, it
  may cancel what it was asked before (telit_disable does). The atoms are
  counted per hook (pre_sim, post_sim, post_online) rather than listed. The
  transitions of `SimMoves` are those after which src/sim.c calls
  its state watches. Properties that no state depends on (Name,
  Manufacturer, Features, ...) and the timeout argument of SetProperty are
  left out. `reply` and `signalled` say what clients were told.

* **SmsTx.** A PDU is its number in its message. A message is in `Exposed` if it
  comes from a client, and has a backup, or comes from the SIM toolkit. The
  driver answers ok, or with one of the two kinds of error that tx_finished
  tells apart. A removal unlinks the files of a directory from the highest number
  down and then the directory; ofonod can be killed before, between and after.
  What it leaves of the files is in `disk`, a directory without any in `empty`.
  An outcome counts as told when the entry's callback and the history have it
  (sms.c:628-649), which is before the first file goes. `torn` are the messages
  a kill left in part (or in full) with their outcome told. History: `size`,
  `accepted`, `confirmed`, `outcome`, `restores`.
* **AtChat.** A command is a line, or a line and a text after a prompt; a write
  moves part or all of what the writer has. Answers are recognised as final,
  prompt or line by kind, the parsers are left out. The modem may answer a
  prompting command with an error instead, may prompt unasked (`ModemPrompts`),
  and answers the wakeup, refuses it, or does not take it. A callback makes at
  most one call of its own (`Calls`); nobody sends on a suspended channel.
  The wakeup's timer is a plain timeout: `wakeup_no_response` is possible
  whenever its source is there, with whatever command first. A source that is
  still there when `can_write_data` makes a new one is forgotten by `chat` but
  runs on (`strays`). `slips` counts the times it goes off when the first command
  is not a wakeup, or its answer is on its way, or it is not out in full, and the
  times a prompt comes to a command that waits for its own although that is
  under way; it is bounded by `MaxSlips`, and properties may speak of it. Left
  out: a callback that closes the chat inside `wakeup_no_response`, after which
  the code puts a wakeup into a freed queue (undefined; the model puts none), and
  a forgotten source that goes off after the chat is closed (likewise).
* **Ppp.** An option set is `default` or `changed`; what a Configure-Request
  asks is told apart by what the code answers (ack, nak, reject). Identifiers
  are abstracted to whether an acknowledgement is of something we asked.
  `GUINT` is where an unsigned counter wraps. The peer sends any packet at any
  time; the retransmission timers run out at any time.
* **SimFs.** A file is its version on the card (`CardChanges` counts it up),
  read in blocks of `BLOCK` bytes; a cache file is a header, the bits of the
  blocks and their data. The kinds of request stand for the ways through
  sim_fs_op_info_cb. A callback may queue, or free its context.
* **Gprs.** Registration is the five statuses the code tells apart; `attached`
  is what clients are told. `decided` and `network` remember who set
  `driver_attached` last. A driver that is `shut` is a session that was told to
  shut down.

A definition that ends in a name of a changed behaviour
(`WaitUntimed`, `FinishUnarmed`, ...) stands before the definition it
is a faulty form of. It is used by no specification; it is the fault a property
is known to detect (`mutants` in PROJECT.json).

## 3. Runs

Properties with a conjunction in their definition join named parts that are
stated and explained one by one in the module.

| run | checks | distinct states | shows |
|---|---|---|---|
| `session` | `Reassembly`, `NeverRaises`, `ImplementsSession` | 117 | every cutting of CONNECT, ATR and APDU requests into fragments is put together exactly and the server implements `SapSession` |
| `server_recovery` | `StepMatchesPhase`, `ResetModemReconnects` | 24,868 | after a reset in mid-message, card failures and a restart of the server: stale bytes never let server and modem disagree about a session both think open, and connecting again recovers from them |
| `relay` | `PipelineServesOneCall`, `AnswersMatchCalls`, `AnswersInOrder`, `LostRequestBlocksRelay`, `ImplementsLink`, `CallsReturn` | 41,523 | the FIFO match of the FIXME in processAPDU is sound: timeouts, crashes and restarts never shift an answer to another request. The call's timeout frees ofonod's main loop however the rest fails. The price is `LostRequestBlocksRelay` |
| `modem_requests` | `PendingWillBeAnswered`, `CallbacksAnswerTheirOwn`, `UnregisteredIsClean`, `NothingStartsInEmergency` | 14,820 | two clients, no SIM atom, no resets: the one request slot is shared soundly |
| `modem_states` | `StateIsBacked`, `AtomsFollowState`, `PoweredIsSignalled`, `EveryRequestAnswered` | 18,174 | a modem with a SIM, resets whose enable answers later, and a driver that loses its set_online commands when its device goes away: everything stays together, and all but an Online request whose command was lost is answered |
| `sms_tx` | `TxQueueRuns`, `MessagesAccountedFor`, `ImplementsOutbox`, `QueueDrains` | 891,600 | the queue is never left standing, one PDU is out at a time, and ofonod killed between any two steps, or any two files, loses no message unsent, sends none again before the second restart, and reports none falsely but what section 4 names |
| `at_chat` | `ChannelInvariant`, `EachHearsItsOwn`, `ImplementsService`, `EveryCommandLeaves` | 714,514 | cancellation, prompts, suspension, callbacks that call back, and a wakeup timer and prompts that come at any time leave a FIFO service that is never stuck; as long as they come at their time it is half duplex and every command has its own answer |
| `ppp` | `LinkIsConsistent`, `OpenOnAgreement`, `ReportedOnce`, `NeverUpAfterShutdown`, `EveryCallEnds` | 164,511 | whatever the peer sends and whichever timer runs out, what is open was agreed to, and the end of a link is reported once; it does end if the peer stops asking a closing link to terminate (section 4) |
| `sim_fs` | `OperationsAreServed`, `CacheTruth`, `ImplementsFiles`, `EveryRequestEnds` | 414,441 | the cache is truthful through kills, failed writes and flushes, and invisible to clients; every operation ends |
| `gprs` | `AttachmentAgrees`, `ContextsAgree`, `DeactivateAllMeansAll`, `Settles` | 94,242 | changes in any order while drivers work leave the driver in the state last wished for, Attached true, and contexts with their own resources and answers |
| `lock_power`, `sim_read` | one statement of a document or header each (violated) | | section 5 |

`CHECK_DEADLOCK FALSE` where a run may end: the server gone, the modem
unregistered, the channel hung up, or everything asked for done and the
bounds of the environment used up. Only `session` has no such end.

### Bounds

* `MCApdus`: commands of 1, 5, 9 and 13 bytes, with and without padding.
  `MCSmallApdus`, where resets leave stale bytes, keeps bytes that are taken for
  a length small, so that the parameter ends within the run; its messages of 12
  and 16 bytes can swallow a CONNECT_REQ. `MaxCuts` 1 and `MaxRestarts` 1: one
  trouble of each kind, in either order; later ones find the same stale bytes.
  `MaxBuffer` 24: a message is cut in pieces while at most 24 bytes are in the
  buffer (two messages), and arrives whole beyond that.
* `MaxChunks` 4 and `ReadMax` 2: reads of one and two chunks, a call in
  service, one timed out behind it, and one more. `MaxCrashes` 2,
  `MaxRestarts` 1: a crash before and after a relay restart. Safety
  is proved for all values (section 6).
* `SmsTx`: two messages of clients and one of the SIM toolkit, up to two PDUs,
  the code's three retries, two ends of ofonod: one in the middle of a submission
  and one after the restoring, the least to see cur_pdu and file numbers part.
  With two PDUs a removal can be cut before, between and after its files. With
  three PDUs the same properties hold (3,891,060 states, not among the runs).
* `AtChat`: two commands of two groups (one at work, one behind it or sent from a
  callback), one suspension, one wakeup lost or refused, one timer or prompt at a
  wrong time. With three commands of one group all of it holds (11,138,182
  states), with three of two groups and no suspension the safety properties do
  (1,361,332), and with two wakeups lost and two slips all of it (5,526,734); these
  are not among the runs. The proofs have no bound.
* `Ppp`: the code's limits shortened to 3 requests, 2 terminations, 1 refusal:
  each counter reaches its end and its middle; `GUINT` 5 is far enough above
  them that a wrapped counter is out of every limit.
* `SimFs`: two operations of two clients (one served, one queued), two blocks of
  two bytes with a last one that is short, two records, one change of the card,
  one restart. With three operations the same properties hold
  (714,597 states, not among the runs).
* `Gprs`: two contexts, two drivers, one of them for any type; three changes of
  settings or network and two requests in every order. With four changes they
  hold too (416,042 states), and the safety properties without a bound on
  requests (1,945,180). `MaxLeaks` below the number of cids, see section 4.
* `MaxEnables` 2: two driver enables outstanding, the least for a late one to
  overtake. `MaxEmergency` 1: nesting is a counter; 1 tests its two ends.
  Clients: 2 where the lock and the request slot are shared, else 1.
  The clients are not symmetric sets: the graphs are small without it.

### Fairness

* `SimServer`: the modem goes on sending (`Send`) and what it sends is
  delivered and processed (`Transmit`): one loop around recv_json. Resets and
  restarts are not assumed to happen.
* `SimRelay`: GLib main loops dispatch what is ready; the worker thread is
  scheduled; a request on an open connection is received, processed and
  answered while the server is up; the timer of a D-Bus call expires.
  Weak fairness on each, none on `ModemWrites`, crashes or restarts.
* `ModemCore`: the GLib timer expires; a driver that has a set_online command
  outstanding completes it (`online_cb`, `offline_cb`). The latter is the
  contract of `ofono_modem_driver.set_online`; with
  `HangupLosesCommands` the command itself may disappear, which drivers that
  unreference their AT chat do (phonesim_reset). No fairness for enable,
  disable, SIM changes or clients.

* `SmsTx`, `SimFs`, `Gprs`: the main loop runs an idle source or a timeout that
  is due, and drivers answer what they were asked (`ContextAnswers`,
  `AttachAnswers`, `tx_finished`, `Driver`): the contract of every oFono driver
  function with a callback. In `Gprs` only a successful answer is fair to
  attach requests: `ComesToRest` says that attaching ends when failures
  do. No fairness for clients, the network or the card's changes.
* `AtChat`: the main loop serves its watches and timers, and the modem answers
  the part it has. None for `Resume`: hence `chat.suspended` in
  `EveryCommandLeaves`. After a slip the modem may have taken two commands for
  one, or one for none, and the queue waits: hence `slips > 0` there.
* `Ppp`: what waits for the main loop (the idle source of ppp_dead, the writing
  of a Terminate-Ack) is run. A timer that runs expires, unless a packet makes
  LCP start it again (`LcpRestart`: pppcp_start_timer removes the source and
  adds a new one), and that may go on for ever:
  `WF_vars(LcpTimeout \/ LcpRestart)`. None for the peer.

## 4. What holds only under a condition

* `ResetModemReconnects` assumes that messages arrive whole from some time on
  (`<>[](sent = 0)`). If every CONNECT_REQ is split at the same place the bytes
  before the split can complete the stale message each time and those after it
  stay in the buffer, for ever. TLC finds that behaviour without the assumption.
* `Reassembly` is for a modem that is not reset in the middle of a message and a
  server that stays (`NoResets`); `NeverRaises` and `ImplementsSession` also
  need a card that answers and a client without DISCONNECT_REQ (`Quiet`). All
  three are for commands and answers shorter than 65536 bytes: the length of a
  parameter has two bytes.
* `EveryRequestAnswered` exempts an Online request whose command the driver
  lost. It has no timer: after such a hang-up every SetProperty is answered
  InProgress until the modem resets. `PendingWillBeAnswered` is
  checked for drivers that lose no command (`HangupLosesCommands = FALSE`).
* `CallbacksAnswerTheirOwn` is checked without resets. `ofono_modem_reset`
  answers the pending request; if the driver still completes the offline
  command, `offline_cb` replies to a request that is not its own or not there.
* `PoweredIsSignalled` needs resets whose enable answers later: one that
  succeeds at once is told to nobody (modem.c:890, 2154).
* `StateIsBacked` and `AtomsFollowState` need resets
  whose enable does not fail: `ofono_modem_reset` puts the modem into PRE_SIM
  after a failure as well.

* `MessagesAccountedFor` and `SmsOutbox` say what a kill of ofonod between two
  files does. A message whose directory was only made is not there after the
  restart (its submission was not answered either). One of which the last file
  was unlinked after the last confirmation, or whose submission was just
  confirmed when its directory went, was sent and nobody hears of it. One that
  was given up or cancelled, and of which sms_tx_backup_free had not unlinked
  all files, is restored: what is left of it, the PDUs up to some number, is sent
  as if it were all, and it is reported a second time, perhaps as sent
  (`torn`). And a directory without a file stays for ever: sms_tx_queue_load
  skips it, so nothing removes it (`EmptyIsDone` says that nothing is lost by it).
* Nothing is sent twice (`NothingSentAgain`) as long as a message was read back
  once: afterwards cur_pdu counts from the first file left, while
  sms_tx_backup_remove takes it for the file's number, and a message that was
  restored twice can send a PDU again.
* `LinkIsConsistent` needs `MAX_TERMINATE >= 2` (the code has 2): with 1 a
  Terminate-Request that is sent as the last one can make the counter wrap.
* Half duplex (`OneCommandOut`), prompts (`PromptFirst`) and own answers
  (`OwnAnswer`) of `AtChat` are stated for `slips = 0`: no timer of a wakeup has
  gone off with another command first or an answer on its way, and no prompt has
  come to a command that waits for its own before that. The code does not see to
  either: wakeup_no_response finishes whatever is first (gatchat.c:815), and
  wakeup_cb leaves its source when the wakeup was refused (l.794-795), so it
  then goes off with the client's command first (`CalledOnceExecuted`, section
  5). The answers can then be shifted: of two OKs to two wakeups, the first finishes
  the second wakeup and the second the client's command behind it.
  The rest of `ChannelInvariant` and `EachHearsItsOwn` (`NoLostWakeup`,
  `WakeupsAreTimed`, `CancelledIsSilent`, `DestroyedOnce`) and
  `ImplementsService` hold whenever they come.
* `CancelledIsSilent` speaks of the callback for the final response. The listing
  callback of a command that is cancelled while the modem works on it stays,
  and is called with its lines (gatchat.c:561-567).
* `EveryCallEnds` is for a peer that relents (`PeerRelents`): from some time on
  it sends a closing link nothing that restarts its timer. A peer that repeats
  its Terminate-Request within every 3 s has each answered by an Ack, which
  starts the terminate timer again (ppp_cp.c:132, 534), and the link is closing
  for ever.
* `EveryCallEnds` exempts a hang-up while LCP is CLOSING: Down takes it to INITIAL,
  no timer runs and This-Layer-Finished is not called (ppp_cp.c:114), so the
  client's deactivation waits for ever.
* `ReportedOnce` is stated for a link that was not opened twice: when a peer
  renegotiates, ppp_connect runs the activation's callback again although its
  request was answered (gprs-context.c:100).
* The counters of IPCP are not in `LinkIsConsistent`: its configure counter does
  wrap when the peer's packets make it send without restarting it.
* A peer that opens LCP and never sends its challenge keeps the call waiting:
  the phase has no timer (gatppp.c:440). `EveryCallEnds` counts from a shutdown or a
  hang-up.
* `CacheTruth` exempts a file whose change the card announced while ofonod was
  down: nothing compares cache and card at the next start.
* `ContextsAgree` is checked for clients that do not remove a context which is
  being activated (`RemovesActivating` FALSE): RemoveContext frees it, and the
  driver's callback is given it (gprs.c:1952). It also needs a cid that is
  free: assign_context takes one before it looks for a driver and keeps it
  when there is none (l.285), and idmap_alloc returns the same number to all
  when the map is full.
* SimFs: a callback that frees its context with a record that is not the last
  makes sim_fs_op_read_record call a NULL `cb` for the next (simfs.c:540). The
  model's callbacks free their context with the last record.

## 5. Where the code and its documentation disagree

With a run of its own:

1. `LockedModemIsDown` (`lock_power`): "Setting it to true, makes the calling
   application hold the modem lock and power it down" (doc/modem-api.txt:45). An
   enable that outlives its request's timeout powers up a modem that was locked
   meanwhile.
2. `WholeRead` (`sim_read`): include/sim.h:223-226 promises all of a file to the
   one callback of a transparent read. The place in the buffer of every block
   but the first is computed as (current - start_block - 1) * 256 + offset % 256
   (simfs.c:364 and 439): of a file read from its start, block 1 is copied over
   block 0 and the end of the buffer is never filled.

Stated in the modules; TLC finds each violated when it is given as the property
of the run named:

3. `LockdownIsSignalled` (ModemCore): "If the the application exits Lockdown is
   set to false" (modem-api.txt:49). The signal carries the value before the
   change.
4. `OnlineSuccessIsTrue` (ModemCore): "On success a PropertyChanged signal will
   be emitted" (l.17). online_cb answers before it finds the modem powered down.
5. `Step2IsApdu` (SimServer, with `Disconnects`): DISCONNECT_REQ, which the
   protocol table knows, meets the NameError of extractAPDU_REQ and ends the
   server.
6. `PartlySentStays` (SmsTx): "It's not possible to cancel messages that
   already had some parts sent" (doc/message-api.txt:15-18). After a restart
   cur_pdu is 0 again, and it is.
7. `LinkUpPhase` (Ppp): "IPCP negotiation ok, link up" (gatppp.c:56). A peer
   that ends IPCP leaves the phase at LINK_UP without a network, and a second
   CHAP success puts a link that is up back to NETWORK, where IP packets are
   dropped.
8. `AllDownWhenDetached` (Gprs): "If this value changes to false, the user can
   assume that all contexts have been deactivated" (doc/connman-api.txt:85-87).
   A context that is being activated while the modem detaches is not seen by
   release_active_contexts and comes up.
9. `SignalledAfterRelease` (Gprs): the comment at gprs.c:2303 has Attached
   signalled "after active contexts have been released". A context taken down
   by SetProperty, DeactivateAll or RemoveContext leaves the flag set.
10. `CalledOnceExecuted` (AtChat): "Once the command executes, the callback
   function given by func is called" (gatchat/gatchat.h:86-88). When the modem
   refuses the wakeup, or its answer is late, wakeup_no_response calls back the
   client's command behind it, which is not answered, with an error
   (gatchat.c:815; one slip is enough). plugins/calypso.c:283 sets such a wakeup,
   500 ms after 5 s of silence.

Roaming is judged by the circuit registration (gprs.c:1579), though
doc/connman-api.txt:124-128 speaks of packet roaming; `OffMeansDetached` is
stated for a network where both agree.

One more is read off the code without a run: doc/modem-api.txt:47 says "Only the
application that holds the lock can power up the modem", but modem.c:1115
refuses SetProperty(Powered) to the holder of the lock as well.

## 6. Proofs

TLAPS proves, for every value of the constants:

**SimServerProofs** (from `SimServerAssumption`: commands and card answers are
byte strings shorter than 65536 bytes). `StepMatchesPhase` is nearly inductive:
its strengthening `StepOfPhase` drops `running`, because an exception leaves the
step alone. The lemma behind it is `Answered`: the kind of an answer tells the
step the server is in after it, whatever message it took the buffer for, and the
modem goes on only after the answer it waits for. So nothing about when a
message is complete is needed.

The other three do need it. A message is complete where walking over its
parameters (`ParamEnds`) ends at its length. That walk is a recursive function,
but the messages of a client have at most two parameters, so `ParamEnds` is
unfolded by naming its values: no prefix of a message is complete, the message
is. `FragmentInv` is then `Reassembly` with types and with what `sent` counts; it
gives `Reassembly` without resets (`NoResets`). `QuietInv` adds that the server
runs and is in the step of the phase; it gives `NeverRaises` and, fragment by
fragment, that each step of the server is one of `SapSession` or none.

**SimRelayProofs** (from `SimRelayAssumption`: the bounds are naturals and a
read is at least one chunk). The inductive invariant `IInv` has three parts.
`TypeOK` gives the ranges. `Pipeline` is `PipelineServesOneCall` strengthened
by `OnePlace` (the request served is in exactly one place: request queue, wire,
server, reply, response queue or lost) and `OldConnections` (whatever the server
still has of an earlier connection has its number). Without `OnePlace` a
response could be added to a queue that already has one. `Delivery` is
`AnswersMatchCalls` and `AnswersInOrder` together with what is still on
the bus: replies match their calls, and what was written is older than the
call waited for. From it: the type invariant, the four safety invariants, the two
action properties, and `Refinement`, that the path implements `SimLink` under
the mapping at the end of `SimRelay`. `TypeOK` and `NoLateAnswer` are proved
here and no longer part of a run.

**ModemCoreProofs** (from `ModemCoreAssumption`, and `"fail" \notin
ResetResults`). `IInv` is `Sound(m)` (the fields of `m` have their types and the
atoms are those of the state), `Agrees(m)` (ONLINE is online, OFFLINE is not),
`PowerFits` (past POWER_OFF there is power; online needs power while
registered) and `OthersOK` (types of the rest). Every function from `m` to `m`
(`modem_change_state`, `sim_ready`, `PoweredUp`, ...) has a lemma that says
what it keeps; the lemma for an action combines them. From it: types,
`StateIsBacked`, `AtomsFollowState`. They hold for all
values of `HasSim` and `AlwaysOnline`; of the always-online modems (a driver
without set_online) nothing else is checked.

The second half of the module goes on from there with what clients see.

* `NothingStartsInEmergency` is a property of each step and needs no invariant.
* `PoweredIsSignalled` is inductive with the types of what it relates; it needs
  `"ok" \notin ResetResults` (section 4).
* `UnregisteredIsClean`, from `IInv` and `Gone`: an unregistered modem is in
  POWER_OFF, with no command outstanding, no timer and no lock. `PowerFits` is
  what gets a modem to POWER_OFF whose driver was being asked for its power; the
  absence of commands is what keeps late callbacks from changing anything.
* `PendingWillBeAnswered` and `CallbacksAnswerTheirOwn`, from `IInv` and `Waits`,
  for `ResetResults = {}` and `HangupLosesCommands = FALSE` (section 4): the
  timer runs exactly when `powered_pending` differs from `powered`, which is
  when a request for Powered or Lockdown waits, and the driver has exactly the
  command a request for Online asked for. The first part is why
  `ofono_modem_set_powered`, which answers only when the two differ, never
  answers a request for Online.

**SmsTxProofs** (from `SmsTxAssumption`: the bounds are naturals and there is a
retry). `IInv` is `QueueInv` (types, and the three parts of `TxQueueRuns`, with
`NoQueue`: nothing is queued, submitted or timed while there is no atom) and
`StoreInv`, which relates queue, disk and what became of each message:

* the PDUs an entry still has, and the files of a directory, are intervals, and
  end with the message's last PDU once it was accepted (`EntryOK`, `DirOK`);
* what lies before them was confirmed, and until the second restoring nothing
  else was: the place where `restores` counts, see section 4. For a message that
  is torn only the order is kept, and that it has its outcome;
* queue and outbox have the same messages of clients in the same order
  (`SameOrder`, `OutboxIsQueue`), and a directory has the files from `FirstLeft`
  of its entry on; `MessagesAccountedFor` cannot be inductive without this,
  because what a restart finds is what the queue left.

A kill between two files has lemmas of its own: `KillKeepsStore` (one directory
is shortened or emptied, the queue is gone), `FreeKilled` (the outcome was told)
and `LastConfirmed` (the last file was unlinked, it was not).
From it: `TxQueueRuns`, `MessagesAccountedFor`, and `OutboxKept`, that each step
is a step of `SmsOutbox` or none (`TornStep` and `LeftInOutbox` for the kills).
The queue is cut into a head and a rest, a
cancelled message is taken out at its place (`At`, `RemoveAt`), and a restart
rebuilds the queue directory by directory, so the filters and the sorting that
the code does by loops appear as functions of positions.

**PppProofs** (from `PppCpAssumption`, with `MAX_TERMINATE >= 2`). The transition
table of ppp_cp.c is taken row by row (`Row`, `Rows`): for every event, state and
entry what actions and which new state it has. `LayerStep` says that every event
keeps one layer in order: no timers in a state that waits for nothing, and an
open layer has agreed options on both sides. `LinkFits` puts LCP, IPCP, the phase
and the network interface together, `CallInv` the driver's state with the
context's request, and `IInv == CallType /\ LinkInv /\ CallInv`. Events of LCP call
into IPCP and back in the middle of a step (This-Layer-Down takes IPCP down
before LCP has its new state); `Live` and `Moves` say what holds there. From it:
`LinkIsConsistent`, `OpenOnAgreement`, `ReportedOnce` and the action property
`NeverUpAfterShutdown`, for any limits.

**GprsProofs.** Attaching, without a condition: `Whole` is about the atom and
the requests at its attach driver: `Answerable` (ATTACHING means that an answer
is to come), `RecheckInTime` (RECHECK is only set while ATTACHING is), `Wanted`
(without RECHECK the last decision was followed) and `AtRest` (with no request
out, Attached is what driver and registration say). `registration_status_cb`
calls its helpers one after the other; between them only `Half`, without
`RecheckInTime`, holds. The order is what matters: that no request is out and
RECHECK still set is seen only in the middle. From it: `AttachmentAgrees`.

Contexts, under `Conditions` (finitely many drivers, a cid for each of them and
for each one that can get lost, and `RemovesActivating` FALSE, see section 4).
`ContextInv` is

* `Pairs`: a driver in use and the context it works for have each other, the
  same cid, and the same request (`Own`); the driver's state tells whether the
  context is up; a context without a driver is down and waits for nothing.
  `OwnDriverAndCid` alone is not inductive: an answer of the driver changes the
  context, so its state must be known there;
* `OwnCids`: drivers in use have cids of their own, and at most `MaxLeaks` are
  taken by nobody. With `Conditions`, by counting, one is free for every
  activation (`CidFree`), which is why gprs_cid_alloc never returns one more
  than the last;
* `AtomRequest`: exactly one driver works on a request of the atom, and no
  context waits for anything during DeactivateAll: so the next context that
  gprs_deactivate_next takes is not in the middle of something.

`Kept` is what all steps of attaching leave of this: release_active_contexts
only marks sessions that are to end. From it and `Whole`: `ContextsAgree` and the
action property `DeactivateAllMeansAll`, for any number of contexts, drivers,
cids, events and requests.

**SimFsProofs** (from `SimFsAssumption`: a block has more than one byte, the
transparent file at least a block, the linear file a record). `IInv` is

* `QueueOK`: requests are queued in the order of their numbers, none knows of a
  version that was not announced, and only the first is begun;
* `StepOK`: the idle source or the driver's call, never both, takes on the first
  operation, and fits it (`StepFits`): at a block of its file, with a buffer whose
  bytes are no older than what was announced when the request was made;
* `CacheOK` and `OpenOK`: the versions on disk lie between the announced one and
  the card's, and those of an open file that was removed from the disk between
  the operation's and the card's. So a block that is written into a removed file
  does no harm, and one that is read from it is new enough;
* `AnswerOK`: the card's answer is what it holds, or a change is still to be
  announced. `CacheTruth` is not inductive without this: a block that the card
  served before it changed is written after;
* `CacheTruth` and `ReadInPlace` themselves.

Two functions of the model are recursive: `Without`, what a loop leaves of a
queue, and `FromCache`, which copies the cached blocks one after another. What
they compute is proved once with the least-number principle (`WFMin` of
WellFoundedInduction, which takes a set and no operator): `WithoutKeeps`, what is
left keeps its order and loses just what was to go, and `FromCacheOK`. From `IInv`
and one lemma for each action: `OperationsAreServed`, `CacheTruth`, and
`FilesImplemented`, that each step is one of `SimFiles` or none. The callbacks
that a step runs may queue or free operations in the middle of it; `Reactions`
has them, and `ReactionFacts` what they leave of the queue.

**AtChatProofs** (from `AtChatAssumption`, which only gives the constants their
types). The invariant is `Inv == IInv /\ (slips = 0 => HalfDuplex)`: both halves
are kept by every step, the second by the steps that do not slip. `IInv` holds
whenever timers and prompts come:

* `QueueOK`: wakeups, then the commands of clients with ids that increase; every
  command sent is queued, or was destroyed once (`Counted`); what was cancelled
  has no callback any more (`Callable`);
* `WriterOK`: how much of the head is written, and who starts the writer. The
  watch is armed in the middle of a part; a head that was not begun has the watch
  or a timer; and there are as many timers as wakeups (`WithTimers`), since a
  source that goes off puts one wakeup for the command it finishes.
  `NoLostWakeup` is not inductive without this, since send_common arms the watch
  only for a queue that was empty and relies on everybody else to have done it;
* `Awaited`: a client's command that was written in full, or waits for its
  prompt, is with the modem or its answer is on the wire;
* `Hears`: whoever was called back has left the queue uncancelled.

`HalfDuplex` is the rest, for `slips = 0`:

* `HalfOK`: a suspended channel was begun nothing of, and between the parts of a
  prompted command the watch is armed only when its prompt came;
* `ModemOK`: what is in the line and on the wire, unasked prompts aside (`Rest`),
  is one part of the head, its prompt, or its answer, and the final response on
  the wire is the one in `answer`. This is where the command that is cancelled
  while it is out matters: at_chat_cancel leaves it at the head without a
  callback. A timer that goes off at its time finds a wakeup with nothing under
  way, so it keeps this;
* whoever was told was told the modem's answer, and heard its own lines.

A callback calls back into the queue while finish_command still holds its command,
so `ChatOK` has the ids that are held as a parameter: `Popped` takes the head out
and holds it, `Called` is what each call of a client and each reaction of a callback
keeps (`ReactionsCalled`), `Unheld` destroys it at the end. `Called` says at the
same time what the call is for `AtService` (`Then`, its `Call`), so that one lemma per
action gives the invariant and the step of the service, or a stutter. The
queue's own operations are filters: `Without` is unfolded as in SimFsProofs, and
`WithoutAppend`, `WithoutBefore` and `WaitingFilter` take it past an append, a
wakeup put in front, and the mapping to ids. From `Inv`: `ChannelInvariant`,
`EachHearsItsOwn`, and
`ServiceImplemented`, that every step is one of `AtService` or none. The last
has no condition on `slips`: the order is kept whenever timers go off.

Model-checked only:

* All liveness (`ENABLED` and fairness are beyond the prover), so
  `ResetModemReconnects`, `CallsReturn`, `EveryRequestAnswered`, `QueueDrains`,
  `EveryCommandLeaves`, `EveryCallEnds`, `EveryRequestEnds` and `Settles`.

## 7. What is left

* `__ofono_modem_shutdown` with two modems, and the atom registry with its watch
  lists: `ModemCore` would have to be an instance per modem.
* `ModemCore` and `SimRelay` composed, so that power changes meet calls in
  flight. They meet in one place only, the end of the port.
* SMS reception and assembly (`sms_assembly` of smsutil.c keeps fragments on
  disk much as the outbox does).
* Suspension in `Gprs` and the removal of its atom; IPv6CP and the server side of
  PPP; slaves and notification nodes of gatchat.
