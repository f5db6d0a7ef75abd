-------------------------------- MODULE SmsTx --------------------------------
(***************************************************************************)
(* The SMS transmit queue of ofono-wifi/src/sms.c with its backup on disk  *)
(* (smsutil.c).  tx_next hands the next PDU of the first message to the    *)
(* driver, tx_finished takes the driver's answer; submission, cancellation *)
(* and changes of the network registration come in between.  When the SMS  *)
(* atom goes (power off, SIM removed, ofonod killed) the queue goes too;   *)
(* when it is registered again the queue is read back from the disk.       *)
(***************************************************************************)
EXTENDS Integers, Sequences, FiniteSets, SequencesExt

CONSTANTS
    Messages,       \* all messages ever submitted
    Exposed,        \* those of D-Bus clients (flags EXPOSE_DBUS and RETRY);
                    \* the others come from the SIM toolkit with no flags
    MaxParts,       \* bound: PDUs of a message
    TXQ_MAX_RETRIES,
    MaxRemovals     \* bound: how often the atom goes

ASSUME SmsTxAssumption ==
    /\ Exposed \subseteq Messages
    /\ MaxParts \in Nat \ {0} /\ TXQ_MAX_RETRIES \in Nat \ {0}
    /\ MaxRemovals \in Nat

VARIABLES
    up,             \* is the SMS atom registered?
    registered,     \* sms->registered
    txq,            \* tx_queue_entry: msg, pdus (their file numbers), cur, retry
    active,         \* MESSAGE_MANAGER_FLAG_TXQ_ACTIVE: the driver has a PDU
    tx_source,      \* pending timeout: "none", "now" or "retry"
    disk,           \* backup directories with a file, in the order of their ids:
                    \* msg, files
    empty,          \* messages whose directory has no file (it stays for ever)
    removals,
    \* history
    size,           \* PDUs of each message submitted, else 0
    accepted,       \* messages whose submission returned
    confirmed,      \* PDUs the driver said were sent
    restores,       \* how often a message was read back
    outcome,        \* told: "none", "sent", "failed" or "cancelled"
    torn            \* messages with an outcome that kept files in their directory

queue == <<txq, active, tx_source>>
backup == <<disk, empty>>
history == <<size, accepted, confirmed, restores, outcome, torn>>
vars == <<up, registered, queue, backup, removals, history>>

Init ==
    /\ up = TRUE
    /\ registered \in BOOLEAN
    /\ txq = <<>> /\ active = FALSE /\ tx_source = "none"
    /\ disk = <<>> /\ empty = {}
    /\ removals = 0
    /\ size = [m \in Messages |-> 0]
    /\ accepted = {}
    /\ confirmed = [m \in Messages |-> {}]
    /\ restores = [m \in Messages |-> 0]
    /\ outcome = [m \in Messages |-> "none"]
    /\ torn = {}

Entry(m, pdus) == [msg |-> m, pdus |-> pdus, cur |-> 0, retry |-> 0]
Dir(m, files) == [msg |-> m, files |-> files]

\* Where message m is, in the queue or on disk.
At(s, m) == {i \in DOMAIN s : s[i].msg = m}
Without(s, m) == IF At(s, m) = {} THEN s ELSE RemoveAt(s, CHOOSE i \in At(s, m) : TRUE)

\* The files of message m.
FilesOf(m) == UNION {disk[i].files : i \in At(disk, m)}

\* The numbers of the files, in their order.
Up(files) ==
    [i \in 1 .. Cardinality(files) |->
        CHOOSE f \in files : Cardinality({g \in files : g < f}) = i - 1]

-----------------------------------------------------------------------------
(* Submission and cancellation.                                            *)

\* Only a queue that was empty needs to be started.
Started(queued) == IF registered /\ Len(queued) = 1 THEN "now" ELSE tx_source

txq_submit(m, n) ==
    /\ up /\ size[m] = 0
    /\ m \notin Exposed => n = 1
    /\ txq' = Append(txq, Entry(m, [i \in 1 .. n |-> i - 1]))
    /\ tx_source' = Started(txq')
    /\ disk' = IF m \in Exposed THEN Append(disk, Dir(m, 0 .. n - 1)) ELSE disk
    /\ size' = [size EXCEPT ![m] = n]
    /\ accepted' = accepted \cup {m}
    /\ UNCHANGED <<up, registered, active, empty, removals, confirmed, restores, outcome, torn>>

\* What the end of the atom or of ofonod leaves of the queue.
Gone ==
    /\ up /\ removals < MaxRemovals
    /\ removals' = removals + 1
    /\ up' = FALSE /\ registered' = FALSE
    /\ txq' = <<>> /\ active' = FALSE /\ tx_source' = "none"

\* ofonod is killed while txq_submit stores the PDUs one by one: the directory
\* has k of n, or it was only made.
txq_submit_killed(m, k, n) ==
    /\ size[m] = 0 /\ m \in Exposed
    /\ Gone
    /\ disk' = IF k = 0 THEN disk ELSE Append(disk, Dir(m, 0 .. k - 1))
    /\ empty' = IF k = 0 THEN empty \cup {m} ELSE empty
    /\ size' = [size EXCEPT ![m] = n]
    /\ UNCHANGED <<accepted, confirmed, restores, outcome, torn>>

\* sms_tx_queue_remove_entry, for the i-th entry.
remove_entry(i, state) ==
    LET m == txq[i].msg
    IN  /\ txq' = RemoveAt(txq, i)
        /\ disk' = IF m \in Exposed THEN Without(disk, m) ELSE disk
        /\ outcome' = [outcome EXCEPT ![m] = state]
        /\ UNCHANGED <<empty, torn>>

\* The directory of m is left with these files.
Leaves(m, files) ==
    /\ disk' = IF files = {} THEN Without(disk, m)
               ELSE [i \in DOMAIN disk |-> IF disk[i].msg = m THEN Dir(m, files) ELSE disk[i]]
    /\ empty' = IF files = {} THEN empty \cup {m} ELSE empty

\* ofonod is killed in sms_tx_backup_free, which unlinks the files from the
\* highest number down and then removes the directory: the outcome was told.
free_killed(m, state, files) ==
    /\ outcome' = [outcome EXCEPT ![m] = state]
    /\ \E left \in {{f \in files : f < x} : x \in 0 .. MaxParts} :
          /\ Leaves(m, left)
          /\ torn' = IF left = {} THEN torn ELSE torn \cup {m}

MayCancel(i) == i # 1 \/ (txq[i].cur = 0 /\ ~active)

AfterCancelWaits(i) ==
    IF i # 1 \/ Len(txq) > 1 THEN tx_source ELSE "none"

\* The timeout was for the head: the next message does not have to wait for it.
AfterCancel(i) ==
    IF i # 1 \/ tx_source = "none" THEN tx_source
    ELSE IF Len(txq) > 1 THEN "now" ELSE "none"

txq_cancel(m) ==
    /\ up /\ m \in Exposed
    /\ \E i \in At(txq, m) :
          /\ MayCancel(i)
          /\ tx_source' = AfterCancel(i)
          /\ remove_entry(i, "cancelled")
    /\ UNCHANGED <<up, registered, active, removals, size, accepted, confirmed, restores>>

txq_cancel_killed(m) ==
    /\ m \in Exposed
    /\ \E i \in At(txq, m) : MayCancel(i)
    /\ Gone
    /\ free_killed(m, "cancelled", FilesOf(m))
    /\ UNCHANGED <<size, accepted, confirmed, restores>>

-----------------------------------------------------------------------------
(* Transmission.                                                           *)

tx_next ==
    /\ tx_source # "none"
    /\ tx_source' = "none"
    /\ active' = (active \/ registered)
    /\ UNCHANGED <<up, registered, txq, backup, removals, history>>

\* The driver could not send, and the network is gone: netreg_status_watch
\* will start again.
KeepForLater ==
    /\ ~registered
    /\ UNCHANGED <<txq, tx_source, backup, outcome, torn>>

Retry ==
    LET entry == Head(txq)
    IN  /\ registered
        /\ entry.msg \in Exposed /\ entry.retry + 1 < TXQ_MAX_RETRIES
        /\ txq' = [txq EXCEPT ![1].retry = @ + 1]
        /\ tx_source' = "retry"
        /\ UNCHANGED <<backup, outcome, torn>>

FinishUnarmed(state) ==
    /\ remove_entry(1, state)
    /\ tx_source' = tx_source

\* next_q of tx_finished
Finish(state) ==
    /\ remove_entry(1, state)
    /\ tx_source' = IF registered /\ Len(txq) > 1 THEN "now" ELSE tx_source

GivesUp(error) ==
    /\ registered
    /\ \/ error = "rejected"    \* a CMS error that is no network timeout
       \/ Head(txq).msg \notin Exposed
       \/ Head(txq).retry + 1 >= TXQ_MAX_RETRIES

backup_removeKeeps(e) == disk

backup_removeNext(e) ==
    [i \in DOMAIN disk |->
        IF disk[i].msg = e.msg THEN [disk[i] EXCEPT !.files = @ \ {e.cur + 1}] ELSE disk[i]]

\* sms_tx_backup_remove: the file to go is named after cur_pdu.
backup_remove(e) ==
    [i \in DOMAIN disk |->
        IF disk[i].msg = e.msg THEN [disk[i] EXCEPT !.files = @ \ {e.cur}] ELSE disk[i]]

\* The network has the PDU at the head.
Confirm ==
    LET entry == Head(txq)
    IN  confirmed' = [confirmed EXCEPT ![entry.msg] = @ \cup {entry.pdus[entry.cur + 1]}]

IsLast(entry) == entry.cur + 1 = Len(entry.pdus)

SentAll == Confirm /\ Finish("sent")

Sent ==
    LET entry == Head(txq)
    IN  /\ Confirm
        /\ \/ /\ entry.cur + 1 < Len(entry.pdus)
              /\ txq' = [txq EXCEPT ![1].cur = @ + 1, ![1].retry = 0]
              /\ disk' = backup_remove(entry)
              /\ tx_source' = "now"
              /\ UNCHANGED <<empty, outcome, torn>>
           \/ IsLast(entry) /\ Finish("sent")

tx_finished ==
    /\ active /\ active' = FALSE
    /\ \/ Sent
       \/ /\ \/ KeepForLater \/ Retry
             \/ (\E error \in {"rejected", "timeout"} : GivesUp(error)) /\ Finish("failed")
          /\ UNCHANGED confirmed
    /\ UNCHANGED <<up, registered, removals, size, accepted, restores>>

\* ofonod is killed in tx_finished with the last PDU of the head: before its
\* outcome is told, when sms_tx_backup_remove is through, or after.  (A kill at
\* any other place leaves what sms_remove leaves before or after tx_finished.)
tx_finished_killed ==
    LET entry == Head(txq)
        files == FilesOf(entry.msg) \ {entry.cur}
    IN  /\ active /\ entry.msg \in Exposed
        /\ \/ /\ IsLast(entry) /\ Confirm
              /\ \/ Leaves(entry.msg, files) /\ UNCHANGED <<outcome, torn>>
                 \/ free_killed(entry.msg, "sent", files)
           \/ /\ \E error \in {"rejected", "timeout"} : GivesUp(error)
              /\ free_killed(entry.msg, "failed", FilesOf(entry.msg))
              /\ UNCHANGED confirmed
        /\ Gone
        /\ UNCHANGED <<size, accepted, restores>>

\* netreg_status_watch; also netreg_watch when the netreg atom comes or goes.
NeedsStartAnyway == tx_source = "none"

NeedsStart == tx_source = "none" /\ ~active

netreg_status_watch(status) ==
    /\ up
    /\ registered' = status
    /\ tx_source' = IF status /\ NeedsStart /\ txq # <<>> THEN "now" ELSE tx_source
    /\ UNCHANGED <<up, txq, active, backup, removals, history>>

-----------------------------------------------------------------------------
(* The atom goes and comes.                                                *)

sms_remove == Gone /\ UNCHANGED <<backup, history>>

restore_tx_queueBackwards ==
    [i \in DOMAIN disk |-> LET d == disk[Len(disk) + 1 - i] IN Entry(d.msg, Up(d.files))]

\* What is on disk, in the order of the directories; each message starts with
\* the first PDU it still has.
restore_tx_queue ==
    [i \in DOMAIN disk |-> Entry(disk[i].msg, Up(disk[i].files))]

ofono_sms_register(status) ==
    /\ ~up /\ up' = TRUE
    /\ registered' = status
    /\ txq' = restore_tx_queue
    /\ tx_source' = IF disk # <<>> THEN "now" ELSE "none"
    /\ restores' = [m \in Messages |->
                      IF At(disk, m) = {} THEN restores[m] ELSE restores[m] + 1]
    /\ UNCHANGED <<active, backup, removals, size, accepted, confirmed, outcome, torn>>

Next ==
    \/ \E m \in Messages :
          \/ \E n \in 1 .. MaxParts : txq_submit(m, n)
          \/ \E n \in 1 .. MaxParts : \E k \in 0 .. n : txq_submit_killed(m, k, n)
          \/ txq_cancel(m) \/ txq_cancel_killed(m)
    \/ tx_next
    \/ tx_finished \/ tx_finished_killed
    \/ \E status \in BOOLEAN : netreg_status_watch(status) \/ ofono_sms_register(status)
    \/ sms_remove

\* The main loop runs a timeout that is due and the driver answers.
Fairness == WF_vars(tx_next) /\ WF_vars(tx_finished)

Spec == Init /\ [][Next]_vars /\ Fairness

-----------------------------------------------------------------------------
(* Properties.                                                             *)

Entries == [msg : Messages, pdus : Seq(Nat), cur : Nat, retry : 0 .. TXQ_MAX_RETRIES - 1]
Dirs == [msg : Exposed, files : SUBSET Nat]

TypeOK ==
    /\ up \in BOOLEAN /\ registered \in BOOLEAN /\ active \in BOOLEAN
    /\ tx_source \in {"none", "now", "retry"}
    /\ txq \in Seq(Entries)
    /\ \A i \in DOMAIN txq : txq[i].cur < Len(txq[i].pdus)
    /\ disk \in Seq(Dirs) /\ empty \subseteq Exposed
    /\ removals \in 0 .. MaxRemovals
    /\ size \in [Messages -> 0 .. MaxParts]
    /\ accepted \subseteq Messages
    /\ confirmed \in [Messages -> SUBSET Nat]
    /\ restores \in [Messages -> Nat]
    /\ outcome \in [Messages -> {"none", "sent", "failed", "cancelled"}]
    /\ torn \subseteq Exposed

\* A queue with a network is never left without a timeout or an answer to come
\* that goes on with it: the start conditions of txq_submit, txq_cancel,
\* tx_finished, netreg_status_watch and sms_restore_tx_queue cover all cases.
QueueIsServed ==
    up /\ registered /\ txq # <<>> => active \/ tx_source # "none"

\* tx_next and tx_finished take the head of the queue for granted, and
\* tx_finished takes it for the entry that was submitted: there is one submit
\* or one timeout, and only for a queue that is not empty.
OneSubmitAtATime ==
    /\ active => tx_source = "none"
    /\ active \/ tx_source # "none" => txq # <<>>

\* The waiting time of a retry is that of the message that failed (the comment
\* in __ofono_sms_txq_cancel).
RetryIsOfHead == tx_source = "retry" => Head(txq).retry > 0

\* What was accepted from a client and has no outcome is on disk up to what is
\* confirmed: the backup outlives any end of ofonod, at any point of writing or
\* removing it, until a kill after the last confirmation (then the message was
\* sent and nobody hears of it).
UnsentIsOnDisk ==
    \A m \in accepted \cap Exposed : outcome[m] = "none" =>
        (0 .. size[m] - 1) \ confirmed[m] \subseteq FilesOf(m)

\* A directory without a file, which sms_tx_queue_load skips and leaves on disk
\* for ever, holds nothing back: its message was never accepted, has its
\* outcome, or was sent in full.
EmptyIsDone ==
    \A m \in empty \cap accepted :
        outcome[m] # "none" \/ confirmed[m] = 0 .. size[m] - 1

\* A message reported sent was confirmed in all its parts, across restarts; not
\* so one that was given up or cancelled, but kept some files because ofonod was
\* killed in sms_tx_backup_free: what is left of it is sent as if it were all.
SentMeansConfirmed ==
    \A m \in accepted :
        outcome[m] = "sent" /\ m \notin torn => confirmed[m] = 0 .. size[m] - 1

\* The PDU with the driver was not confirmed before, unless its message has been
\* read back twice: after the first time cur_pdu no longer is the number of the
\* file, so sms_tx_backup_remove leaves the file of what it has sent.
NothingSentAgain ==
    active => LET e == Head(txq)
              IN  e.pdus[e.cur + 1] \in confirmed[e.msg] => restores[e.msg] > 1

\* The queue runs: the conditions under which its timeout is armed neither leave
\* it standing, nor submit twice, nor make a message wait for another's retry.
TxQueueRuns == TypeOK /\ QueueIsServed /\ OneSubmitAtATime /\ RetryIsOfHead

\* A client's message is never lost, reported sent without having been, or sent
\* twice, however ofonod ends and starts again (txq_submit, tx_finished,
\* sms_tx_backup_free, sms_restore_tx_queue).
MessagesAccountedFor ==
    UnsentIsOnDisk /\ EmptyIsDone /\ SentMeansConfirmed /\ NothingSentAgain

\* The outbox of the clients' messages keeps its order and its content whatever
\* becomes of the queue in memory; what a kill may do is in SmsOutbox.
Outbox == INSTANCE SmsOutbox WITH
    Messages <- Exposed,
    outbox <- [i \in DOMAIN disk |-> disk[i].msg],
    outcome <- [m \in Exposed |-> outcome[m]],
    entered <- {m \in Exposed : size[m] > 0},
    ends <- removals

ImplementsOutbox == Outbox!Spec

\* With the atom and the network there to stay, every message gets its outcome
\* in the end: sent, or failed after its retries.
QueueDrains == <>[](up /\ registered) => <>[](txq = <<>>)

\* "It's not possible to cancel messages that already had some parts sent"
\* (doc/message-api.txt:17).
PartlySentStays == \A m \in Messages : outcome[m] = "cancelled" => confirmed[m] = {}
==============================================================================
