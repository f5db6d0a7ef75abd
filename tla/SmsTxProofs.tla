----------------------------- MODULE SmsTxProofs -----------------------------
(***************************************************************************)
(* Theorems about SmsTx: the transmit queue always runs, a client's        *)
(* message is neither lost nor sent twice nor reported falsely, and the    *)
(* backup on disk is an outbox (SmsOutbox), for any number of messages and *)
(* PDUs, any limit of retries and any number of restarts.                  *)
(***************************************************************************)
EXTENDS SmsTx, FiniteSetTheorems, SequenceTheorems, TLAPS

-----------------------------------------------------------------------------
(* Operators on sequences and sets of file numbers.                        *)

\* Without its i-th element, an element of s is one place earlier if it came
\* after it.
Old(i, j) == IF j < i THEN j ELSE j + 1
New(i, k) == IF k < i THEN k ELSE k - 1

\* t is s without its i-th element.
Removed(s, i, t) ==
    /\ Len(t) = Len(s) - 1
    /\ \A j \in 1 .. Len(t) : /\ Old(i, j) \in 1 .. Len(s) \ {i}
                              /\ t[j] = s[Old(i, j)]
    /\ \A k \in 1 .. Len(s) : k # i => /\ New(i, k) \in 1 .. Len(t)
                                       /\ t[New(i, k)] = s[k]
    /\ \A j, k \in 1 .. Len(t) : j < k <=> Old(i, j) < Old(i, k)

\* g_queue_delete_link takes one element out and keeps the order of the others.
LEMMA RemoveAtRemoves ==
    ASSUME NEW S, NEW s \in Seq(S), NEW i \in 1 .. Len(s)
    PROVE  RemoveAt(s, i) \in Seq(S) /\ Removed(s, i, RemoveAt(s, i))
<1> DEFINE n == Len(s)
           front == SubSeq(s, 1, i - 1)
           back == SubSeq(s, i + 1, n)
           t == RemoveAt(s, i)
<1>1. n \in Nat /\ i \in Nat /\ 1 <= i /\ i <= n
    OBVIOUS
<1>2. /\ front \in Seq(S) /\ Len(front) = i - 1
      /\ \A j \in 1 .. i - 1 : front[j] = s[j]
    OBVIOUS
<1>3. /\ back \in Seq(S) /\ Len(back) = n - i
      /\ \A j \in 1 .. n - i : back[j] = s[j + i]
    OBVIOUS
<1>4. t = front \o back
    BY DEF RemoveAt
<1> HIDE DEF n, front, back, t
<1>5. /\ t \in Seq(S) /\ Len(t) = Len(front) + Len(back)
      /\ \A j \in 1 .. Len(front) + Len(back) :
            t[j] = IF j <= Len(front) THEN front[j] ELSE back[j - Len(front)]
    BY <1>2, <1>3, <1>4, ConcatProperties, Zenon
<1>6. Len(t) = n - 1
    BY <1>1, <1>2, <1>3, <1>5
<1>7. \A j \in 1 .. n - 1 : t[j] = IF j < i THEN s[j] ELSE s[j + 1]
    <2> SUFFICES ASSUME NEW j \in 1 .. n - 1
                 PROVE  t[j] = IF j < i THEN s[j] ELSE s[j + 1]
        OBVIOUS
    <2>1. CASE j < i
        BY <2>1, <1>1, <1>2, <1>3, <1>5
    <2>2. CASE j >= i
        <3>1. j - Len(front) \in 1 .. n - i /\ j - Len(front) + i = j + 1
            BY <2>2, <1>1, <1>2
        <3> QED
            BY <3>1, <2>2, <1>1, <1>2, <1>3, <1>5
    <2> QED
        BY <2>1, <2>2, <1>1
<1>8. ASSUME NEW j \in 1 .. Len(t)
      PROVE  Old(i, j) \in 1 .. n \ {i} /\ t[j] = s[Old(i, j)]
    BY <1>1, <1>6, <1>7 DEF Old
<1>9. ASSUME NEW k \in 1 .. n, k # i
      PROVE  New(i, k) \in 1 .. Len(t) /\ t[New(i, k)] = s[k]
    <2>1. CASE k < i
        BY <2>1, <1>1, <1>6, <1>7 DEF New
    <2>2. CASE k > i
        <3>1. k - 1 \in 1 .. n - 1 /\ ~(k - 1 < i) /\ k - 1 + 1 = k /\ New(i, k) = k - 1
            BY <2>2, <1>1 DEF New
        <3> QED
            BY <3>1, <1>6, <1>7
    <2> QED
        BY <2>1, <2>2, <1>1, <1>9
<1>10. \A j, k \in 1 .. Len(t) : j < k <=> Old(i, j) < Old(i, k)
    BY <1>1, <1>6 DEF Old
<1> QED
    BY <1>5, <1>6, <1>8, <1>9, <1>10 DEF Removed, n, t

\* A message is there once.
Distinct(s) == \A i, j \in DOMAIN s : s[i].msg = s[j].msg => i = j

\* Removing a message is removing it from the place where it is.
LEMMA WithoutRemoves ==
    ASSUME NEW S, NEW s \in Seq(S), Distinct(s), NEW i \in 1 .. Len(s)
    PROVE  Without(s, s[i].msg) \in Seq(S) /\ Removed(s, i, Without(s, s[i].msg))
<1>1. At(s, s[i].msg) = {i}
    BY DEF At, Distinct
<1>2. Without(s, s[i].msg) = RemoveAt(s, i)
    BY <1>1 DEF Without
<1> QED
    BY <1>2, RemoveAtRemoves

\* The files of an interval, in their order.
LEMMA UpOfInterval ==
    ASSUME NEW first \in Nat, NEW last \in Nat, first <= last
    PROVE  Up(first .. last) = [j \in 1 .. last - first + 1 |-> first + j - 1]
<1> DEFINE files == first .. last
           Place(j, f) == Cardinality({g \in files : g < f}) = j - 1
<1>1. Cardinality(files) = last - first + 1
    BY FS_Interval
<1>2. ASSUME NEW j \in 1 .. last - first + 1
      PROVE  (CHOOSE f \in files : Place(j, f)) = first + j - 1
    <2>1. ASSUME NEW f \in files
          PROVE  Cardinality({g \in files : g < f}) = f - first
        <3>1. {g \in files : g < f} = first .. f - 1
            OBVIOUS
        <3>2. Cardinality(first .. f - 1) = f - first
            <4>1. first \in Int /\ f - 1 \in Int /\ (first > f - 1 <=> f = first)
                OBVIOUS
            <4>2. Cardinality(first .. (f - 1)) = IF first > f - 1 THEN 0 ELSE (f - 1) - first + 1
                BY <4>1, FS_Interval, Zenon
            <4> QED
                BY <4>1, <4>2
        <3> QED
            BY <3>1, <3>2
    <2>2. \A f \in files : Place(j, f) <=> f = first + j - 1
        BY <2>1
    <2>3. first + j - 1 \in files
        OBVIOUS
    <2> HIDE DEF Place, files
    <2> QED
        BY <2>2, <2>3
<1> QED
    BY <1>1, <1>2 DEF Up

-----------------------------------------------------------------------------
(* The inductive invariant.                                                *)

\* Two directories of the outbox are in the order of their entries in the queue.
SameOrder ==
    \A i, j \in DOMAIN disk : \A p, q \in DOMAIN txq :
        txq[p].msg = disk[i].msg /\ txq[q].msg = disk[j].msg => (i < j <=> p < q)

\* The files that an entry has left of its message.
FirstLeft(e) == IF e.cur > e.pdus[1] THEN e.cur ELSE e.pdus[1]
Final(e) == e.pdus[Len(e.pdus)]

\* While the atom is there, the outbox is what the queue has of clients.
OutboxIsQueue ==
    /\ \A p \in DOMAIN txq : txq[p].msg \in Exposed =>
          \E i \in DOMAIN disk : /\ disk[i].msg = txq[p].msg
                                 /\ disk[i].files = FirstLeft(txq[p]) .. Final(txq[p])
    /\ up = TRUE => \A i \in DOMAIN disk : \E p \in DOMAIN txq : txq[p].msg = disk[i].msg

Yes(fact) == IF fact THEN "yes" ELSE "no"

\* What is known of a message apart from queue and disk.
Known(m) ==
    [size |-> size[m], accepted |-> Yes(m \in accepted), confirmed |-> confirmed[m],
     restores |-> restores[m], outcome |-> outcome[m],
     torn |-> Yes(m \in torn), empty |-> Yes(m \in empty)]

\* The PDUs from first to last are those left of a message.
Rest(known, first, last) ==
    /\ first <= last /\ last < known.size
    /\ known.accepted = "yes" /\ known.torn = "no" => last = known.size - 1
    /\ 0 .. first - 1 \subseteq known.confirmed
    /\ known.outcome = "none" \/ known.torn = "yes"

\* The PDUs of an entry are consecutive; those before the next one were
\* confirmed, and it was not, unless the message was read back twice.
EntryOK(e, known) ==
    /\ \A j \in 1 .. Len(e.pdus) : e.pdus[j] = e.pdus[1] + j - 1
    /\ Rest(known, e.pdus[e.cur + 1], Final(e))
    /\ known.restores = 0 => e.pdus[1] = 0
    /\ known.restores <= 1 => known.confirmed = 0 .. e.pdus[e.cur + 1] - 1

\* So are the files of a directory; before it is read back for the first time
\* just the PDUs before them were confirmed.
DirOK(d, known, there) ==
    \E first, last \in Nat :
        /\ d.files = first .. last
        /\ Rest(known, first, last)
        /\ there = FALSE /\ known.restores = 0 => known.confirmed = 0 .. first - 1

\* Only what was submitted has a fate, and only what was confirmed was sent.
MessageOK(known) ==
    /\ known.confirmed \subseteq 0 .. known.size - 1
    /\ known.size = 0 => /\ known.accepted = "no" /\ known.torn = "no" /\ known.empty = "no"
                         /\ known.restores = 0 /\ known.outcome = "none"
    /\ known.accepted = "yes" /\ known.outcome = "sent" /\ known.torn = "no" =>
          known.confirmed = 0 .. known.size - 1
    /\ known.torn = "yes" => known.outcome # "none"
    /\ known.empty = "yes" /\ known.accepted = "yes" /\ known.outcome = "none" =>
          known.confirmed = 0 .. known.size - 1

\* What was accepted from a client and has no outcome is in the outbox, or was
\* sent in full.
Stored ==
    \A m \in accepted \cap Exposed : outcome[m] = "none" =>
        (\E i \in DOMAIN disk : disk[i].msg = m) \/ confirmed[m] = 0 .. size[m] - 1

\* Without the atom there is no queue.
NoQueue == up = FALSE => txq = <<>> /\ active = FALSE /\ tx_source = "none" /\ registered = FALSE

QueueInv == TypeOK /\ QueueIsServed /\ OneSubmitAtATime /\ RetryIsOfHead /\ NoQueue

EntriesOK == \A p \in DOMAIN txq : EntryOK(txq[p], Known(txq[p].msg))
DirsOK == \A i \in DOMAIN disk : DirOK(disk[i], Known(disk[i].msg), up)

StoreInv ==
    /\ Distinct(txq) /\ Distinct(disk) /\ SameOrder /\ OutboxIsQueue
    /\ EntriesOK /\ DirsOK /\ Stored
    /\ \A m \in Messages : MessageOK(Known(m))

IInv == QueueInv /\ StoreInv

LEMMA Initially == Init => IInv
<1> SUFFICES ASSUME Init PROVE IInv
    OBVIOUS
<1>1. TypeOK
    <2>1. txq \in Seq(Entries) /\ disk \in Seq(Dirs)
        BY DEF Init
    <2>2. 0 \in 0 .. MaxParts /\ 0 \in 0 .. MaxRemovals
        BY SmsTxAssumption
    <2>3. \A i \in DOMAIN txq : FALSE
        BY DEF Init
    <2>4. confirmed \in [Messages -> SUBSET Nat]
        BY DEF Init
    <2> QED
        BY <2>1, <2>2, <2>3, <2>4 DEF Init, TypeOK
<1>2. QueueInv
    BY <1>1 DEF QueueInv, Init, QueueIsServed, OneSubmitAtATime, RetryIsOfHead, NoQueue
<1>3. ASSUME NEW m \in Messages PROVE MessageOK(Known(m))
    BY DEF Init, MessageOK, Known, Yes
<1> QED
    BY <1>2, <1>3 DEF Init, IInv, StoreInv, Distinct, SameOrder, OutboxIsQueue, EntriesOK, DirsOK,
                      Stored

\* The entry that goes is the only one of its message, and so is its directory.
LEMMA RemoveEntry ==
    ASSUME IInv, NEW p \in DOMAIN txq, NEW state, remove_entry(p, state)
    PROVE  /\ txq' \in Seq(Entries) /\ Removed(txq, p, txq')
           /\ \/ /\ txq[p].msg \notin Exposed /\ disk' = disk
              \/ \E i \in DOMAIN disk : /\ disk[i].msg = txq[p].msg
                                        /\ disk' \in Seq(Dirs) /\ Removed(disk, i, disk')
           /\ outcome' = [outcome EXCEPT ![txq[p].msg] = state]
           /\ UNCHANGED <<empty, torn>>
<1>1. txq \in Seq(Entries) /\ disk \in Seq(Dirs) /\ p \in 1 .. Len(txq)
    BY DEF IInv, QueueInv, TypeOK
<1>2. txq' \in Seq(Entries) /\ Removed(txq, p, txq')
    BY <1>1, RemoveAtRemoves DEF remove_entry
<1>3. CASE txq[p].msg \notin Exposed
    BY <1>2, <1>3 DEF remove_entry
<1>4. CASE txq[p].msg \in Exposed
    <2>1. PICK i \in DOMAIN disk : disk[i].msg = txq[p].msg
        BY <1>4 DEF IInv, StoreInv, OutboxIsQueue
    <2>2. i \in 1 .. Len(disk) /\ Distinct(disk)
        BY <1>1 DEF IInv, StoreInv
    <2>3. disk' = Without(disk, disk[i].msg)
        BY <1>4, <2>1 DEF remove_entry
    <2>4. disk' \in Seq(Dirs) /\ Removed(disk, i, disk')
        BY <1>1, <2>2, <2>3, WithoutRemoves
    <2> QED
        BY <1>2, <2>1, <2>4 DEF remove_entry
<1> QED
    BY <1>3, <1>4

\* t is s without the entries of a message: where[j] is the place of t[j] in s.
Shrunk(s, gone, t, where) ==
    /\ where \in [DOMAIN t -> DOMAIN s]
    /\ \A j, k \in DOMAIN t : j < k <=> where[j] < where[k]
    /\ \A j \in DOMAIN t : t[j] = s[where[j]] /\ t[j].msg # gone
    /\ \A i \in DOMAIN s : s[i].msg # gone => \E j \in DOMAIN t : where[j] = i

LEMMA RemovedShrinks ==
    ASSUME NEW S, NEW s \in Seq(S), NEW t \in Seq(S), Distinct(s),
           NEW i \in DOMAIN s, Removed(s, i, t)
    PROVE  \E where : Shrunk(s, s[i].msg, t, where)
<1> DEFINE where == [j \in DOMAIN t |-> Old(i, j)]
<1>1. DOMAIN s = 1 .. Len(s) /\ DOMAIN t = 1 .. Len(t)
    OBVIOUS
<1>2. where \in [DOMAIN t -> DOMAIN s]
    BY <1>1 DEF Removed
<1>3. \A j, k \in DOMAIN t : j < k <=> where[j] < where[k]
    BY <1>1 DEF Removed
<1>4. \A j \in DOMAIN t : t[j] = s[where[j]] /\ t[j].msg # s[i].msg
    BY <1>1 DEF Removed, Distinct
<1>5. ASSUME NEW k \in DOMAIN s, s[k].msg # s[i].msg
      PROVE  \E j \in DOMAIN t : where[j] = k
    <2>1. New(i, k) \in DOMAIN t
        BY <1>1, <1>5 DEF Removed
    <2>2. k # i /\ i \in Int /\ k \in Int
        BY <1>5
    <2>3. Old(i, New(i, k)) = k
        BY <2>2 DEF Old, New
    <2> QED
        BY <2>1, <2>3
<1> HIDE DEF where
<1> QED
    BY <1>2, <1>3, <1>4, <1>5 DEF Shrunk

LEMMA SameShrinks ==
    ASSUME NEW S, NEW s \in Seq(S), NEW gone, \A i \in DOMAIN s : s[i].msg # gone
    PROVE  \E where : Shrunk(s, gone, s, where)
<1> DEFINE where == [j \in DOMAIN s |-> j]
<1>1. Shrunk(s, gone, s, where)
    BY DEF Shrunk
<1> QED
    BY <1>1

LEMMA ShrunkDistinct ==
    ASSUME NEW S, NEW s \in Seq(S), NEW t \in Seq(S), NEW gone, NEW where,
           Shrunk(s, gone, t, where), Distinct(s)
    PROVE  Distinct(t)
<1> SUFFICES ASSUME NEW j \in DOMAIN t, NEW k \in DOMAIN t, t[j].msg = t[k].msg
             PROVE  j = k
    BY DEF Distinct
<1>1. where[j] = where[k]
    BY DEF Shrunk, Distinct
<1>2. where[j] \in Nat /\ j \in Nat /\ k \in Nat
    BY DEF Shrunk
<1>3. ~(j < k) /\ ~(k < j)
    BY <1>1, <1>2 DEF Shrunk
<1> QED
    BY <1>2, <1>3

\* When an entry goes with its directory, the others stay as they were.
LEMMA RemoveKeepsStore ==
    ASSUME IInv, TypeOK',
           NEW p \in DOMAIN txq, NEW gone \in Messages, gone = txq[p].msg,
           NEW state, state # "none", remove_entry(p, state),
           UNCHANGED <<up, size, accepted, restores>>,
           \A m \in Messages \ {gone} : confirmed'[m] = confirmed[m],
           MessageOK(Known(gone)')
    PROVE  StoreInv'
<1>1. /\ txq \in Seq(Entries) /\ disk \in Seq(Dirs)
      /\ Distinct(txq) /\ Distinct(disk) /\ SameOrder /\ OutboxIsQueue
      /\ outcome \in [Messages -> {"none", "sent", "failed", "cancelled"}]
    BY DEF IInv, QueueInv, StoreInv, TypeOK
<1>2. /\ txq' \in Seq(Entries) /\ Removed(txq, p, txq')
      /\ \/ gone \notin Exposed /\ disk' = disk
         \/ \E i \in DOMAIN disk : /\ disk[i].msg = gone
                                   /\ disk' \in Seq(Dirs) /\ Removed(disk, i, disk')
      /\ outcome' = [outcome EXCEPT ![gone] = state]
    BY RemoveEntry, Zenon
<1>types. /\ \A q \in DOMAIN txq : txq[q].msg \in Messages
      /\ \A i \in DOMAIN disk : disk[i].msg \in Exposed /\ disk[i].msg \in Messages
    <2>1. \A q \in DOMAIN txq : txq[q] \in Entries
        BY <1>1
    <2>2. \A i \in DOMAIN disk : disk[i] \in Dirs
        BY <1>1
    <2> QED
        BY <2>1, <2>2, SmsTxAssumption DEF Entries, Dirs
<1>3. PICK qwas : Shrunk(txq, gone, txq', qwas)
    BY <1>1, <1>2, RemovedShrinks
<1>4. PICK dwas : Shrunk(disk, gone, disk', dwas)
    <2>1. CASE gone \notin Exposed /\ disk' = disk
        <3>1. \A i \in DOMAIN disk : disk[i].msg # gone
            BY <1>types, <2>1
        <3> QED
            BY <1>1, <2>1, <3>1, SameShrinks
    <2>2. CASE \E i \in DOMAIN disk : /\ disk[i].msg = gone
                                      /\ disk' \in Seq(Dirs) /\ Removed(disk, i, disk')
        BY <1>1, <2>2, RemovedShrinks
    <2> QED
        BY <1>2, <2>1, <2>2
<1>5. \A m \in Messages \ {gone} : Known(m)' = Known(m)
    BY <1>1, <1>2 DEF Known, Yes, remove_entry
<1>6. \A q \in DOMAIN txq' : txq'[q].msg \in Messages \ {gone}
    BY <1>types, <1>3 DEF Shrunk
<1>7. \A i \in DOMAIN disk' : disk'[i].msg \in Messages \ {gone}
    BY <1>types, <1>4 DEF Shrunk
<1>8. Distinct(txq') /\ Distinct(disk')
    BY <1>1, <1>2, <1>3, <1>4, ShrunkDistinct
<1>9. SameOrder'
    BY <1>1, <1>3, <1>4 DEF Shrunk, SameOrder
<1>10. OutboxIsQueue'
    <2>1. ASSUME NEW q \in DOMAIN txq', txq'[q].msg \in Exposed
          PROVE  \E i \in DOMAIN disk' :
                    /\ disk'[i].msg = txq'[q].msg
                    /\ disk'[i].files = FirstLeft(txq'[q]) .. Final(txq'[q])
        BY <1>1, <1>3, <1>4, <2>1 DEF Shrunk, OutboxIsQueue
    <2>2. ASSUME up = TRUE, NEW i \in DOMAIN disk'
          PROVE  \E q \in DOMAIN txq' : txq'[q].msg = disk'[i].msg
        BY <1>1, <1>3, <1>4, <2>2 DEF Shrunk, OutboxIsQueue
    <2> QED
        BY <2>1, <2>2 DEF OutboxIsQueue
<1>11. EntriesOK'
    BY <1>3, <1>5, <1>6 DEF Shrunk, IInv, StoreInv, EntriesOK
<1>12. DirsOK'
    BY <1>4, <1>5, <1>7 DEF Shrunk, IInv, StoreInv, DirsOK
<1>13. Stored'
    <2> SUFFICES ASSUME NEW m \in accepted \cap Exposed, outcome'[m] = "none"
                 PROVE  (\E i \in DOMAIN disk' : disk'[i].msg = m) \/ confirmed'[m] = 0 .. size[m] - 1
        BY DEF Stored
    <2>1. m # gone /\ outcome[m] = "none" /\ m \in Messages
        BY <1>1, <1>2, SmsTxAssumption
    <2>2. confirmed'[m] = confirmed[m]
        BY <2>1
    <2> QED
        BY <2>1, <2>2, <1>4 DEF Shrunk, IInv, StoreInv, Stored
<1>14. \A m \in Messages : MessageOK(Known(m))'
    BY <1>5 DEF IInv, StoreInv
<1> QED
    BY <1>8, <1>9, <1>10, <1>11, <1>12, <1>13, <1>14 DEF StoreInv

\* Members of queue and outbox, and Append, as the steps below use them.
LEMMA Members ==
    ASSUME TypeOK
    PROVE  /\ DOMAIN txq = 1 .. Len(txq) /\ Len(txq) \in Nat
           /\ DOMAIN disk = 1 .. Len(disk) /\ Len(disk) \in Nat
           /\ \A q \in DOMAIN txq : txq[q] \in Entries /\ txq[q].msg \in Messages
           /\ \A i \in DOMAIN disk :
                 disk[i] \in Dirs /\ disk[i].msg \in Exposed /\ disk[i].msg \in Messages
<1>1. txq \in Seq(Entries) /\ disk \in Seq(Dirs)
    BY DEF TypeOK
<1>2. \A q \in DOMAIN txq : txq[q] \in Entries
    BY <1>1
<1>3. \A i \in DOMAIN disk : disk[i] \in Dirs
    BY <1>1
<1>4. \A q \in DOMAIN txq : txq[q].msg \in Messages
    BY <1>2 DEF Entries
<1>5. \A i \in DOMAIN disk : disk[i].msg \in Exposed /\ disk[i].msg \in Messages
    BY <1>3, SmsTxAssumption DEF Dirs
<1> QED
    BY <1>1, <1>2, <1>3, <1>4, <1>5

LEMMA Appended ==
    ASSUME NEW S, NEW s \in Seq(S), NEW e \in S
    PROVE  /\ Append(s, e) \in Seq(S) /\ Len(Append(s, e)) = Len(s) + 1
           /\ DOMAIN Append(s, e) = DOMAIN s \cup {Len(s) + 1}
           /\ \A i \in DOMAIN s : Append(s, e)[i] = s[i] /\ i < Len(s) + 1 /\ i \in Int
           /\ Append(s, e)[Len(s) + 1] = e
    OBVIOUS

LEMMA SameStore ==
    ASSUME IInv, UNCHANGED <<up, txq, backup, history>>
    PROVE  StoreInv'
<1>1. \A m : Known(m)' = Known(m)
    BY DEF Known, Yes, history, backup
<1> QED
    BY <1>1 DEF backup, history, IInv, StoreInv, SameOrder, OutboxIsQueue, EntriesOK, DirsOK, Stored

\* A message that was never submitted is nowhere.
LEMMA Unsubmitted ==
    ASSUME IInv, NEW m \in Messages, size[m] = 0
    PROVE  /\ \A q \in DOMAIN txq : txq[q].msg # m
           /\ \A i \in DOMAIN disk : disk[i].msg # m
           /\ m \notin accepted /\ confirmed[m] = {} /\ restores[m] = 0 /\ outcome[m] = "none"
           /\ m \notin torn /\ m \notin empty
<1>1. TypeOK
    BY DEF IInv, QueueInv
<1>2. ASSUME NEW q \in DOMAIN txq PROVE txq[q].msg # m
    <2>1. Rest(Known(txq[q].msg), txq[q].pdus[txq[q].cur + 1], Final(txq[q]))
        BY DEF IInv, StoreInv, EntriesOK, EntryOK
    <2>2. /\ txq[q].pdus \in Seq(Nat) /\ txq[q].cur \in Nat
          /\ txq[q].cur < Len(txq[q].pdus)
        BY <1>1, Members DEF TypeOK, Entries
    <2>3. Final(txq[q]) \in Nat
        BY <2>2 DEF Final
    <2> QED
        BY <2>1, <2>3 DEF Rest, Known, Yes
<1>3. ASSUME NEW i \in DOMAIN disk PROVE disk[i].msg # m
    <2>1. PICK first \in Nat, last \in Nat : Rest(Known(disk[i].msg), first, last)
        BY DEF IInv, StoreInv, DirsOK, DirOK
    <2> QED
        BY <2>1 DEF Rest, Known, Yes
<1>4. MessageOK(Known(m)) /\ confirmed[m] \in SUBSET Nat
    BY <1>1 DEF IInv, StoreInv, TypeOK
<1>5. /\ confirmed[m] \subseteq 0 .. 0 - 1 /\ m \notin accepted /\ restores[m] = 0
      /\ outcome[m] = "none" /\ m \notin torn /\ m \notin empty
    BY <1>4 DEF MessageOK, Known, Yes
<1>6. confirmed[m] = {}
    BY <1>5
<1> QED
    BY <1>2, <1>3, <1>5, <1>6

\* The invariant of an entry and of a message in terms of the variables.
LEMMA KnownEntry ==
    ASSUME NEW e, NEW m, EntryOK(e, Known(m))
    PROVE  /\ \A j \in 1 .. Len(e.pdus) : e.pdus[j] = e.pdus[1] + j - 1
           /\ e.pdus[e.cur + 1] <= Final(e) /\ Final(e) < size[m]
           /\ m \in accepted /\ m \notin torn => Final(e) = size[m] - 1
           /\ 0 .. e.pdus[e.cur + 1] - 1 \subseteq confirmed[m]
           /\ outcome[m] = "none" \/ m \in torn
           /\ restores[m] = 0 => e.pdus[1] = 0
           /\ restores[m] <= 1 => confirmed[m] = 0 .. e.pdus[e.cur + 1] - 1
<1>1. /\ Known(m).accepted = "yes" <=> m \in accepted
      /\ Known(m).torn = "yes" <=> m \in torn
      /\ Known(m).torn = "no" <=> m \notin torn
    BY DEF Known, Yes
<1>2. /\ Known(m).size = size[m] /\ Known(m).confirmed = confirmed[m]
      /\ Known(m).restores = restores[m] /\ Known(m).outcome = outcome[m]
    BY DEF Known, Yes
<1> QED
    BY <1>1, <1>2 DEF EntryOK, Rest

-----------------------------------------------------------------------------
(* Submission and cancellation.                                            *)

\* A message of n PDUs before any was sent.
LEMMA NewEntry ==
    ASSUME NEW m \in Messages, NEW n \in 1 .. MaxParts, NEW e,
           e = Entry(m, [i \in 1 .. n |-> i - 1])
    PROVE  /\ e \in Entries /\ e.msg = m /\ e.cur = 0 /\ e.retry = 0
           /\ Len(e.pdus) = n /\ e.pdus[1] = 0 /\ Final(e) = n - 1 /\ FirstLeft(e) = 0
           /\ \A j \in 1 .. n : e.pdus[j] = j - 1
<1>1. n \in Nat /\ 1 <= n /\ 0 \in 0 .. TXQ_MAX_RETRIES - 1
    BY SmsTxAssumption
<1>2. [i \in 1 .. n |-> i - 1] \in Seq(Nat)
    BY <1>1
<1>3. e = [msg |-> m, pdus |-> [i \in 1 .. n |-> i - 1], cur |-> 0, retry |-> 0]
    BY DEF Entry
<1>4. e \in Entries /\ e.msg = m /\ e.cur = 0 /\ e.retry = 0 /\ e.pdus = [i \in 1 .. n |-> i - 1]
    BY <1>1, <1>2, <1>3 DEF Entries
<1>5. Len(e.pdus) = n /\ \A j \in 1 .. n : e.pdus[j] = j - 1
    BY <1>1, <1>4
<1> QED
    BY <1>1, <1>4, <1>5 DEF Final, FirstLeft

LEMMA SubmitQueue ==
    ASSUME IInv, NEW m \in Messages, NEW n \in 1 .. MaxParts, txq_submit(m, n)
    PROVE  QueueInv'
<1> DEFINE e == Entry(m, [i \in 1 .. n |-> i - 1])
           d == Dir(m, 0 .. n - 1)
<1>1. TypeOK
    BY DEF IInv, QueueInv
<1>2. e \in Entries /\ Len(e.pdus) = n /\ e.cur = 0
    BY NewEntry
<1> HIDE DEF e
<1>3. txq' = Append(txq, e) /\ txq' \in Seq(Entries) /\ txq' # <<>>
    BY <1>1, <1>2 DEF txq_submit, TypeOK, e
<1>4. /\ \A i \in DOMAIN txq : i \in DOMAIN txq' /\ txq'[i] = txq[i]
      /\ \A i \in DOMAIN txq' : i \in DOMAIN txq \/ txq'[i] = e
    BY <1>1, <1>2, <1>3 DEF TypeOK
<1>5. disk' \in Seq(Dirs)
    <2>1. m \in Exposed => d \in Dirs
        BY DEF Dir, Dirs
    <2> HIDE DEF d
    <2>2. disk' = IF m \in Exposed THEN Append(disk, d) ELSE disk
        BY DEF txq_submit, d
    <2> QED
        BY <1>1, <2>1, <2>2 DEF TypeOK
<1>6. TypeOK'
    <2>1. size' \in [Messages -> 0 .. MaxParts]
        BY <1>1, SmsTxAssumption DEF txq_submit, TypeOK
    <2>2. \A i \in DOMAIN txq' : txq'[i].cur < Len(txq'[i].pdus)
        BY <1>1, <1>2, <1>4, SmsTxAssumption DEF TypeOK
    <2>3. tx_source' \in {"none", "now", "retry"}
        BY <1>1 DEF txq_submit, Started, TypeOK
    <2> QED
        BY <1>1, <1>3, <1>5, <2>1, <2>2, <2>3 DEF txq_submit, TypeOK
<1>7. QueueIsServed'
    <2> SUFFICES ASSUME registered, tx_source' = "none", ~active PROVE FALSE
        BY DEF QueueIsServed, txq_submit
    <2>1. Len(txq') # 1 /\ tx_source = "none"
        BY DEF txq_submit, Started
    <2>2. txq # <<>>
        BY <1>1, <1>2, <1>3, <2>1 DEF TypeOK
    <2> QED
        BY <2>1, <2>2 DEF txq_submit, IInv, QueueInv, QueueIsServed
<1>8. CASE Len(txq') = 1
    <2>1. txq = <<>>
        BY <1>1, <1>2, <1>3, <1>8 DEF TypeOK
    <2>2. active = FALSE /\ tx_source = "none"
        BY <1>1, <2>1 DEF IInv, QueueInv, OneSubmitAtATime, TypeOK
    <2>3. active' = FALSE /\ tx_source' # "retry"
        BY <2>2 DEF txq_submit, Started
    <2> QED
        BY <1>3, <1>6, <1>7, <2>3 DEF QueueInv, OneSubmitAtATime, RetryIsOfHead, NoQueue, txq_submit
<1>9. CASE Len(txq') # 1
    <2>1. tx_source' = tx_source /\ active' = active
        BY <1>9 DEF txq_submit, Started
    <2>2. txq # <<>> /\ Head(txq') = Head(txq)
        BY <1>1, <1>2, <1>3, <1>9 DEF TypeOK
    <2> QED
        BY <1>3, <1>6, <1>7, <2>1, <2>2
           DEF IInv, QueueInv, OneSubmitAtATime, RetryIsOfHead, NoQueue, txq_submit
<1> QED
    BY <1>8, <1>9

LEMMA SubmitStore ==
    ASSUME IInv, TypeOK', NEW m \in Messages, NEW n \in 1 .. MaxParts, txq_submit(m, n)
    PROVE  StoreInv'
<1> DEFINE e == Entry(m, [i \in 1 .. n |-> i - 1])
           d == Dir(m, 0 .. n - 1)
<1>1. TypeOK /\ size[m] = 0 /\ up' = up
    BY DEF IInv, QueueInv, txq_submit
<1>2. /\ e \in Entries /\ e.msg = m /\ e.cur = 0
      /\ Len(e.pdus) = n /\ e.pdus[1] = 0 /\ Final(e) = n - 1 /\ FirstLeft(e) = 0
      /\ \A j \in 1 .. n : e.pdus[j] = j - 1
    BY SMTT(20), NewEntry
<1>3. d.msg = m /\ d.files = 0 .. n - 1 /\ (m \in Exposed => d \in Dirs)
    BY DEF Dir, Dirs
<1> HIDE DEF e, d
<1>4. /\ txq' = Append(txq, e)
      /\ disk' = IF m \in Exposed THEN Append(disk, d) ELSE disk
    BY DEF txq_submit, e, d
<1>5. /\ \A q \in DOMAIN txq : txq[q].msg # m
      /\ \A i \in DOMAIN disk : disk[i].msg # m
      /\ m \notin accepted /\ confirmed[m] = {} /\ restores[m] = 0 /\ outcome[m] = "none"
      /\ m \notin torn /\ m \notin empty
    BY <1>1, Unsubmitted
<1>6. /\ DOMAIN txq' = DOMAIN txq \cup {Len(txq) + 1} /\ txq'[Len(txq) + 1] = e
      /\ \A q \in DOMAIN txq : txq'[q] = txq[q] /\ q < Len(txq) + 1 /\ q \in Int
      /\ Len(txq) + 1 \in Int
    BY <1>1, <1>2, <1>4, Appended DEF TypeOK
<1>7. \/ m \notin Exposed /\ disk' = disk
      \/ /\ m \in Exposed
         /\ DOMAIN disk' = DOMAIN disk \cup {Len(disk) + 1} /\ disk'[Len(disk) + 1] = d
         /\ \A i \in DOMAIN disk : disk'[i] = disk[i] /\ i < Len(disk) + 1 /\ i \in Int
         /\ Len(disk) + 1 \in Int
    BY <1>1, <1>3, <1>4, Appended DEF TypeOK
<1>8. \A k \in Messages \ {m} : Known(k)' = Known(k)
    BY <1>1 DEF Known, Yes, txq_submit, TypeOK
<1>9. Known(m)' = [size |-> n, accepted |-> "yes", confirmed |-> {}, restores |-> 0,
                   outcome |-> "none", torn |-> "no", empty |-> "no"]
    BY <1>1, <1>5 DEF Known, Yes, txq_submit, TypeOK
<1>10. Distinct(txq') /\ Distinct(disk')
    BY <1>2, <1>3, <1>5, <1>6, <1>7 DEF Distinct, IInv, StoreInv
<1>11. SameOrder'
    BY <1>2, <1>3, <1>5, <1>6, <1>7 DEF SameOrder, IInv, StoreInv
<1>12. OutboxIsQueue'
    <2>1. OutboxIsQueue /\ up' = up
        BY <1>1 DEF IInv, StoreInv, txq_submit
    <2>2. ASSUME NEW p \in DOMAIN txq', txq'[p].msg \in Exposed
          PROVE  \E i \in DOMAIN disk' :
                    /\ disk'[i].msg = txq'[p].msg
                    /\ disk'[i].files = FirstLeft(txq'[p]) .. Final(txq'[p])
        <3>1. CASE p \in DOMAIN txq
            <4>1. txq'[p] = txq[p]
                BY <1>6, <3>1
            <4>2. PICK i \in DOMAIN disk :
                     /\ disk[i].msg = txq[p].msg
                     /\ disk[i].files = FirstLeft(txq[p]) .. Final(txq[p])
                BY <2>1, <2>2, <3>1, <4>1 DEF OutboxIsQueue
            <4> QED
                BY <1>7, <4>1, <4>2
        <3>2. CASE p \notin DOMAIN txq
            <4>1. txq'[p] = e
                BY <1>6, <2>2, <3>2
            <4>2. FirstLeft(e) = 0 /\ Final(e) = n - 1
                BY <1>2 DEF FirstLeft
            <4> QED
                BY <1>2, <1>3, <1>7, <2>2, <4>1, <4>2
        <3> QED
            BY <3>1, <3>2
    <2>3. up' = TRUE =>
             \A i \in DOMAIN disk' : \E p \in DOMAIN txq' : txq'[p].msg = disk'[i].msg
        BY <1>2, <1>3, <1>6, <1>7, <2>1 DEF OutboxIsQueue
    <2> QED
        BY <2>2, <2>3 DEF OutboxIsQueue, FirstLeft, Final
<1>13. EntriesOK'
    <2>1. EntryOK(e, Known(m)')
        BY <1>2, <1>9 DEF EntryOK, Rest
    <2>2. ASSUME NEW q \in DOMAIN txq PROVE EntryOK(txq[q], Known(txq[q].msg))'
        BY <1>1, <1>5, <1>6, <1>8, Members DEF IInv, StoreInv, EntriesOK
    <2> QED
        BY <1>2, <1>6, <2>1, <2>2 DEF EntriesOK
<1>14. DirsOK'
    <2>1. DirOK(d, Known(m)', up')
        BY <1>3, <1>9 DEF DirOK, Rest
    <2>2. ASSUME NEW i \in DOMAIN disk PROVE DirOK(disk[i], Known(disk[i].msg), up)'
        <3>1. DirOK(disk[i], Known(disk[i].msg), up)
            BY DEF IInv, StoreInv, DirsOK
        <3>2. disk'[i] = disk[i] /\ disk[i].msg \in Messages \ {m}
            BY <1>1, <1>5, <1>7, Members
        <3> QED
            BY <1>1, <1>8, <3>1, <3>2
    <2> QED
        BY <1>3, <1>7, <2>1, <2>2 DEF DirsOK
<1>15. Stored'
    <2> SUFFICES ASSUME NEW k \in accepted' \cap Exposed, outcome'[k] = "none"
                 PROVE  (\E i \in DOMAIN disk' : disk'[i].msg = k) \/ confirmed'[k] = 0 .. size'[k] - 1
        BY DEF Stored
    <2>1. CASE k = m
        BY <1>3, <1>7, <2>1
    <2>2. CASE k # m
        <3>1. k \in accepted /\ outcome[k] = "none" /\ confirmed'[k] = confirmed[k]
              /\ size'[k] = size[k]
            BY <1>1, <2>2, SmsTxAssumption DEF txq_submit, TypeOK
        <3>2. (\E i \in DOMAIN disk : disk[i].msg = k) \/ confirmed[k] = 0 .. size[k] - 1
            BY <3>1 DEF IInv, StoreInv, Stored
        <3> QED
            BY <3>1, <3>2, <1>7
    <2> QED
        BY <2>1, <2>2
<1>16. \A k \in Messages : MessageOK(Known(k))'
    <2>1. MessageOK(Known(m)')
        BY <1>9 DEF MessageOK
    <2> QED
        BY <1>8, <2>1 DEF IInv, StoreInv
<1> QED
    BY <1>10, <1>11, <1>12, <1>13, <1>14, <1>15, <1>16 DEF StoreInv

LEMMA RemoveTypes ==
    ASSUME IInv, NEW p \in DOMAIN txq, NEW state \in {"sent", "failed", "cancelled"},
           remove_entry(p, state)
    PROVE  /\ txq' \in Seq(Entries) /\ \A q \in DOMAIN txq' : txq'[q].cur < Len(txq'[q].pdus)
           /\ disk' \in Seq(Dirs)
           /\ outcome' \in [Messages -> {"none", "sent", "failed", "cancelled"}]
           /\ txq' # <<>> <=> Len(txq) > 1
           /\ p # 1 => txq' # <<>> /\ Head(txq') = Head(txq)
<1>1. /\ TypeOK /\ DOMAIN txq = 1 .. Len(txq) /\ Len(txq) \in Nat
    BY Members DEF IInv, QueueInv
<1>2. /\ txq' \in Seq(Entries) /\ Removed(txq, p, txq') /\ disk' \in Seq(Dirs)
      /\ outcome' = [outcome EXCEPT ![txq[p].msg] = state]
    BY <1>1, RemoveEntry DEF TypeOK
<1>3. DOMAIN txq' = 1 .. Len(txq') /\ Len(txq') = Len(txq) - 1
    BY <1>2 DEF Removed
<1>4. \A q \in DOMAIN txq' : txq'[q].cur < Len(txq'[q].pdus)
    <2> SUFFICES ASSUME NEW q \in DOMAIN txq' PROVE txq'[q].cur < Len(txq'[q].pdus)
        OBVIOUS
    <2>1. Old(p, q) \in DOMAIN txq /\ txq'[q] = txq[Old(p, q)]
        BY <1>1, <1>2, <1>3 DEF Removed
    <2> QED
        BY <1>1, <2>1 DEF TypeOK
<1>5. txq' # <<>> <=> Len(txq) > 1
    BY <1>1, <1>2, <1>3
<1>6. ASSUME p # 1 PROVE txq' # <<>> /\ Head(txq') = Head(txq)
    <2>1. txq' # <<>> /\ Len(txq) > 1 /\ 1 \in 1 .. Len(txq')
        BY <1>1, <1>3, <1>5, <1>6
    <2>2. txq'[1] = txq[1]
        BY <1>1, <1>2, <1>6, <2>1 DEF Removed, Old
    <2> QED
        BY <1>1, <1>2, <2>1, <2>2 DEF TypeOK
<1> QED
    BY <1>1, <1>2, <1>4, <1>5, <1>6 DEF TypeOK

LEMMA CancelStep ==
    ASSUME IInv, NEW m \in Messages, txq_cancel(m)
    PROVE  IInv'
<1>1. PICK p \in At(txq, m) :
         MayCancel(p) /\ tx_source' = AfterCancel(p) /\ remove_entry(p, "cancelled")
    BY DEF txq_cancel
<1>2. /\ TypeOK /\ p \in DOMAIN txq /\ m = txq[p].msg
      /\ DOMAIN txq = 1 .. Len(txq) /\ Len(txq) \in Nat
    BY <1>1, Members DEF At, IInv, QueueInv
<1>3. /\ txq' \in Seq(Entries) /\ \A q \in DOMAIN txq' : txq'[q].cur < Len(txq'[q].pdus)
      /\ disk' \in Seq(Dirs)
      /\ outcome' \in [Messages -> {"none", "sent", "failed", "cancelled"}]
      /\ txq' # <<>> <=> Len(txq) > 1
      /\ p # 1 => txq' # <<>> /\ Head(txq') = Head(txq)
    BY <1>1, <1>2, RemoveTypes
<1>4. /\ UNCHANGED <<up, registered, active, removals, size, accepted, confirmed, restores>>
    BY DEF txq_cancel
<1>5. tx_source' \in {"none", "now", "retry"}
    BY <1>1, <1>2 DEF AfterCancel, TypeOK
<1>6. TypeOK'
    BY <1>1, <1>2, <1>3, <1>4, <1>5 DEF TypeOK, remove_entry
<1>7. QueueInv'
    <2>1. CASE p # 1
        <3>1. tx_source' = tx_source /\ txq # <<>>
            BY <1>1, <1>2, <2>1 DEF AfterCancel
        <3> QED
            BY <1>3, <1>4, <1>6, <2>1, <3>1
               DEF IInv, QueueInv, QueueIsServed, OneSubmitAtATime, RetryIsOfHead, NoQueue
    <2>2. CASE p = 1
        <3>1. active = FALSE /\ up = TRUE
            BY <1>1, <1>2, <2>2 DEF MayCancel, txq_cancel, TypeOK
        <3>2. /\ tx_source = "none" => tx_source' = "none"
              /\ tx_source # "none" /\ Len(txq) > 1 => tx_source' = "now"
              /\ ~(Len(txq) > 1) => tx_source' = "none"
            BY <1>1, <2>2 DEF AfterCancel
        <3>3. txq # <<>>
            BY <1>2
        <3>4. registered => tx_source # "none"
            BY <3>1, <3>3 DEF IInv, QueueInv, QueueIsServed
        <3> QED
            BY <1>3, <1>4, <1>6, <3>1, <3>2, <3>4
               DEF QueueInv, QueueIsServed, OneSubmitAtATime, RetryIsOfHead, NoQueue
    <2> QED
        BY <2>1, <2>2
<1>8. StoreInv'
    <2>1. MessageOK(Known(m))
        BY <1>2 DEF IInv, StoreInv
    <2>2. outcome'[m] = "cancelled" /\ UNCHANGED <<empty, torn>>
        BY <1>1, <1>2 DEF remove_entry, TypeOK
    <2>3. MessageOK(Known(m)')
        <3>1. /\ confirmed[m] \subseteq 0 .. size[m] - 1
              /\ size[m] = 0 => m \notin accepted /\ restores[m] = 0
            BY <2>1 DEF MessageOK, Known, Yes
        <3>2. size[m] # 0
            BY <1>2, Unsubmitted
        <3> QED
            BY <1>4, <2>2, <3>1, <3>2 DEF MessageOK, Known, Yes
    <2> QED
        BY <1>1, <1>2, <1>4, <1>6, <2>3, RemoveKeepsStore
<1> QED
    BY <1>7, <1>8 DEF IInv

-----------------------------------------------------------------------------
(* Transmission.                                                           *)

LEMMA NextStep == ASSUME IInv, tx_next PROVE IInv'
<1>1. StoreInv'
    BY SameStore DEF tx_next
<1>2. TypeOK'
    BY DEF IInv, QueueInv, TypeOK, tx_next, backup, history
<1> QED
    BY <1>1, <1>2 DEF IInv, QueueInv, TypeOK, QueueIsServed, OneSubmitAtATime, RetryIsOfHead,
                      NoQueue, tx_next

LEMMA StatusStep ==
    ASSUME IInv, NEW status \in BOOLEAN, netreg_status_watch(status)
    PROVE  IInv'
<1>1. StoreInv'
    BY SameStore DEF netreg_status_watch
<1>2. TypeOK'
    BY DEF IInv, QueueInv, TypeOK, netreg_status_watch, backup, history
<1>3. QueueInv'
    <2>1. CASE status /\ NeedsStart /\ txq # <<>>
        BY <1>2, <2>1 DEF IInv, QueueInv, QueueIsServed, OneSubmitAtATime, RetryIsOfHead,
                          NoQueue, netreg_status_watch, NeedsStart
    <2>2. CASE ~(status /\ NeedsStart /\ txq # <<>>)
        BY <1>2, <2>2 DEF IInv, QueueInv, QueueIsServed, OneSubmitAtATime, RetryIsOfHead,
                          NoQueue, netreg_status_watch, NeedsStart
    <2> QED
        BY <2>1, <2>2
<1> QED
    BY <1>1, <1>3 DEF IInv

\* Where the queue is when the driver answers.
LEMMA AtTheHead ==
    ASSUME IInv, active
    PROVE  /\ TypeOK /\ up = TRUE /\ tx_source = "none" /\ txq # <<>>
           /\ 1 \in DOMAIN txq /\ Head(txq) = txq[1]
           /\ txq \in Seq(Entries) /\ txq[1] \in Entries
           /\ txq[1].pdus \in Seq(Nat) /\ txq[1].cur \in Nat /\ txq[1].cur < Len(txq[1].pdus)
           /\ txq[1].cur + 1 \in DOMAIN txq[1].pdus
           /\ txq[1].msg \in Messages
<1>1. TypeOK /\ tx_source = "none" /\ txq # <<>> /\ up = TRUE
    BY DEF IInv, QueueInv, OneSubmitAtATime, NoQueue, TypeOK
<1>2. 1 \in DOMAIN txq /\ Head(txq) = txq[1] /\ txq \in Seq(Entries)
    BY <1>1 DEF TypeOK
<1>3. /\ txq[1].pdus \in Seq(Nat) /\ txq[1].cur \in Nat /\ txq[1].cur < Len(txq[1].pdus)
      /\ txq[1].msg \in Messages /\ txq[1] \in Entries
    <2>1. txq[1] \in Entries /\ txq[1].cur < Len(txq[1].pdus)
        BY <1>1, <1>2, Members DEF TypeOK
    <2> QED
        BY <2>1 DEF Entries
<1> QED
    BY <1>1, <1>2, <1>3

\* The head leaves with an outcome, and the next message is started.
LEMMA FinishStep ==
    ASSUME IInv, active, active' = FALSE,
           NEW state \in {"sent", "failed"}, Finish(state),
           NEW gone \in Messages, gone = txq[1].msg,
           UNCHANGED <<up, registered, removals, size, accepted, restores>>,
           confirmed' \in [Messages -> SUBSET Nat],
           \A m \in Messages \ {gone} : confirmed'[m] = confirmed[m],
           MessageOK(Known(gone)')
    PROVE  IInv'
<1>1. TypeOK /\ up = TRUE /\ tx_source = "none" /\ 1 \in DOMAIN txq
    BY AtTheHead
<1>2. remove_entry(1, state) /\ tx_source' = IF registered /\ Len(txq) > 1 THEN "now" ELSE tx_source
    BY DEF Finish
<1>3. /\ txq' \in Seq(Entries) /\ \A q \in DOMAIN txq' : txq'[q].cur < Len(txq'[q].pdus)
      /\ disk' \in Seq(Dirs)
      /\ outcome' \in [Messages -> {"none", "sent", "failed", "cancelled"}]
      /\ txq' # <<>> <=> Len(txq) > 1
    BY <1>1, <1>2, RemoveTypes
<1>4. TypeOK'
    BY <1>1, <1>2, <1>3 DEF TypeOK, remove_entry
<1>5. QueueInv'
    BY <1>1, <1>2, <1>3, <1>4
       DEF QueueInv, QueueIsServed, OneSubmitAtATime, RetryIsOfHead, NoQueue
<1>6. StoreInv'
    BY <1>1, <1>2, <1>4, RemoveKeepsStore
<1> QED
    BY <1>5, <1>6 DEF IInv

LEMMA GiveUpStep ==
    ASSUME IInv, tx_finished, Finish("failed"), UNCHANGED confirmed
    PROVE  IInv'
<1> DEFINE gone == txq[1].msg
<1>1. /\ active /\ active' = FALSE /\ Finish("failed")
      /\ UNCHANGED <<up, registered, removals, size, accepted, restores>>
    BY DEF tx_finished
<1>2. TypeOK /\ 1 \in DOMAIN txq /\ gone \in Messages
    BY <1>1, AtTheHead
<1>3. MessageOK(Known(gone))
    BY <1>2 DEF IInv, StoreInv
<1>4. outcome'[gone] = "failed" /\ size[gone] # 0 /\ UNCHANGED <<empty, torn>>
    BY <1>1, <1>2, Unsubmitted DEF Finish, remove_entry, TypeOK
<1> HIDE DEF gone
<1>5. MessageOK([size |-> size[gone], accepted |-> Yes(gone \in accepted),
                 confirmed |-> confirmed[gone],
                 restores |-> restores[gone], outcome |-> "failed", torn |-> Yes(gone \in torn),
                 empty |-> Yes(gone \in empty)])
    BY <1>3, <1>4 DEF MessageOK, Known, Yes
<1>6. \A g : g = gone => MessageOK(Known(g)')
    BY <1>1, <1>4, <1>5 DEF Known, Yes
<1>7. confirmed' \in [Messages -> SUBSET Nat]
    BY <1>2 DEF TypeOK
<1>8. PICK g \in Messages : g = gone
    BY <1>2
<1> QED
    BY <1>1, <1>6, <1>7, <1>8, FinishStep DEF gone

\* The driver has sent the last PDU.
LEMMA LastSentStep ==
    ASSUME IInv, tx_finished, NEW gone \in Messages, gone = txq[1].msg, Finish("sent"),
           txq[1].cur + 1 = Len(txq[1].pdus),
           confirmed' = [confirmed EXCEPT ![gone] = @ \cup {txq[1].pdus[txq[1].cur + 1]}]
    PROVE  IInv'
<1> DEFINE e == txq[1]
           last == Final(e)
<1>1. /\ active /\ active' = FALSE
      /\ UNCHANGED <<up, registered, removals, size, accepted, restores>>
    BY DEF tx_finished
<1>2. /\ TypeOK /\ 1 \in DOMAIN txq /\ e.pdus \in Seq(Nat) /\ e.cur \in Nat
      /\ e.cur + 1 \in DOMAIN e.pdus /\ e.pdus[e.cur + 1] \in Nat
    BY <1>1, AtTheHead
<1>3. last = e.pdus[e.cur + 1] /\ last \in Nat
    BY <1>2 DEF Final
<1>4. EntryOK(e, Known(gone)) /\ MessageOK(Known(gone))
    BY <1>2 DEF IInv, StoreInv, EntriesOK
<1>5. /\ last < size[gone] /\ (gone \in accepted /\ gone \notin torn => last = size[gone] - 1)
      /\ 0 .. last - 1 \subseteq confirmed[gone]
      /\ confirmed[gone] \subseteq 0 .. size[gone] - 1
      /\ size[gone] \in Nat /\ confirmed[gone] \in SUBSET Nat
    <2>1. /\ last < size[gone] /\ (gone \in accepted /\ gone \notin torn => last = size[gone] - 1)
          /\ 0 .. last - 1 \subseteq confirmed[gone]
        BY <1>3, <1>4, KnownEntry
    <2>2. confirmed[gone] \subseteq 0 .. size[gone] - 1
        BY <1>4 DEF MessageOK, Known, Yes
    <2> QED
        BY <1>2, <2>1, <2>2 DEF TypeOK
<1>6. /\ confirmed' \in [Messages -> SUBSET Nat]
      /\ confirmed'[gone] = confirmed[gone] \cup {last}
      /\ \A m \in Messages \ {gone} : confirmed'[m] = confirmed[m]
    BY <1>2, <1>3 DEF TypeOK
<1>7. outcome'[gone] = "sent" /\ UNCHANGED <<empty, torn>>
    BY <1>2 DEF Finish, remove_entry, TypeOK
<1> HIDE DEF e, last
<1>8. /\ confirmed'[gone] \subseteq 0 .. size[gone] - 1 /\ size[gone] # 0
      /\ gone \in accepted /\ gone \notin torn => confirmed'[gone] = 0 .. size[gone] - 1
    <2>1. 0 .. last = (0 .. last - 1) \cup {last} /\ last \in 0 .. size[gone] - 1
        BY <1>3, <1>5
    <2>2. 0 .. last \subseteq confirmed'[gone] /\ confirmed'[gone] \subseteq 0 .. size[gone] - 1
        BY <1>5, <1>6, <2>1
    <2>3. size[gone] # 0
        BY <1>3, <1>5
    <2>4. gone \in accepted /\ gone \notin torn => 0 .. last = 0 .. size[gone] - 1
        BY <1>5
    <2> QED
        BY <2>2, <2>3, <2>4
<1>9. MessageOK(Known(gone)')
    BY <1>1, <1>7, <1>8 DEF MessageOK, Known, Yes
<1> QED
    BY <1>1, <1>6, <1>9, FinishStep

\* The file removed is the first one left, or was never there.
LEMMA WithoutCur ==
    ASSUME NEW e, NEW f, NEW last \in Nat, e.cur \in Nat, e.pdus[1] \in Nat,
           f.cur = e.cur + 1, f.pdus = e.pdus
    PROVE  (FirstLeft(e) .. last) \ {e.cur} = FirstLeft(f) .. last
<1> DEFINE cur == e.cur
           first == e.pdus[1]
<1>1. /\ FirstLeft(e) = IF cur > first THEN cur ELSE first
      /\ FirstLeft(f) = IF cur + 1 > first THEN cur + 1 ELSE first
    BY DEF FirstLeft
<1>2. cur \in Nat /\ first \in Nat
    OBVIOUS
<1> HIDE DEF cur, first
<1>3. (FirstLeft(e) .. last) \ {cur} = FirstLeft(f) .. last
    <2>1. CASE cur > first
        BY <1>1, <1>2, <2>1
    <2>2. CASE cur = first
        BY <1>1, <1>2, <2>2
    <2>3. CASE cur < first
        BY <1>1, <1>2, <2>3
    <2> QED
        BY <1>2, <2>1, <2>2, <2>3
<1> QED
    BY <1>3 DEF cur

\* The numbers of an entry before and after one of its PDUs was sent.
LEMMA Advance ==
    ASSUME NEW pdus \in Seq(Nat), NEW cur \in Nat, cur + 1 < Len(pdus),
           \A j \in 1 .. Len(pdus) : pdus[j] = pdus[1] + j - 1
    PROVE  /\ pdus[1] \in Nat /\ pdus[cur + 1] \in Nat /\ pdus[cur + 2] \in Nat
           /\ pdus[Len(pdus)] \in Nat
           /\ pdus[cur + 1] = pdus[1] + cur /\ pdus[cur + 2] = pdus[cur + 1] + 1
           /\ pdus[cur + 2] <= pdus[Len(pdus)]
<1> DEFINE n == Len(pdus)
           first == pdus[1]
<1>1. n \in Nat /\ first \in Nat
    OBVIOUS
<1>2. /\ pdus[cur + 1] = first + (cur + 1) - 1 /\ pdus[cur + 2] = first + (cur + 2) - 1
      /\ pdus[n] = first + n - 1
    OBVIOUS
<1> HIDE DEF n, first
<1>3. first \in Nat /\ n \in Nat /\ cur + 1 < n
    BY <1>1 DEF n, first
<1>4. /\ first + (cur + 1) - 1 = first + cur /\ first + (cur + 2) - 1 = first + cur + 1
      /\ first + cur \in Nat /\ first + cur + 1 \in Nat /\ first + n - 1 \in Nat
      /\ first + cur + 1 <= first + n - 1
    BY <1>3
<1> QED
    BY <1>2, <1>3, <1>4, Zenon DEF n, first

\* The driver has sent a PDU, and there are more: the entry moves on, and the
\* file with the number of the PDU in the entry goes.
LEMMA SentStep ==
    ASSUME IInv, tx_finished, NEW gone \in Messages, gone = txq[1].msg,
           txq[1].cur + 1 < Len(txq[1].pdus),
           txq' = [txq EXCEPT ![1].cur = @ + 1, ![1].retry = 0],
           disk' = backup_remove(txq[1]), tx_source' = "now", UNCHANGED <<empty, outcome, torn>>,
           confirmed' = [confirmed EXCEPT ![gone] = @ \cup {txq[1].pdus[txq[1].cur + 1]}]
    PROVE  IInv'
<1> DEFINE e == txq[1]
           f == txq'[1]
           sent == e.pdus[e.cur + 1]
<1>1. /\ active /\ active' = FALSE
      /\ UNCHANGED <<up, registered, removals, size, accepted, restores>>
    BY DEF tx_finished
<1>2. /\ TypeOK /\ 1 \in DOMAIN txq /\ e \in Entries /\ e.pdus \in Seq(Nat) /\ e.cur \in Nat
      /\ e.cur + 1 \in DOMAIN e.pdus /\ sent \in Nat
      /\ e.msg = gone /\ up = TRUE /\ txq # <<>> /\ txq \in Seq(Entries)
    BY <1>1, AtTheHead
<1>3. /\ txq' \in Seq(Entries) /\ txq' # <<>> /\ Len(txq') = Len(txq) /\ DOMAIN txq' = DOMAIN txq
      /\ f.msg = gone /\ f.pdus = e.pdus /\ f.cur = e.cur + 1
      /\ \A q \in DOMAIN txq : q # 1 => txq'[q] = txq[q]
    <2>1. f = [msg |-> e.msg, pdus |-> e.pdus, cur |-> e.cur + 1, retry |-> 0]
        BY <1>2 DEF Entries
    <2>2. f \in Entries
        BY <1>2, <2>1, SmsTxAssumption, SMTT(20) DEF Entries
    <2>3. txq' = [txq EXCEPT ![1] = f]
        BY <1>2
    <2>4. f.msg = gone /\ f.pdus = e.pdus /\ f.cur = e.cur + 1
        BY <1>2, <2>1
    <2> HIDE DEF e, f
    <2> QED
        BY SMTT(20), <1>2, <2>2, <2>3, <2>4
<1>4. /\ EntryOK(e, Known(gone)) /\ MessageOK(Known(gone))
      /\ Final(f) = Final(e) /\ Final(e) = e.pdus[Len(e.pdus)] /\ f.cur + 1 \in 1 .. Len(e.pdus)
    <2>1. EntryOK(e, Known(gone)) /\ MessageOK(Known(gone))
        BY <1>2 DEF IInv, StoreInv, EntriesOK
    <2>2. Len(e.pdus) \in Nat /\ e.cur + 1 < Len(e.pdus)
        BY <1>2
    <2> HIDE DEF e, f
    <2> QED
        BY <1>2, <1>3, <2>1, <2>2 DEF Final
<1>5. /\ confirmed' \in [Messages -> SUBSET Nat]
      /\ confirmed'[gone] = confirmed[gone] \cup {sent}
      /\ \A m \in Messages \ {gone} : confirmed'[m] = confirmed[m]
    BY <1>2 DEF TypeOK
<1>6. /\ DOMAIN disk' = DOMAIN disk /\ Len(disk') = Len(disk) /\ disk' \in Seq(Dirs)
      /\ \A i \in DOMAIN disk :
            /\ disk'[i].msg = disk[i].msg
            /\ disk[i].msg # gone => disk'[i] = disk[i]
            /\ disk[i].msg = gone => disk'[i].files = disk[i].files \ {e.cur}
    <2>1. disk' = [i \in DOMAIN disk |->
                     IF disk[i].msg = gone THEN [disk[i] EXCEPT !.files = @ \ {e.cur}] ELSE disk[i]]
        BY <1>2 DEF backup_remove
    <2>2. \A i \in DOMAIN disk : [disk[i] EXCEPT !.files = @ \ {e.cur}] \in Dirs
        BY <1>2, Members DEF Dirs
    <2>3. \A i \in DOMAIN disk : disk'[i] \in Dirs
        BY <1>2, <2>1, <2>2, Members
    <2>4. disk' \in Seq(Dirs) /\ DOMAIN disk' = DOMAIN disk /\ Len(disk') = Len(disk)
        BY <1>2, <2>1, <2>3, Members
    <2> QED
        BY <1>2, <2>1, <2>4, Members DEF Dirs
<1>7. /\ \A m \in Messages \ {gone} : Known(m)' = Known(m)
      /\ \A q \in DOMAIN txq : q # 1 => txq[q].msg \in Messages \ {gone}
    BY <1>1, <1>2, <1>5, Members DEF Known, Yes, IInv, StoreInv, Distinct
<1>8. /\ \A j \in 1 .. Len(e.pdus) : e.pdus[j] = e.pdus[1] + j - 1
      /\ Final(e) < size[gone] /\ (gone \in accepted /\ gone \notin torn => Final(e) = size[gone] - 1)
      /\ 0 .. sent - 1 \subseteq confirmed[gone]
      /\ outcome[gone] = "none" \/ gone \in torn
      /\ restores[gone] = 0 => e.pdus[1] = 0
      /\ restores[gone] <= 1 => confirmed[gone] = 0 .. sent - 1
    BY <1>4, KnownEntry
<1> DEFINE next == f.pdus[f.cur + 1]
<1>9. /\ next = sent + 1 /\ next <= Final(e) /\ Final(e) \in Nat /\ next \in Nat
      /\ sent = e.pdus[1] + e.cur /\ e.pdus[1] \in Nat
    <2>1. e.cur + 1 < Len(e.pdus) /\ f.cur + 1 = e.cur + 2
        BY <1>2, <1>3
    <2>2. e.pdus \in Seq(Nat) /\ e.cur \in Nat
        BY <1>2
    <2> HIDE DEF e, f
    <2>3. /\ e.pdus[1] \in Nat /\ e.pdus[e.cur + 1] \in Nat /\ e.pdus[e.cur + 2] \in Nat
          /\ e.pdus[Len(e.pdus)] \in Nat
          /\ e.pdus[e.cur + 1] = e.pdus[1] + e.cur /\ e.pdus[e.cur + 2] = e.pdus[e.cur + 1] + 1
          /\ e.pdus[e.cur + 2] <= e.pdus[Len(e.pdus)]
        BY <1>8, <2>1, <2>2, Advance, Zenon
    <2>4. next = e.pdus[e.cur + 2] /\ sent = e.pdus[e.cur + 1] /\ Final(e) = e.pdus[Len(e.pdus)]
        BY <1>3, <1>4, <2>1, Zenon
    <2> HIDE DEF sent, next
    <2> QED
        BY <2>3, <2>4
<1> HIDE DEF e, f, sent, next
<1>10. /\ 0 .. next - 1 = (0 .. sent - 1) \cup {sent}
    BY SMTT(20), <1>2, <1>9
<1>11. /\ 0 .. next - 1 \subseteq confirmed'[gone]
       /\ restores[gone] <= 1 => confirmed'[gone] = 0 .. next - 1
    BY <1>5, <1>8, <1>10
<1>12. EntryOK(f, Known(gone)')
    <2>1. Rest(Known(gone)', next, Final(f))
        BY <1>1, <1>4, <1>8, <1>9, <1>11 DEF Rest, Known, Yes
    <2>2. \A j \in 1 .. Len(f.pdus) : f.pdus[j] = f.pdus[1] + j - 1
        BY <1>3, <1>8
    <2>3. /\ Known(gone)'.restores = restores[gone] /\ Known(gone)'.confirmed = confirmed'[gone]
        BY <1>1 DEF Known, Yes
    <2> QED
        BY <1>3, <1>8, <1>11, <2>1, <2>2, <2>3 DEF EntryOK, next
<1>13. TypeOK'
    <2>1. \A q \in DOMAIN txq' : txq'[q].cur < Len(txq'[q].pdus)
        <3>1. f.cur < Len(f.pdus)
            BY <1>2, <1>3, <1>4
        <3> QED
            BY <3>1, <1>2, <1>3 DEF TypeOK, f
    <2> QED
        BY <1>1, <1>2, <1>3, <1>5, <1>6, <2>1 DEF TypeOK
<1>14. QueueInv'
    BY <1>1, <1>2, <1>3, <1>13
       DEF QueueInv, QueueIsServed, OneSubmitAtATime, RetryIsOfHead, NoQueue
<1>15. \A q \in DOMAIN txq : txq'[q].msg = txq[q].msg
    BY <1>2, <1>3 DEF e, f
<1>16. Distinct(txq') /\ Distinct(disk') /\ SameOrder'
    <2>1. \A i \in DOMAIN disk : disk'[i].msg = disk[i].msg
        BY <1>6
    <2>2. Distinct(txq') /\ Distinct(disk')
        <3>1. Distinct(txq) /\ Distinct(disk)
            BY DEF IInv, StoreInv
        <3>2. \A i, j \in DOMAIN disk : disk'[i].msg = disk'[j].msg => i = j
            BY <2>1, <3>1, Zenon DEF Distinct
        <3>3. \A p, q \in DOMAIN txq : txq'[p].msg = txq'[q].msg => p = q
            BY <1>15, <3>1, Zenon DEF Distinct
        <3> QED
            BY <1>3, <1>6, <3>2, <3>3, Zenon DEF Distinct
    <2>3. SameOrder'
        BY <1>3, <1>6, <1>15, <2>1 DEF IInv, StoreInv, SameOrder
    <2> QED
        BY <2>2, <2>3
<1>17. OutboxIsQueue'
    <2>1. ASSUME NEW q \in DOMAIN txq', txq'[q].msg \in Exposed
          PROVE  \E i \in DOMAIN disk' :
                    /\ disk'[i].msg = txq'[q].msg
                    /\ disk'[i].files = FirstLeft(txq'[q]) .. Final(txq'[q])
        <3>1. PICK i \in DOMAIN disk : /\ disk[i].msg = txq[q].msg
                                       /\ disk[i].files = FirstLeft(txq[q]) .. Final(txq[q])
            BY <1>3, <1>15, <2>1 DEF IInv, StoreInv, OutboxIsQueue
        <3>2. CASE q = 1
            <4>1. disk'[i].files = (FirstLeft(e) .. Final(e)) \ {e.cur}
                BY <1>2, <1>6, <3>1, <3>2 DEF e
            <4>2. (FirstLeft(e) .. Final(e)) \ {e.cur} = FirstLeft(f) .. Final(e)
                <5>1. /\ Final(e) \in Nat /\ e.cur \in Nat /\ e.pdus[1] \in Nat
                      /\ f.cur = e.cur + 1 /\ f.pdus = e.pdus
                    BY <1>2, <1>3, <1>9
                <5> QED
                    BY <5>1, WithoutCur
            <4>3. txq'[q] = f
                BY <3>2 DEF f
            <4>4. Final(f) = Final(e)
                BY <1>4
            <4>5. disk'[i].files = FirstLeft(txq'[q]) .. Final(txq'[q])
                BY ONLY <4>1, <4>2, <4>3, <4>4
            <4>6. i \in DOMAIN disk' /\ q \in DOMAIN txq
                BY <1>3, <1>6, <2>1
            <4>7. disk'[i].msg = txq'[q].msg
                BY <1>6, <1>15, <3>1, <4>6
            <4> QED
                BY <4>5, <4>6, <4>7
        <3>3. CASE q # 1
            BY <1>3, <1>6, <1>7, <3>1, <3>3
        <3> QED
            BY <3>2, <3>3
    <2>2. ASSUME NEW i \in DOMAIN disk'
          PROVE  \E q \in DOMAIN txq' : txq'[q].msg = disk'[i].msg
        BY <1>2, <1>3, <1>6, <1>15, SMTT(20) DEF IInv, StoreInv, OutboxIsQueue
    <2> QED
        BY <2>1, <2>2 DEF OutboxIsQueue
<1>18. EntriesOK'
    <2> SUFFICES ASSUME NEW q \in DOMAIN txq' PROVE EntryOK(txq[q], Known(txq[q].msg))'
        BY DEF EntriesOK
    <2>1. CASE q = 1
        BY <1>3, <1>12, <2>1 DEF f
    <2>2. CASE q # 1
        BY <1>3, <1>7, <2>2 DEF IInv, StoreInv, EntriesOK
    <2> QED
        BY <2>1, <2>2
<1>19. DirsOK'
    <2> SUFFICES ASSUME NEW i \in DOMAIN disk' PROVE DirOK(disk[i], Known(disk[i].msg), up)'
        BY DEF DirsOK
    <2>1. CASE disk[i].msg = gone
        <3>1. 1 \in DOMAIN txq' /\ txq'[1].msg = gone /\ gone \in Exposed
            BY <1>2, <1>3, <1>6, <2>1, Members DEF f
        <3>2. PICK j \in DOMAIN disk' : /\ disk'[j].msg = gone
                                        /\ disk'[j].files = FirstLeft(f) .. Final(f)
            BY <1>17, <3>1 DEF OutboxIsQueue, f
        <3>3. j = i
            BY <1>6, <1>16, <2>1, <3>2 DEF Distinct
        <3>4. /\ FirstLeft(f) \in Nat /\ Final(f) \in Nat
              /\ FirstLeft(f) <= next /\ next <= Final(f) /\ FirstLeft(f) <= Final(f)
            <4>1. FirstLeft(f) = IF e.cur + 1 > e.pdus[1] THEN e.cur + 1 ELSE e.pdus[1]
                BY <1>3 DEF FirstLeft
            <4>2. /\ e.pdus[1] \in Nat /\ e.cur \in Nat /\ next = e.pdus[1] + e.cur + 1
                  /\ Final(f) \in Nat /\ next <= Final(f)
                BY <1>2, <1>4, <1>9
            <4>3. ASSUME NEW a \in Nat, NEW c \in Nat, NEW last \in Nat, NEW l,
                         l = (IF c + 1 > a THEN c + 1 ELSE a), NEW nx, nx = a + c + 1, nx <= last
                  PROVE  l \in Nat /\ l <= nx /\ l <= last
                BY <4>3
            <4> QED
                BY <4>1, <4>2, <4>3
        <3>5. Rest(Known(gone)', next, Final(f))
            BY <1>12 DEF EntryOK, next
        <3>6. 0 .. FirstLeft(f) - 1 \subseteq 0 .. next - 1
            BY <3>4, <1>9
        <3>7. Rest(Known(gone)', FirstLeft(f), Final(f))
            BY <3>4, <3>5, <3>6 DEF Rest
        <3> QED
            BY <1>1, <1>2, <3>2, <3>3, <3>4, <3>7 DEF DirOK
    <2>2. CASE disk[i].msg # gone
        <3>1. disk'[i] = disk[i] /\ disk[i].msg \in Messages \ {gone} /\ i \in DOMAIN disk
            BY <1>2, <1>6, <2>2, Members
        <3>2. DirOK(disk[i], Known(disk[i].msg), up)
            BY <3>1 DEF IInv, StoreInv, DirsOK
        <3> QED
            BY <1>1, <1>7, <3>1, <3>2
    <2> QED
        BY <2>1, <2>2
<1>20. Stored'
    <2> SUFFICES ASSUME NEW m \in accepted \cap Exposed, outcome[m] = "none"
                 PROVE  (\E i \in DOMAIN disk' : disk'[i].msg = m) \/ confirmed'[m] = 0 .. size[m] - 1
        BY <1>1 DEF Stored
    <2>1. (\E i \in DOMAIN disk : disk[i].msg = m) \/ confirmed[m] = 0 .. size[m] - 1
        BY DEF IInv, StoreInv, Stored
    <2>2. CASE m = gone
        <3>1. 1 \in DOMAIN txq /\ txq[1].msg \in Exposed
            BY <1>2, <2>2 DEF e
        <3>2. \E i \in DOMAIN disk : disk[i].msg = gone
            BY <3>1 DEF IInv, StoreInv, OutboxIsQueue
        <3> QED
            BY <1>6, <2>2, <3>2
    <2>3. CASE m # gone
        <3>1. m \in Messages
            BY SmsTxAssumption
        <3> QED
            BY <1>5, <1>6, <2>1, <2>3, <3>1
    <2> QED
        BY <2>2, <2>3
<1>21. \A m \in Messages : MessageOK(Known(m))'
    <2>1. MessageOK(Known(gone)')
        <3>1. /\ confirmed[gone] \subseteq 0 .. size[gone] - 1 /\ size[gone] \in Nat
            BY <1>2, <1>4 DEF MessageOK, Known, Yes, TypeOK
        <3>2. /\ confirmed'[gone] \subseteq 0 .. size[gone] - 1 /\ size[gone] # 0
              /\ confirmed[gone] \subseteq confirmed'[gone]
            BY SMTT(20), <1>2, <1>5, <1>8, <1>9, <3>1
        <3>3. confirmed[gone] = 0 .. size[gone] - 1 => confirmed'[gone] = 0 .. size[gone] - 1
            BY <3>2
        <3> QED
            BY <1>1, <1>4, <1>8, <3>2, <3>3 DEF MessageOK, Known, Yes
    <2> QED
        BY <1>7, <2>1 DEF IInv, StoreInv
<1> QED
    BY <1>14, <1>16, <1>17, <1>18, <1>19, <1>20, <1>21 DEF IInv, StoreInv

\* The driver's failure is answered with a timer, and counted.
LEMMA RetryStep ==
    ASSUME IInv, tx_finished, Retry, UNCHANGED confirmed
    PROVE  IInv'
<1>1. /\ active /\ active' = FALSE /\ registered
      /\ UNCHANGED <<up, registered, removals, size, accepted, restores, disk, empty, outcome, torn,
                      confirmed>>
      /\ tx_source' = "retry" /\ txq[1].retry + 1 < TXQ_MAX_RETRIES
      /\ txq' = [txq EXCEPT ![1].retry = @ + 1]
    BY AtTheHead DEF tx_finished, Retry, backup
<1>2. /\ TypeOK /\ 1 \in DOMAIN txq /\ txq[1] \in Entries /\ txq \in Seq(Entries)
      /\ up = TRUE /\ txq # <<>>
    BY <1>1, AtTheHead
<1> DEFINE e == txq[1]
           f == [e EXCEPT !.retry = e.retry + 1]
<1>3. /\ f \in Entries /\ f.msg = e.msg /\ f.pdus = e.pdus /\ f.cur = e.cur /\ f.retry > 0
    <2>1. e.retry \in Nat /\ e.retry + 1 \in 0 .. TXQ_MAX_RETRIES - 1
        BY <1>1, <1>2, SmsTxAssumption DEF Entries
    <2>2. f = [msg |-> e.msg, pdus |-> e.pdus, cur |-> e.cur, retry |-> e.retry + 1]
        <3>1. \A r \in Entries : [r EXCEPT !.retry = r.retry + 1]
                = [msg |-> r.msg, pdus |-> r.pdus, cur |-> r.cur, retry |-> r.retry + 1]
            BY DEF Entries
        <3> QED
            BY <1>2, <3>1
    <2>3. /\ f.msg = e.msg /\ f.pdus = e.pdus /\ f.cur = e.cur /\ f.retry = e.retry + 1
        BY <2>2
    <2>4. f \in Entries
        BY <1>2, <2>1, <2>2 DEF Entries
    <2> QED
        BY <2>1, <2>3, <2>4
<1>4. /\ txq' \in Seq(Entries) /\ DOMAIN txq' = DOMAIN txq /\ txq' # <<>>
      /\ txq'[1] = f /\ Head(txq') = f
      /\ \A q \in DOMAIN txq : q # 1 => txq'[q] = txq[q]
    <2>1. txq' = [txq EXCEPT ![1] = f]
        BY <1>1, <1>2
    <2> HIDE DEF e, f
    <2> QED
        BY <1>2, <1>3, <2>1
<1>5. \A q \in DOMAIN txq : /\ txq'[q].msg = txq[q].msg /\ txq'[q].pdus = txq[q].pdus
                            /\ txq'[q].cur = txq[q].cur
    BY <1>3, <1>4
<1> HIDE DEF e, f
<1>6. TypeOK'
    BY <1>1, <1>2, <1>4, <1>5 DEF TypeOK
<1>7. QueueInv'
    BY <1>1, <1>2, <1>3, <1>4, <1>6
       DEF QueueInv, QueueIsServed, OneSubmitAtATime, RetryIsOfHead, NoQueue
<1>8. \A m : Known(m)' = Known(m)
    BY <1>1 DEF Known, Yes
<1>9. EntriesOK'
    <2> SUFFICES ASSUME NEW q \in DOMAIN txq' PROVE EntryOK(txq[q], Known(txq[q].msg))'
        BY DEF EntriesOK
    <2>1. EntryOK(txq[q], Known(txq[q].msg))
        BY <1>4 DEF IInv, StoreInv, EntriesOK
    <2>2. Known(txq[q].msg)' = Known(txq[q].msg)
        BY <1>4, <1>5, <1>8
    <2> QED
        BY <1>4, <1>5, <2>1, <2>2 DEF EntryOK, Final
<1>10. OutboxIsQueue' /\ SameOrder' /\ Distinct(txq') /\ Distinct(disk') /\ Stored'
    <2>1. Distinct(txq') /\ Distinct(disk')
        <3>1. Distinct(txq) /\ Distinct(disk)
            BY DEF IInv, StoreInv
        <3> QED
            BY <1>1, <1>4, <1>5, <3>1 DEF Distinct
    <2>2. SameOrder'
        BY <1>1, <1>4, <1>5 DEF IInv, StoreInv, SameOrder
    <2>3. OutboxIsQueue'
        BY <1>1, <1>4, <1>5 DEF IInv, StoreInv, OutboxIsQueue, FirstLeft, Final
    <2>4. Stored'
        BY <1>1 DEF IInv, StoreInv, Stored
    <2> QED
        BY <2>1, <2>2, <2>3, <2>4
<1>11. DirsOK'
    BY <1>1, <1>8 DEF IInv, StoreInv, DirsOK
<1> QED
    BY <1>7, <1>8, <1>9, <1>10, <1>11 DEF IInv, StoreInv

LEMMA FinishedStep == ASSUME IInv, tx_finished PROVE IInv'
<1> DEFINE e == Head(txq)
<1>1. active /\ e = txq[1] /\ txq[1].msg \in Messages
    BY AtTheHead DEF tx_finished
<1>2. CASE Sent
    <2>1. confirmed' = [confirmed EXCEPT ![e.msg] = @ \cup {e.pdus[e.cur + 1]}]
        BY <1>2 DEF Sent, Confirm
    <2>2. CASE /\ e.cur + 1 < Len(e.pdus)
               /\ txq' = [txq EXCEPT ![1].cur = @ + 1, ![1].retry = 0]
               /\ disk' = backup_remove(e)
               /\ tx_source' = "now"
               /\ UNCHANGED <<empty, outcome, torn>>
        BY <1>1, <2>1, <2>2, SentStep
    <2>3. CASE IsLast(e) /\ Finish("sent")
        BY <1>1, <2>1, <2>3, LastSentStep DEF IsLast
    <2> QED
        BY <1>2, <2>2, <2>3, Zenon DEF Sent
<1>3. CASE KeepForLater /\ UNCHANGED confirmed
    <2>1. UNCHANGED <<up, txq, backup, history>> /\ UNCHANGED <<registered, removals, tx_source>>
        BY <1>3 DEF KeepForLater, tx_finished, history
    <2>2. StoreInv'
        BY <2>1, SameStore
    <2>3. TypeOK'
        BY <2>1 DEF IInv, QueueInv, TypeOK, tx_finished, backup, history
    <2> QED
        BY <1>3, <2>1, <2>2, <2>3 DEF IInv, QueueInv, QueueIsServed, OneSubmitAtATime, RetryIsOfHead,
                                      NoQueue, KeepForLater, tx_finished
<1>4. CASE Retry /\ UNCHANGED confirmed
    BY <1>4, RetryStep
<1>5. CASE Finish("failed") /\ UNCHANGED confirmed
    BY <1>5, GiveUpStep
<1> QED
    BY <1>2, <1>3, <1>4, <1>5 DEF tx_finished

-----------------------------------------------------------------------------
(* The atom goes and comes.                                                *)

\* The directories, once the entries are gone: what was confirmed is what was
\* sent before the first file left.
LEMMA LeftOnDisk ==
    ASSUME IInv, up
    PROVE  \A i \in DOMAIN disk : DirOK(disk[i], Known(disk[i].msg), FALSE)
<1> SUFFICES ASSUME NEW i \in DOMAIN disk PROVE DirOK(disk[i], Known(disk[i].msg), FALSE)
    OBVIOUS
<1>1. TypeOK /\ up = TRUE
    BY DEF IInv, QueueInv, TypeOK
<1>2. PICK p \in DOMAIN txq : txq[p].msg = disk[i].msg
    BY <1>1 DEF IInv, StoreInv, OutboxIsQueue
<1> DEFINE e == txq[p]
           m == disk[i].msg
           first == FirstLeft(e)
<1>3. e \in Entries /\ m \in Exposed /\ e.cur < Len(e.pdus) /\ e.msg = m
    BY <1>1, <1>2, Members DEF TypeOK
<1>4. PICK j \in DOMAIN disk : disk[j].msg = m /\ disk[j].files = first .. Final(e)
    BY <1>2, <1>3 DEF IInv, StoreInv, OutboxIsQueue
<1>5. disk[i].files = first .. Final(e)
    BY <1>4 DEF IInv, StoreInv, Distinct
<1>6. EntryOK(e, Known(m))
    BY <1>2 DEF IInv, StoreInv, EntriesOK
<1>7. e.pdus \in Seq(Nat) /\ e.cur \in Nat
    BY <1>3 DEF Entries
<1> HIDE DEF e, m
<1> DEFINE next == e.pdus[e.cur + 1]
<1>8. /\ next = e.pdus[1] + e.cur /\ e.pdus[1] \in Nat /\ Final(e) \in Nat /\ next \in Nat
      /\ next <= Final(e)
    <2>1. 1 \in 1 .. Len(e.pdus) /\ e.cur + 1 \in 1 .. Len(e.pdus) /\ Len(e.pdus) \in 1 .. Len(e.pdus)
        BY <1>3, <1>7
    <2>2. next = e.pdus[1] + (e.cur + 1) - 1
        BY <2>1, <1>6, <1>7 DEF EntryOK
    <2>3. e.pdus[1] \in Nat /\ Final(e) \in Nat
        BY <1>7, <2>1 DEF Final
    <2>4. next <= Final(e)
        BY <1>6 DEF EntryOK, Rest
    <2> HIDE DEF next
    <2>5. next = e.pdus[1] + e.cur
        BY ONLY <1>7, <2>2, <2>3
    <2>6. next \in Nat
        BY ONLY <1>7, <2>3, <2>5
    <2> QED
        BY ONLY <2>3, <2>4, <2>5, <2>6
<1>9. first = IF e.cur > e.pdus[1] THEN e.cur ELSE e.pdus[1]
    BY DEF FirstLeft
<1>10. /\ Rest(Known(m), next, Final(e))
       /\ Known(m).restores = 0 => e.pdus[1] = 0
       /\ Known(m).restores = 0 => Known(m).confirmed = 0 .. next - 1
    BY <1>6 DEF EntryOK
<1> HIDE DEF first, next
<1>11. first \in Nat /\ first <= next /\ first <= Final(e)
    BY SMTT(20), <1>7, <1>8, <1>9
<1>12. 0 .. first - 1 \subseteq 0 .. next - 1
    BY <1>8, <1>11
<1>13. Rest(Known(m), first, Final(e))
    BY <1>10, <1>11, <1>12 DEF Rest
<1>14. Known(m).restores = 0 => first = next
    BY <1>7, <1>8, <1>9, <1>10
<1> QED
    BY <1>5, <1>8, <1>10, <1>11, <1>13, <1>14 DEF DirOK, m

LEMMA GoneQueue ==
    ASSUME IInv, Gone, TypeOK'
    PROVE  QueueInv'
    BY DEF Gone, QueueInv, QueueIsServed, OneSubmitAtATime, RetryIsOfHead, NoQueue

LEMMA RemoveStep == ASSUME IInv, sms_remove PROVE IInv'
<1>1. /\ TypeOK /\ Gone /\ up /\ disk' = disk /\ up' = FALSE /\ txq' = <<>>
      /\ UNCHANGED <<empty, size, accepted, confirmed, restores, outcome, torn>>
    BY DEF sms_remove, Gone, backup, history, IInv, QueueInv
<1>2. TypeOK'
    <2>1. removals' \in 0 .. MaxRemovals
        BY <1>1, SmsTxAssumption DEF TypeOK, Gone
    <2>2. txq' \in Seq(Entries) /\ \A q \in DOMAIN txq' : FALSE
        BY <1>1
    <2> QED
        BY <1>1, <2>1, <2>2 DEF TypeOK, Gone
<1>3. \A m : Known(m)' = Known(m)
    BY <1>1 DEF Known, Yes
<1>4. DirsOK'
    BY <1>1, <1>3, LeftOnDisk DEF DirsOK
<1>5. \A q \in DOMAIN txq' : FALSE
    BY <1>1
<1>6. /\ Distinct(txq') /\ Distinct(disk') /\ SameOrder' /\ OutboxIsQueue' /\ EntriesOK' /\ Stored'
    BY <1>1, <1>5 DEF Distinct, SameOrder, OutboxIsQueue, EntriesOK, Stored, IInv, StoreInv
<1> QED
    BY <1>1, <1>2, <1>3, <1>4, <1>6, GoneQueue DEF IInv, StoreInv

LEMMA KilledStep ==
    ASSUME IInv, NEW m \in Messages, NEW n \in 1 .. MaxParts, NEW k \in 1 .. n,
           txq_submit_killed(m, k, n)
    PROVE  IInv'
<1> DEFINE d == Dir(m, 0 .. k - 1)
<1>1. /\ TypeOK /\ Gone /\ up /\ up' = FALSE /\ txq' = <<>> /\ m \in Exposed /\ size[m] = 0
      /\ UNCHANGED <<accepted, confirmed, restores, outcome, torn>>
    BY DEF txq_submit_killed, Gone, IInv, QueueInv
<1>2. d \in Dirs /\ d.msg = m /\ d.files = 0 .. k - 1
    BY <1>1 DEF Dir, Dirs
<1>3. disk' = Append(disk, d) /\ size' = [size EXCEPT ![m] = n] /\ empty' = empty
    BY DEF txq_submit_killed
<1> HIDE DEF d
<1>4. /\ DOMAIN disk' = DOMAIN disk \cup {Len(disk) + 1} /\ disk'[Len(disk) + 1] = d
      /\ \A i \in DOMAIN disk : disk'[i] = disk[i]
      /\ disk' \in Seq(Dirs)
    BY <1>1, <1>2, <1>3, Appended DEF TypeOK
<1>5. /\ \A i \in DOMAIN disk : disk[i].msg # m
      /\ m \notin accepted /\ confirmed[m] = {} /\ restores[m] = 0 /\ outcome[m] = "none"
      /\ m \notin torn /\ m \notin empty
    BY <1>1, Unsubmitted
<1>6. \A q \in DOMAIN txq' : FALSE
    BY <1>1
<1>7. TypeOK'
    <2>1. removals' \in 0 .. MaxRemovals
        BY <1>1, SmsTxAssumption DEF TypeOK, Gone
    <2>2. txq' \in Seq(Entries)
        BY <1>1
    <2>3. size' \in [Messages -> 0 .. MaxParts]
        BY <1>1, <1>3, SmsTxAssumption DEF TypeOK
    <2> QED
        BY <1>1, <1>3, <1>4, <1>6, <2>1, <2>2, <2>3 DEF TypeOK, Gone
<1>8. \A g \in Messages \ {m} : Known(g)' = Known(g)
    BY <1>1, <1>3 DEF Known, Yes, TypeOK
<1>9. Known(m)' = [size |-> n, accepted |-> "no", confirmed |-> {}, restores |-> 0,
                   outcome |-> "none", torn |-> "no", empty |-> "no"]
    <2>1. /\ size'[m] = n /\ confirmed'[m] = {} /\ restores'[m] = 0 /\ outcome'[m] = "none"
        BY <1>1, <1>3, <1>5 DEF TypeOK
    <2>2. m \notin accepted' /\ m \notin torn' /\ m \notin empty'
        BY <1>1, <1>3, <1>5
    <2> QED
        BY <2>1, <2>2, Zenon DEF Known, Yes
<1>10. DirsOK'
    <2>1. DirOK(d, Known(m)', FALSE)
        <3>1. 0 \in Nat /\ k - 1 \in Nat /\ 0 <= k - 1 /\ k - 1 < n
            BY SmsTxAssumption
        <3>2. Rest(Known(m)', 0, k - 1)
            BY <1>9, <3>1 DEF Rest
        <3>3. Known(m)'.confirmed = 0 .. 0 - 1
            BY <1>9
        <3> QED
            BY <1>2, <3>1, <3>2, <3>3 DEF DirOK
    <2>2. ASSUME NEW i \in DOMAIN disk PROVE DirOK(disk[i], Known(disk[i].msg), up)'
        <3>1. DirOK(disk[i], Known(disk[i].msg), FALSE)
            BY <1>1, LeftOnDisk
        <3>2. disk'[i] = disk[i] /\ disk[i].msg \in Messages \ {m}
            BY <1>1, <1>4, <1>5, Members
        <3> QED
            BY <1>1, <1>8, <3>1, <3>2
    <2> QED
        BY <1>1, <1>2, <1>4, <2>1, <2>2 DEF DirsOK
<1>11. Distinct(disk') /\ Stored'
    <2>1. Distinct(disk')
        BY <1>1, <1>2, <1>4, <1>5 DEF Distinct, IInv, StoreInv
    <2>2. \A g \in accepted \cap Exposed : g # m /\ size'[g] = size[g]
        BY <1>1, <1>3, <1>5, SmsTxAssumption DEF TypeOK
    <2> QED
        BY <1>1, <1>4, <2>1, <2>2 DEF Stored, IInv, StoreInv
<1>12. Distinct(txq') /\ SameOrder' /\ OutboxIsQueue' /\ EntriesOK'
    BY <1>1, <1>6 DEF Distinct, SameOrder, OutboxIsQueue, EntriesOK
<1>13. \A g \in Messages : MessageOK(Known(g))'
    <2>1. MessageOK(Known(m)')
        BY <1>9 DEF MessageOK
    <2> QED
        BY <1>8, <2>1 DEF IInv, StoreInv
<1> QED
    BY <1>1, <1>7, <1>10, <1>11, <1>12, <1>13, GoneQueue DEF IInv, StoreInv

\* The files of a message in the queue.
LEMMA FilesOfEntry ==
    ASSUME IInv, NEW p \in DOMAIN txq, txq[p].msg \in Exposed
    PROVE  /\ \E i \in DOMAIN disk : disk[i].msg = txq[p].msg
           /\ FilesOf(txq[p].msg) = FirstLeft(txq[p]) .. Final(txq[p])
<1>1. PICK i \in DOMAIN disk : /\ disk[i].msg = txq[p].msg
                               /\ disk[i].files = FirstLeft(txq[p]) .. Final(txq[p])
    BY DEF IInv, StoreInv, OutboxIsQueue
<1>2. At(disk, txq[p].msg) = {i}
    BY <1>1 DEF At, IInv, StoreInv, Distinct
<1> QED
    BY <1>1, <1>2 DEF FilesOf

\* The entry of a message that is removed: where it is in its PDUs.
LEMMA EntryAt ==
    ASSUME IInv, NEW p \in DOMAIN txq
    PROVE  /\ txq[p].cur \in Nat /\ txq[p].pdus[1] \in Nat /\ Final(txq[p]) \in Nat
           /\ txq[p].pdus[txq[p].cur + 1] = txq[p].pdus[1] + txq[p].cur
           /\ txq[p].pdus[txq[p].cur + 1] <= Final(txq[p])
           /\ txq[p].cur + 1 = Len(txq[p].pdus) => Final(txq[p]) = txq[p].pdus[1] + txq[p].cur
<1> DEFINE e == txq[p]
<1>1. e.pdus \in Seq(Nat) /\ e.cur \in Nat /\ e.cur < Len(e.pdus)
    BY Members DEF IInv, QueueInv, TypeOK, Entries
<1>2. EntryOK(e, Known(e.msg))
    BY DEF IInv, StoreInv, EntriesOK
<1> HIDE DEF e
<1>3. 1 \in 1 .. Len(e.pdus) /\ e.cur + 1 \in 1 .. Len(e.pdus) /\ Len(e.pdus) \in 1 .. Len(e.pdus)
    BY <1>1
<1>4. e.pdus[e.cur + 1] = e.pdus[1] + (e.cur + 1) - 1
    BY <1>1, <1>2, <1>3 DEF EntryOK
<1>5. e.pdus[1] \in Nat /\ Final(e) \in Nat
    BY <1>1, <1>3 DEF Final
<1>6. e.pdus[e.cur + 1] <= Final(e)
    BY <1>2 DEF EntryOK, Rest
<1>7. e.cur + 1 = Len(e.pdus) => Final(e) = e.pdus[e.cur + 1]
    BY DEF Final
<1>8. e.pdus[e.cur + 1] = e.pdus[1] + e.cur
    BY <1>1, <1>4, <1>5
<1> QED
    BY <1>1, <1>5, <1>6, <1>7, <1>8 DEF e

\* Whatever a kill leaves of one directory, the others are as they were.
LEMMA KillKeepsStore ==
    ASSUME IInv, Gone, NEW gone \in Exposed, NEW i \in DOMAIN disk, disk[i].msg = gone,
           NEW files \in SUBSET Nat, Leaves(gone, files),
           UNCHANGED <<size, accepted, restores>>,
           confirmed' \in [Messages -> SUBSET Nat],
           outcome' \in [Messages -> {"none", "sent", "failed", "cancelled"}],
           torn' \subseteq Exposed,
           \A m \in Messages \ {gone} : /\ confirmed'[m] = confirmed[m] /\ outcome'[m] = outcome[m]
                                        /\ m \in torn' <=> m \in torn,
           files # {} => DirOK(Dir(gone, files), Known(gone)', FALSE),
           MessageOK(Known(gone)')
    PROVE  IInv'
<1> DEFINE d == Dir(gone, files)
<1>1. /\ TypeOK /\ up /\ up' = FALSE /\ txq' = <<>> /\ gone \in Messages
      /\ disk \in Seq(Dirs) /\ DOMAIN disk = 1 .. Len(disk) /\ Len(disk) \in Nat
      /\ Distinct(disk)
    BY Members, SmsTxAssumption DEF Gone, IInv, QueueInv, StoreInv, TypeOK
<1>2. d \in Dirs /\ d.msg = gone /\ d.files = files
    BY DEF Dir, Dirs
<1> HIDE DEF d
<1>3. /\ disk' = IF files = {} THEN Without(disk, gone)
                 ELSE [j \in DOMAIN disk |-> IF disk[j].msg = gone THEN d ELSE disk[j]]
      /\ empty' = IF files = {} THEN empty \cup {gone} ELSE empty
    BY DEF Leaves, d
<1>4. /\ disk' \in Seq(Dirs) /\ Distinct(disk')
      /\ \A j \in DOMAIN disk' : \/ disk'[j] = d /\ files # {}
                                 \/ disk'[j].msg # gone /\ \E k \in DOMAIN disk : disk'[j] = disk[k]
      /\ \A k \in DOMAIN disk : disk[k].msg # gone \/ files # {} =>
            \E j \in DOMAIN disk' : disk'[j].msg = disk[k].msg
    <2>1. CASE files = {}
        <3>1. disk' \in Seq(Dirs) /\ Removed(disk, i, disk')
            BY <1>1, <1>3, <2>1, WithoutRemoves
        <3>2. PICK was : Shrunk(disk, gone, disk', was)
            BY <1>1, <3>1, RemovedShrinks
        <3>3. Distinct(disk')
            BY <1>1, <3>1, <3>2, ShrunkDistinct
        <3> QED
            BY <2>1, <3>1, <3>2, <3>3 DEF Shrunk
    <2>2. CASE files # {}
        <3>1. disk' = [j \in DOMAIN disk |-> IF disk[j].msg = gone THEN d ELSE disk[j]]
            BY <1>3, <2>2
        <3>2. \A j \in DOMAIN disk : disk'[j] \in Dirs
            BY <1>1, <1>2, <3>1, Members
        <3>3. disk' \in Seq(Dirs) /\ DOMAIN disk' = DOMAIN disk
            BY <1>1, <3>1, <3>2
        <3>4. \A j \in DOMAIN disk : disk'[j].msg = disk[j].msg
            BY <1>2, <3>1
        <3>5. Distinct(disk')
            BY <1>1, <3>3, <3>4 DEF Distinct
        <3> QED
            BY <2>2, <3>1, <3>3, <3>4, <3>5
    <2> QED
        BY <2>1, <2>2
<1>5. \A m \in Messages \ {gone} : Known(m)' = Known(m)
    <2> SUFFICES ASSUME NEW m \in Messages \ {gone} PROVE Known(m)' = Known(m)
        OBVIOUS
    <2>1. (m \in torn') = (m \in torn) /\ (m \in empty') = (m \in empty)
        BY <1>3
    <2>2. /\ confirmed'[m] = confirmed[m] /\ outcome'[m] = outcome[m]
          /\ UNCHANGED <<size, accepted, restores>>
        OBVIOUS
    <2> QED
        BY <2>1, <2>2 DEF Known, Yes
<1>6. \A q \in DOMAIN txq' : FALSE
    BY <1>1
<1>7. TypeOK'
    <2>1. removals' \in 0 .. MaxRemovals
        BY <1>1, SmsTxAssumption DEF TypeOK, Gone
    <2>2. txq' \in Seq(Entries)
        BY <1>1
    <2>3. empty' \subseteq Exposed
        BY <1>1, <1>3 DEF TypeOK
    <2> QED
        BY <1>1, <1>4, <1>6, <2>1, <2>2, <2>3 DEF TypeOK, Gone
<1>8. DirsOK'
    <2> SUFFICES ASSUME NEW j \in DOMAIN disk' PROVE DirOK(disk[j], Known(disk[j].msg), up)'
        BY DEF DirsOK
    <2>1. CASE disk'[j] = d /\ files # {}
        BY <1>1, <1>2, <2>1 DEF d
    <2>2. CASE disk'[j].msg # gone /\ \E k \in DOMAIN disk : disk'[j] = disk[k]
        <3>1. PICK k \in DOMAIN disk : disk'[j] = disk[k]
            BY <2>2
        <3>2. DirOK(disk[k], Known(disk[k].msg), FALSE) /\ disk[k].msg \in Messages \ {gone}
            BY <1>1, <2>2, <3>1, LeftOnDisk, Members
        <3> QED
            BY <1>1, <1>5, <3>1, <3>2
    <2> QED
        BY <1>4, <2>1, <2>2
<1>9. Stored'
    <2> SUFFICES ASSUME NEW m \in accepted \cap Exposed, outcome'[m] = "none"
                 PROVE  (\E j \in DOMAIN disk' : disk'[j].msg = m) \/ confirmed'[m] = 0 .. size[m] - 1
        BY DEF Stored
    <2>1. CASE m = gone /\ files = {}
        <3>1. MessageOK(Known(m)') /\ m \in empty' /\ m \in accepted'
            BY <1>3, <2>1
        <3> QED
            BY <3>1 DEF MessageOK, Known, Yes
    <2>2. CASE m = gone /\ files # {}
        BY <1>4, <2>2
    <2>3. CASE m # gone
        <3>1. m \in Messages /\ outcome[m] = "none" /\ confirmed'[m] = confirmed[m]
            BY <2>3, SmsTxAssumption
        <3>2. (\E k \in DOMAIN disk : disk[k].msg = m) \/ confirmed[m] = 0 .. size[m] - 1
            BY <3>1 DEF IInv, StoreInv, Stored
        <3> QED
            BY <1>4, <2>3, <3>1, <3>2
    <2> QED
        BY <2>1, <2>2, <2>3
<1>10. Distinct(txq') /\ SameOrder' /\ OutboxIsQueue' /\ EntriesOK'
    BY <1>1, <1>6 DEF Distinct, SameOrder, OutboxIsQueue, EntriesOK
<1>11. \A m \in Messages : MessageOK(Known(m))'
    BY <1>5 DEF IInv, StoreInv
<1> QED
    BY <1>4, <1>7, <1>8, <1>9, <1>10, <1>11, GoneQueue DEF IInv, StoreInv

\* ofonod is killed in sms_tx_backup_free: a prefix of the files is left, of a
\* message with its outcome.
LEMMA FreeKilled ==
    ASSUME IInv, Gone, NEW gone \in Exposed, NEW i \in DOMAIN disk, disk[i].msg = gone,
           NEW state \in {"sent", "failed", "cancelled"}, NEW files \in SUBSET Nat,
           free_killed(gone, state, files), UNCHANGED <<size, accepted, restores>>,
           confirmed' \in [Messages -> SUBSET Nat],
           \A m \in Messages \ {gone} : confirmed'[m] = confirmed[m],
           size[gone] # 0, confirmed'[gone] \subseteq 0 .. size[gone] - 1,
           state = "sent" /\ gone \in accepted /\ gone \notin torn =>
                confirmed'[gone] = 0 .. size[gone] - 1,
           files # {} => \E first, last \in Nat :
                /\ files = first .. last /\ last < size[gone]
                /\ 0 .. first - 1 \subseteq confirmed'[gone]
                /\ restores[gone] = 0 => confirmed'[gone] = 0 .. first - 1
    PROVE  IInv'
<1>1. TypeOK /\ gone \in Messages /\ MaxParts \in Nat
    BY SmsTxAssumption DEF IInv, QueueInv
<1>2. outcome' = [outcome EXCEPT ![gone] = state]
    BY DEF free_killed
<1>3. PICK x \in 0 .. MaxParts :
         /\ Leaves(gone, {f \in files : f < x})
         /\ torn' = IF {f \in files : f < x} = {} THEN torn ELSE torn \cup {gone}
    <2>1. PICK l \in {{f \in files : f < y} : y \in 0 .. MaxParts} :
             Leaves(gone, l) /\ torn' = IF l = {} THEN torn ELSE torn \cup {gone}
        BY DEF free_killed
    <2>2. PICK y \in 0 .. MaxParts : l = {f \in files : f < y}
        OBVIOUS
    <2> QED
        BY <2>1, <2>2
<1> DEFINE left == {f \in files : f < x}
<1>4. left \in SUBSET Nat /\ Leaves(gone, left)
    BY <1>3
<1>5. torn' = IF left = {} THEN torn ELSE torn \cup {gone}
    BY <1>3
<1>6. /\ torn' \subseteq Exposed
      /\ \A m \in Messages \ {gone} : m \in torn' <=> m \in torn
    BY <1>1, <1>5 DEF TypeOK
<1>7. /\ outcome' \in [Messages -> {"none", "sent", "failed", "cancelled"}]
      /\ outcome'[gone] = state
      /\ \A m \in Messages \ {gone} : outcome'[m] = outcome[m]
    BY <1>1, <1>2 DEF TypeOK
<1>8. /\ Known(gone)'.size = size[gone] /\ Known(gone)'.confirmed = confirmed'[gone]
      /\ Known(gone)'.restores = restores[gone] /\ Known(gone)'.outcome = state
      /\ Known(gone)'.accepted = "yes" <=> gone \in accepted
      /\ Known(gone)'.torn = "yes" <=> gone \in torn'
      /\ Known(gone)'.torn = "no" <=> gone \notin torn'
    BY <1>7 DEF Known, Yes
<1>9. MessageOK(Known(gone)')
    <2>1. gone \notin torn' => gone \notin torn
        BY <1>5
    <2> QED
        BY <1>8, <2>1 DEF MessageOK
<1>10. left # {} => DirOK(Dir(gone, left), Known(gone)', FALSE)
    <2> SUFFICES ASSUME left # {} PROVE DirOK(Dir(gone, left), Known(gone)', FALSE)
        OBVIOUS
    <2>1. PICK first \in Nat, last \in Nat :
             /\ files = first .. last /\ last < size[gone]
             /\ 0 .. first - 1 \subseteq confirmed'[gone]
             /\ restores[gone] = 0 => confirmed'[gone] = 0 .. first - 1
        OBVIOUS
    <2>2. x \in Nat /\ left = {f \in first .. last : f < x}
        BY <1>1, <2>1
    <2> HIDE DEF left
    <2>3. PICK l \in Nat : first <= l /\ l <= last /\ left = first .. l
        <3> DEFINE l == IF x - 1 < last THEN x - 1 ELSE last
        <3>1. first < x /\ first <= last
            BY <2>2
        <3>2. l \in Nat /\ first <= l /\ l <= last
            BY <2>2, <3>1
        <3>3. left = first .. l
            BY <2>2, <3>1
        <3> QED
            BY <3>2, <3>3
    <2>4. l < size[gone]
        <3>1. size[gone] \in Int
            BY <1>1 DEF TypeOK
        <3>2. last < size[gone] /\ last \in Nat /\ l \in Nat /\ l <= last
            BY <2>1, <2>3
        <3> QED
            BY <3>1, <3>2
    <2>5. Known(gone)'.torn = "yes"
        BY <1>5, <1>8
    <2>6. Rest(Known(gone)', first, l)
        BY <1>8, <2>1, <2>3, <2>4, <2>5 DEF Rest
    <2>7. Dir(gone, left).files = first .. l
        BY <2>3 DEF Dir
    <2> QED
        BY <1>8, <2>1, <2>6, <2>7 DEF DirOK
<1> HIDE DEF left
<1> QED
    BY <1>4, <1>6, <1>7, <1>9, <1>10, KillKeepsStore

LEMMA MadeDirectoryStep ==
    ASSUME IInv, NEW m \in Messages, NEW n \in 1 .. MaxParts, txq_submit_killed(m, 0, n)
    PROVE  IInv'
<1>1. /\ TypeOK /\ Gone /\ up /\ up' = FALSE /\ txq' = <<>> /\ m \in Exposed /\ size[m] = 0
      /\ UNCHANGED <<disk, accepted, confirmed, restores, outcome, torn>>
      /\ empty' = empty \cup {m} /\ size' = [size EXCEPT ![m] = n]
    BY DEF txq_submit_killed, Gone, IInv, QueueInv
<1>2. /\ \A i \in DOMAIN disk : disk[i].msg # m
      /\ m \notin accepted /\ confirmed[m] = {} /\ restores[m] = 0 /\ outcome[m] = "none"
      /\ m \notin torn
    BY <1>1, Unsubmitted
<1>3. \A q \in DOMAIN txq' : FALSE
    BY <1>1
<1>4. TypeOK'
    <2>1. removals' \in 0 .. MaxRemovals
        BY <1>1, SmsTxAssumption DEF TypeOK, Gone
    <2>2. txq' \in Seq(Entries)
        BY <1>1
    <2>3. size' \in [Messages -> 0 .. MaxParts]
        BY <1>1, SmsTxAssumption DEF TypeOK
    <2> QED
        BY <1>1, <1>3, <2>1, <2>2, <2>3 DEF TypeOK, Gone
<1>5. \A g \in Messages \ {m} : Known(g)' = Known(g)
    <2> SUFFICES ASSUME NEW g \in Messages \ {m} PROVE Known(g)' = Known(g)
        OBVIOUS
    <2>1. size'[g] = size[g] /\ (g \in empty') = (g \in empty)
        BY <1>1 DEF TypeOK
    <2> QED
        BY <1>1, <2>1 DEF Known, Yes
<1>6. MessageOK(Known(m)')
    <2>1. size'[m] = n /\ n # 0
        BY <1>1, SmsTxAssumption DEF TypeOK
    <2> QED
        BY <1>1, <1>2, <2>1 DEF MessageOK, Known, Yes
<1>7. DirsOK'
    <2> SUFFICES ASSUME NEW i \in DOMAIN disk PROVE DirOK(disk[i], Known(disk[i].msg), up)'
        BY <1>1 DEF DirsOK
    <2>1. DirOK(disk[i], Known(disk[i].msg), FALSE) /\ disk[i].msg \in Messages \ {m}
        BY <1>1, <1>2, LeftOnDisk, Members
    <2> QED
        BY <1>1, <1>5, <2>1
<1>8. Distinct(disk') /\ Stored'
    <2>1. \A g \in accepted \cap Exposed : g # m /\ size'[g] = size[g]
        BY <1>1, <1>2, SmsTxAssumption DEF TypeOK
    <2> QED
        BY <1>1, <2>1 DEF Stored, IInv, StoreInv
<1>9. Distinct(txq') /\ SameOrder' /\ OutboxIsQueue' /\ EntriesOK'
    BY <1>1, <1>3 DEF Distinct, SameOrder, OutboxIsQueue, EntriesOK
<1>10. \A g \in Messages : MessageOK(Known(g))'
    BY <1>5, <1>6 DEF IInv, StoreInv
<1> QED
    BY <1>1, <1>4, <1>7, <1>8, <1>9, <1>10, GoneQueue DEF IInv, StoreInv

\* What the files of a message in the queue say, as FreeKilled wants it.
LEMMA FilesOfWaiting ==
    ASSUME IInv, NEW p \in DOMAIN txq, NEW gone \in Exposed, gone = txq[p].msg
    PROVE  /\ \E i \in DOMAIN disk : disk[i].msg = gone
           /\ gone \in Messages /\ size[gone] # 0 /\ FilesOf(gone) \in SUBSET Nat
           /\ confirmed[gone] \subseteq 0 .. size[gone] - 1
           /\ \E first, last \in Nat :
                /\ FilesOf(gone) = first .. last /\ last < size[gone]
                /\ 0 .. first - 1 \subseteq confirmed[gone]
                /\ restores[gone] = 0 => confirmed[gone] = 0 .. first - 1
<1> DEFINE e == txq[p]
           first == FirstLeft(e)
           next == e.pdus[e.cur + 1]
<1>1. /\ \E i \in DOMAIN disk : disk[i].msg = gone
      /\ FilesOf(gone) = first .. Final(e)
    BY FilesOfEntry
<1>2. TypeOK /\ gone \in Messages /\ size[gone] # 0
    BY Unsubmitted, SmsTxAssumption DEF IInv, QueueInv
<1>3. confirmed[gone] \subseteq 0 .. size[gone] - 1
    BY <1>2 DEF IInv, StoreInv, MessageOK, Known, Yes
<1>4. /\ e.cur \in Nat /\ e.pdus[1] \in Nat /\ Final(e) \in Nat
      /\ next = e.pdus[1] + e.cur /\ next <= Final(e)
    BY EntryAt
<1>5. /\ Final(e) < size[gone] /\ 0 .. next - 1 \subseteq confirmed[gone]
      /\ restores[gone] = 0 => e.pdus[1] = 0
      /\ restores[gone] <= 1 => confirmed[gone] = 0 .. next - 1
    <2>1. EntryOK(e, Known(gone))
        BY DEF IInv, StoreInv, EntriesOK
    <2> QED
        BY <2>1, KnownEntry
<1>6. first = IF e.cur > e.pdus[1] THEN e.cur ELSE e.pdus[1]
    BY DEF FirstLeft
<1>7. restores[gone] \in Nat
    BY <1>2 DEF TypeOK
<1> HIDE DEF e, first, next
<1>8. first \in Nat /\ first <= next /\ (restores[gone] = 0 => first = next)
    BY <1>4, <1>5, <1>6
<1>9. 0 .. first - 1 \subseteq confirmed[gone]
    BY <1>4, <1>5, <1>8
<1>10. restores[gone] = 0 => confirmed[gone] = 0 .. first - 1
    BY <1>5, <1>7, <1>8
<1>11. FilesOf(gone) \in SUBSET Nat
    BY <1>1, <1>4, <1>8
<1> QED
    BY <1>1, <1>2, <1>3, <1>4, <1>5, <1>8, <1>9, <1>10, <1>11

LEMMA CancelKilledStep == ASSUME IInv, NEW m \in Messages, txq_cancel_killed(m) PROVE IInv'
<1>1. /\ Gone /\ m \in Exposed /\ free_killed(m, "cancelled", FilesOf(m))
      /\ UNCHANGED <<size, accepted, confirmed, restores>>
    BY DEF txq_cancel_killed
<1>2. PICK p \in DOMAIN txq : txq[p].msg = m
    BY DEF txq_cancel_killed, At
<1>3. confirmed \in [Messages -> SUBSET Nat]
    BY DEF IInv, QueueInv, TypeOK
<1> QED
    BY <1>1, <1>2, <1>3, FilesOfWaiting, FreeKilled

LEMMA FailKilledStep ==
    ASSUME IInv, active, Gone, NEW gone \in Exposed, gone = txq[1].msg,
           free_killed(gone, "failed", FilesOf(gone)),
           UNCHANGED <<size, accepted, confirmed, restores>>
    PROVE  IInv'
<1>1. 1 \in DOMAIN txq /\ confirmed \in [Messages -> SUBSET Nat]
    BY AtTheHead DEF TypeOK
<1> QED
    BY <1>1, FilesOfWaiting, FreeKilled

\* The last PDU of the head is confirmed and its file, if it had the number of
\* the PDU, unlinked.
LEMMA LastConfirmed ==
    ASSUME IInv, active, NEW gone \in Exposed, gone = txq[1].msg, IsLast(txq[1]), Confirm
    PROVE  /\ confirmed' \in [Messages -> SUBSET Nat]
           /\ \A m \in Messages \ {gone} : confirmed'[m] = confirmed[m]
           /\ \E i \in DOMAIN disk : disk[i].msg = gone
           /\ gone \in Messages /\ size[gone] \in Nat /\ size[gone] # 0
           /\ FilesOf(gone) \ {txq[1].cur} \in SUBSET Nat
           /\ confirmed'[gone] \subseteq 0 .. size[gone] - 1
           /\ gone \in accepted /\ gone \notin torn => confirmed'[gone] = 0 .. size[gone] - 1
           /\ FilesOf(gone) \ {txq[1].cur} # {} => \E first, last \in Nat :
                /\ FilesOf(gone) \ {txq[1].cur} = first .. last
                /\ first <= last /\ last < size[gone]
                /\ gone \in accepted /\ gone \notin torn => last = size[gone] - 1
                /\ 0 .. first - 1 \subseteq confirmed'[gone]
                /\ restores[gone] # 0
<1> DEFINE e == txq[1]
           f == [cur |-> e.cur + 1, pdus |-> e.pdus]
           last == Final(e)
           files == FilesOf(gone) \ {e.cur}
<1>1. /\ TypeOK /\ 1 \in DOMAIN txq /\ Head(txq) = e
      /\ e.cur + 1 = Len(e.pdus)
    BY AtTheHead DEF IsLast
<1>2. /\ e.cur \in Nat /\ e.pdus[1] \in Nat /\ last \in Nat
      /\ e.pdus[e.cur + 1] = e.pdus[1] + e.cur /\ last = e.pdus[1] + e.cur
    BY <1>1, EntryAt
<1>3. /\ \E i \in DOMAIN disk : disk[i].msg = gone
      /\ FilesOf(gone) = FirstLeft(e) .. last
      /\ gone \in Messages /\ size[gone] # 0
      /\ confirmed[gone] \subseteq 0 .. size[gone] - 1
    BY <1>1, FilesOfEntry, FilesOfWaiting
<1>4. /\ last < size[gone] /\ (gone \in accepted /\ gone \notin torn => last = size[gone] - 1)
      /\ 0 .. last - 1 \subseteq confirmed[gone]
      /\ restores[gone] = 0 => e.pdus[1] = 0
    <2>1. EntryOK(e, Known(gone))
        BY <1>1 DEF IInv, StoreInv, EntriesOK
    <2> QED
        BY <1>2, <2>1, KnownEntry
<1>5. confirmed' = [confirmed EXCEPT ![gone] = @ \cup {e.pdus[e.cur + 1]}]
    BY <1>1 DEF Confirm
<1>6. /\ confirmed' \in [Messages -> SUBSET Nat]
      /\ confirmed'[gone] = confirmed[gone] \cup {last}
      /\ \A m \in Messages \ {gone} : confirmed'[m] = confirmed[m]
      /\ size[gone] \in Nat
    BY <1>1, <1>2, <1>3, <1>5, SMTT(20) DEF TypeOK
<1>7. files = FirstLeft(f) .. last
    <2>1. f.cur = e.cur + 1 /\ f.pdus = e.pdus
        OBVIOUS
    <2> HIDE DEF e, f, last
    <2>2. (FirstLeft(e) .. last) \ {e.cur} = FirstLeft(f) .. last
        BY <1>2, <2>1, WithoutCur
    <2> QED
        BY <1>3, <2>2 DEF e
<1>8. FirstLeft(f) = IF e.cur + 1 > e.pdus[1] THEN e.cur + 1 ELSE e.pdus[1]
    BY DEF FirstLeft
<1> DEFINE first == FirstLeft(f)
<1> HIDE DEF e, f, last, files, first
<1>9. /\ first \in Nat /\ first <= last + 1
      /\ restores[gone] = 0 => first > last
    BY <1>2, <1>4, <1>8 DEF first
<1>10. 0 .. last = (0 .. last - 1) \cup {last} /\ last \in 0 .. size[gone] - 1
    BY <1>2, <1>4, <1>6
<1>11. 0 .. last \subseteq confirmed'[gone] /\ confirmed'[gone] \subseteq 0 .. size[gone] - 1
    BY <1>3, <1>4, <1>6, <1>10
<1>12. gone \in accepted /\ gone \notin torn => confirmed'[gone] = 0 .. size[gone] - 1
    BY <1>4, <1>11
<1>13. 0 .. first - 1 \subseteq confirmed'[gone]
    BY <1>2, <1>9, <1>11
<1>14. files # {} => first <= last
    BY <1>2, <1>7, <1>9 DEF first
<1>15. files \in SUBSET Nat
    BY <1>2, <1>7, <1>9 DEF first
<1>16. files # {} => \E a, b \in Nat :
          /\ files = a .. b /\ a <= b /\ b < size[gone]
          /\ gone \in accepted /\ gone \notin torn => b = size[gone] - 1
          /\ 0 .. a - 1 \subseteq confirmed'[gone] /\ restores[gone] # 0
    <2>1. files = first .. last
        BY <1>7 DEF first
    <2> QED
        BY <1>2, <1>4, <1>9, <1>13, <1>14, <2>1
<1> QED
    BY <1>3, <1>6, <1>11, <1>12, <1>15, <1>16 DEF files, e

LEMMA SentKilledStep ==
    ASSUME IInv, active, Gone, NEW gone \in Exposed, gone = txq[1].msg, IsLast(txq[1]), Confirm,
           free_killed(gone, "sent", FilesOf(gone) \ {txq[1].cur}),
           UNCHANGED <<size, accepted, restores>>
    PROVE  IInv'
<1> DEFINE files == FilesOf(gone) \ {txq[1].cur}
<1>1. /\ confirmed' \in [Messages -> SUBSET Nat]
      /\ \A m \in Messages \ {gone} : confirmed'[m] = confirmed[m]
      /\ \E i \in DOMAIN disk : disk[i].msg = gone
      /\ size[gone] # 0 /\ files \in SUBSET Nat
      /\ confirmed'[gone] \subseteq 0 .. size[gone] - 1
      /\ gone \in accepted /\ gone \notin torn => confirmed'[gone] = 0 .. size[gone] - 1
      /\ files # {} => \E first, last \in Nat :
            /\ files = first .. last /\ last < size[gone]
            /\ 0 .. first - 1 \subseteq confirmed'[gone] /\ restores[gone] # 0
    BY LastConfirmed
<1>2. free_killed(gone, "sent", files)
    OBVIOUS
<1> HIDE DEF files
<1> QED
    BY <1>1, <1>2, FreeKilled

LEMMA UntoldStep ==
    ASSUME IInv, active, Gone, NEW gone \in Exposed, gone = txq[1].msg, IsLast(txq[1]), Confirm,
           Leaves(gone, FilesOf(gone) \ {txq[1].cur}),
           UNCHANGED <<size, accepted, restores, outcome, torn>>
    PROVE  IInv'
<1> DEFINE files == FilesOf(gone) \ {txq[1].cur}
<1>1. /\ confirmed' \in [Messages -> SUBSET Nat]
      /\ \A m \in Messages \ {gone} : confirmed'[m] = confirmed[m]
      /\ \E i \in DOMAIN disk : disk[i].msg = gone
      /\ gone \in Messages /\ size[gone] # 0 /\ files \in SUBSET Nat
      /\ confirmed'[gone] \subseteq 0 .. size[gone] - 1
      /\ gone \in accepted /\ gone \notin torn => confirmed'[gone] = 0 .. size[gone] - 1
      /\ files # {} => \E first, last \in Nat :
            /\ files = first .. last /\ first <= last /\ last < size[gone]
            /\ gone \in accepted /\ gone \notin torn => last = size[gone] - 1
            /\ 0 .. first - 1 \subseteq confirmed'[gone] /\ restores[gone] # 0
    BY LastConfirmed
<1>2. Leaves(gone, files)
    OBVIOUS
<1> HIDE DEF files
<1>3. /\ Known(gone)'.size = size[gone] /\ Known(gone)'.confirmed = confirmed'[gone]
      /\ Known(gone)'.restores = restores[gone] /\ Known(gone)'.outcome = outcome[gone]
      /\ Known(gone)'.accepted = "yes" <=> gone \in accepted
      /\ Known(gone)'.torn = "yes" <=> gone \in torn
      /\ Known(gone)'.torn = "no" <=> gone \notin torn
    BY DEF Known, Yes
<1>4. /\ outcome[gone] = "none" \/ gone \in torn
      /\ gone \in torn => outcome[gone] # "none"
      /\ TypeOK
    <2>1. EntryOK(txq[1], Known(gone)) /\ MessageOK(Known(gone)) /\ TypeOK
        BY <1>1, AtTheHead DEF IInv, StoreInv, EntriesOK
    <2> QED
        BY <2>1, KnownEntry DEF MessageOK, Known, Yes
<1>5. MessageOK(Known(gone)')
    BY <1>1, <1>3, <1>4 DEF MessageOK
<1>6. files # {} => DirOK(Dir(gone, files), Known(gone)', FALSE)
    <2> SUFFICES ASSUME files # {} PROVE DirOK(Dir(gone, files), Known(gone)', FALSE)
        OBVIOUS
    <2>1. PICK first \in Nat, last \in Nat :
            /\ files = first .. last /\ first <= last /\ last < size[gone]
            /\ gone \in accepted /\ gone \notin torn => last = size[gone] - 1
            /\ 0 .. first - 1 \subseteq confirmed'[gone] /\ restores[gone] # 0
        BY <1>1
    <2>2. Rest(Known(gone)', first, last)
        BY <1>3, <1>4, <2>1 DEF Rest
    <2>3. Dir(gone, files).files = first .. last
        BY <2>1 DEF Dir
    <2> QED
        BY <1>3, <2>1, <2>2, <2>3 DEF DirOK
<1> QED
    BY <1>1, <1>2, <1>4, <1>5, <1>6, KillKeepsStore DEF TypeOK

\* ofonod is killed in tx_finished.
LEMMA FinishedKilledStep == ASSUME IInv, tx_finished_killed PROVE IInv'
<1> DEFINE gone == txq[1].msg
           files == FilesOf(gone) \ {txq[1].cur}
<1>1. active /\ Gone /\ Head(txq) = txq[1] /\ UNCHANGED <<size, accepted, restores>>
    BY AtTheHead DEF tx_finished_killed
<1>2. gone \in Exposed
    BY <1>1 DEF tx_finished_killed
<1>3. CASE IsLast(txq[1]) /\ Confirm /\ Leaves(gone, files) /\ UNCHANGED <<outcome, torn>>
    BY <1>1, <1>2, <1>3, UntoldStep
<1>4. CASE IsLast(txq[1]) /\ Confirm /\ free_killed(gone, "sent", files)
    BY <1>1, <1>2, <1>4, SentKilledStep
<1>5. CASE free_killed(gone, "failed", FilesOf(gone)) /\ UNCHANGED confirmed
    BY <1>1, <1>2, <1>5, FailKilledStep
<1> QED
    BY <1>1, <1>3, <1>4, <1>5 DEF tx_finished_killed

\* An entry read back from the files of an interval.
Restored(e, m, first, last) ==
    /\ e \in Entries /\ e.msg = m /\ e.cur = 0 /\ 0 < Len(e.pdus)
    /\ e.pdus[1] = first /\ Final(e) = last /\ FirstLeft(e) = first
    /\ \A j \in 1 .. Len(e.pdus) : e.pdus[j] = e.pdus[1] + j - 1

LEMMA RestoredEntry ==
    ASSUME NEW m \in Messages, NEW first \in Nat, NEW last \in Nat, first <= last
    PROVE  Restored(Entry(m, Up(first .. last)), m, first, last)
<1> DEFINE e == Entry(m, Up(first .. last))
<1> DEFINE n == last - first + 1
           pdus == [j \in 1 .. n |-> first + j - 1]
<1>1. Up(first .. last) = pdus
    BY UpOfInterval
<1>2. n \in Nat /\ 1 <= n /\ 0 \in 0 .. TXQ_MAX_RETRIES - 1 /\ first + n - 1 = last
    BY SmsTxAssumption
<1>3. e = [msg |-> m, pdus |-> pdus, cur |-> 0, retry |-> 0]
    BY <1>1 DEF Entry
<1> HIDE DEF n, e
<1>4. pdus \in Seq(Nat) /\ Len(pdus) = n /\ \A j \in 1 .. n : pdus[j] = first + j - 1
    BY <1>2
<1> HIDE DEF pdus
<1>5. e \in Entries /\ e.msg = m /\ e.cur = 0 /\ e.pdus = pdus
    BY <1>2, <1>3, <1>4 DEF Entries
<1>6. pdus[1] = first /\ pdus[n] = last
    BY <1>2, <1>4
<1>7. FirstLeft(e) = IF 0 > first THEN 0 ELSE first
    BY <1>5, <1>6 DEF FirstLeft
<1> QED
    BY <1>2, <1>4, <1>5, <1>6, <1>7 DEF Final, Restored, e

LEMMA RegisterStep ==
    ASSUME IInv, NEW status \in BOOLEAN, ofono_sms_register(status)
    PROVE  IInv'
<1>1. /\ TypeOK /\ up = FALSE /\ up' = TRUE /\ registered' = status
      /\ UNCHANGED <<active, disk, empty, removals, size, accepted, confirmed, outcome, torn>>
      /\ tx_source' = IF disk # <<>> THEN "now" ELSE "none"
      /\ active = FALSE
    BY DEF ofono_sms_register, backup, IInv, QueueInv, TypeOK, NoQueue
<1>2. txq' = [i \in DOMAIN disk |-> Entry(disk[i].msg, Up(disk[i].files))]
    BY DEF ofono_sms_register, restore_tx_queue
<1>3. restores' = [m \in Messages |-> IF At(disk, m) = {} THEN restores[m] ELSE restores[m] + 1]
    BY DEF ofono_sms_register
<1>4. ASSUME NEW i \in DOMAIN disk
      PROVE  \E first, last \in Nat :
                /\ disk[i].files = first .. last
                /\ Rest(Known(disk[i].msg), first, last)
                /\ restores[disk[i].msg] = 0 => confirmed[disk[i].msg] = 0 .. first - 1
                /\ Restored(txq'[i], disk[i].msg, first, last)
    <2>1. DirOK(disk[i], Known(disk[i].msg), FALSE)
        BY <1>1 DEF IInv, StoreInv, DirsOK
    <2>2. PICK first \in Nat, last \in Nat :
             /\ disk[i].files = first .. last
             /\ Rest(Known(disk[i].msg), first, last)
             /\ Known(disk[i].msg).restores = 0 => Known(disk[i].msg).confirmed = 0 .. first - 1
        BY <2>1 DEF DirOK
    <2>3. first <= last /\ disk[i].msg \in Messages
        BY <1>1, <2>2, Members DEF Rest
    <2>4. txq'[i] = Entry(disk[i].msg, Up(first .. last))
        BY <1>2, <2>2
    <2>5. Restored(txq'[i], disk[i].msg, first, last)
        BY <2>3, <2>4, RestoredEntry
    <2>6. restores[disk[i].msg] = 0 => confirmed[disk[i].msg] = 0 .. first - 1
        BY <2>2 DEF Known, Yes
    <2> QED
        BY <2>2, <2>5, <2>6
<1>5. /\ txq' \in Seq(Entries) /\ DOMAIN txq' = DOMAIN disk
      /\ txq' = <<>> <=> disk = <<>>
    <2>1. \A i \in DOMAIN disk : Entry(disk[i].msg, Up(disk[i].files)) \in Entries
        BY <1>2, <1>4 DEF Restored
    <2>2. DOMAIN disk = 1 .. Len(disk) /\ Len(disk) \in Nat
        BY <1>1, Members
    <2>3. txq' \in Seq(Entries) /\ Len(txq') = Len(disk)
        BY <1>2, <2>1, <2>2
    <2>4. DOMAIN txq' = 1 .. Len(txq') /\ (txq' = <<>> <=> Len(txq') = 0)
        BY <2>3
    <2>5. disk = <<>> <=> Len(disk) = 0
        BY <1>1 DEF TypeOK
    <2> QED
        BY <2>2, <2>3, <2>4, <2>5
<1>6. \A i \in DOMAIN txq' : txq'[i].msg = disk[i].msg
    BY <1>4, <1>5 DEF Restored
<1>7. \A i \in DOMAIN disk : restores'[disk[i].msg] = restores[disk[i].msg] + 1
    BY <1>1, <1>3, Members DEF At
<1>8. restores' \in [Messages -> Nat] /\ \A m \in Messages : restores[m] \in Nat
    BY <1>1, <1>3 DEF TypeOK
<1>9. TypeOK'
    <2>1. \A i \in DOMAIN txq' : txq'[i].cur < Len(txq'[i].pdus)
        BY <1>4, <1>5 DEF Restored
    <2> QED
        BY <1>1, <1>5, <1>8, <2>1 DEF TypeOK
<1>10. QueueInv'
    BY <1>1, <1>5, <1>9 DEF QueueInv, QueueIsServed, OneSubmitAtATime, RetryIsOfHead, NoQueue
<1>11. Distinct(txq') /\ Distinct(disk')
    BY <1>1, <1>5, <1>6 DEF Distinct, IInv, StoreInv
<1>12. SameOrder'
    <2>1. Distinct(disk)
        BY DEF IInv, StoreInv
    <2>2. \A i \in DOMAIN disk : \A p \in DOMAIN txq' : txq'[p].msg = disk[i].msg => p = i
        BY <1>5, <1>6, <2>1 DEF Distinct
    <2> QED
        BY <1>1, <2>2 DEF SameOrder
<1>13. OutboxIsQueue'
    <2>1. \A i \in DOMAIN disk : disk[i].files = FirstLeft(txq'[i]) .. Final(txq'[i])
        BY <1>4 DEF Restored
    <2> QED
        BY <1>1, <1>5, <1>6, <2>1 DEF OutboxIsQueue
<1>14. EntriesOK'
    <2> SUFFICES ASSUME NEW i \in DOMAIN txq' PROVE EntryOK(txq[i], Known(txq[i].msg))'
        BY DEF EntriesOK
    <2> DEFINE m == disk[i].msg
               e == txq'[i]
    <2>1. PICK first \in Nat, last \in Nat :
             /\ Rest(Known(m), first, last)
             /\ restores[m] = 0 => confirmed[m] = 0 .. first - 1
             /\ e.msg = m /\ e.cur = 0 /\ e.pdus[1] = first /\ Final(e) = last
             /\ \A j \in 1 .. Len(e.pdus) : e.pdus[j] = e.pdus[1] + j - 1
        BY <1>4, <1>5 DEF Restored
    <2>2. m \in Messages /\ restores[m] \in Nat /\ restores'[m] = restores[m] + 1
        BY <1>1, <1>5, <1>7, <1>8, Members
    <2>3. /\ first <= last /\ last < size[m]
          /\ m \in accepted /\ m \notin torn => last = size[m] - 1
          /\ 0 .. first - 1 \subseteq confirmed[m] /\ (outcome[m] = "none" \/ m \in torn)
        <3>1. /\ Known(m).accepted = "yes" <=> m \in accepted
              /\ Known(m).torn = "yes" <=> m \in torn
              /\ Known(m).torn = "no" <=> m \notin torn
            BY DEF Known, Yes
        <3>2. /\ Known(m).size = size[m] /\ Known(m).confirmed = confirmed[m]
              /\ Known(m).outcome = outcome[m]
            BY DEF Known, Yes
        <3> QED
            BY <2>1, <3>1, <3>2 DEF Rest
    <2> DEFINE k == [size |-> size[m], accepted |-> Yes(m \in accepted), confirmed |-> confirmed[m],
                     restores |-> restores[m] + 1, outcome |-> outcome[m], torn |-> Yes(m \in torn),
                     empty |-> Yes(m \in empty)]
    <2>4. Known(m)' = k /\ disk'[i].msg = m /\ txq'[i].msg = m
        BY <1>1, <1>6, <2>2 DEF Known, Yes
    <2>5. /\ k.accepted = "yes" <=> m \in accepted
          /\ k.torn = "yes" <=> m \in torn
          /\ k.torn = "no" <=> m \notin torn
        BY DEF Yes
    <2>6. /\ k.size = size[m] /\ k.confirmed = confirmed[m] /\ k.outcome = outcome[m]
          /\ k.restores = restores[m] + 1
        OBVIOUS
    <2> HIDE DEF k, e
    <2>7. e.pdus[e.cur + 1] = first
        BY <2>1
    <2>8. Rest(k, first, last)
        BY <2>3, <2>5, <2>6 DEF Rest
    <2>9. k.restores # 0 /\ (k.restores <= 1 => k.confirmed = 0 .. first - 1)
        BY <2>1, <2>2, <2>6
    <2>10. EntryOK(e, k)
        BY <2>1, <2>7, <2>8, <2>9 DEF EntryOK
    <2> QED
        BY <1>1, <2>4, <2>10 DEF e
<1>15. DirsOK'
    <2> SUFFICES ASSUME NEW i \in DOMAIN disk' PROVE DirOK(disk[i], Known(disk[i].msg), up)'
        BY DEF DirsOK
    <2>1. PICK first \in Nat, last \in Nat :
             disk[i].files = first .. last /\ Rest(Known(disk[i].msg), first, last)
        BY <1>1, <1>4
    <2>2. Rest(Known(disk[i].msg), first, last)'
        BY <1>1, <2>1 DEF Rest, Known, Yes
    <2> QED
        BY <1>1, <2>1, <2>2 DEF DirOK
<1>16. Stored'
    BY <1>1 DEF IInv, StoreInv, Stored
<1>17. ASSUME NEW m \in Messages PROVE MessageOK(Known(m))'
    <2>1. size[m] = 0 => restores'[m] = restores[m]
        BY <1>3, Unsubmitted DEF At
    <2> QED
        BY <1>1, <2>1 DEF IInv, StoreInv, MessageOK, Known, Yes
<1> QED
    BY <1>10, <1>11, <1>12, <1>13, <1>14, <1>15, <1>16, <1>17 DEF IInv, StoreInv

-----------------------------------------------------------------------------
(* The theorems.                                                           *)

LEMMA Inductive == Spec => []IInv
<1>1. IInv /\ [Next]_vars => IInv'
    <2> SUFFICES ASSUME IInv, [Next]_vars PROVE IInv'
        OBVIOUS
    <2>1. CASE UNCHANGED vars
        <3>1. /\ UNCHANGED <<up, txq, backup, history>>
              /\ UNCHANGED <<registered, active, tx_source, removals>>
            BY <2>1 DEF vars, queue
        <3>2. StoreInv'
            BY <3>1, SameStore
        <3>3. TypeOK'
            BY <3>1 DEF IInv, QueueInv, TypeOK, backup, history
        <3> QED
            BY <3>1, <3>2, <3>3 DEF IInv, QueueInv, QueueIsServed, OneSubmitAtATime, RetryIsOfHead,
                                    NoQueue
    <2>2. ASSUME NEW m \in Messages, NEW n \in 1 .. MaxParts, txq_submit(m, n) PROVE IInv'
        <3>1. QueueInv'
            BY <2>2, SubmitQueue
        <3>2. StoreInv'
            BY <2>2, <3>1, SubmitStore DEF QueueInv
        <3> QED
            BY <3>1, <3>2 DEF IInv
    <2>3. ASSUME NEW m \in Messages, NEW n \in 1 .. MaxParts, NEW k \in 0 .. n,
                 txq_submit_killed(m, k, n)
          PROVE  IInv'
        <3>1. k = 0 \/ k \in 1 .. n
            BY SmsTxAssumption
        <3> QED
            BY <2>3, <3>1, KilledStep, MadeDirectoryStep
    <2>4. ASSUME NEW m \in Messages, txq_cancel(m) PROVE IInv'
        BY <2>4, CancelStep
    <2>5. CASE tx_next
        BY <2>5, NextStep
    <2>6. CASE tx_finished
        BY <2>6, FinishedStep
    <2>7. ASSUME NEW status \in BOOLEAN, netreg_status_watch(status) PROVE IInv'
        BY <2>7, StatusStep
    <2>8. ASSUME NEW status \in BOOLEAN, ofono_sms_register(status) PROVE IInv'
        BY <2>8, RegisterStep
    <2>9. CASE sms_remove
        BY <2>9, RemoveStep
    <2>10. ASSUME NEW m \in Messages, txq_cancel_killed(m) PROVE IInv'
        BY <2>10, CancelKilledStep
    <2>11. CASE tx_finished_killed
        BY <2>11, FinishedKilledStep
    <2> QED
        BY <2>1, <2>2, <2>3, <2>4, <2>5, <2>6, <2>7, <2>8, <2>9, <2>10, <2>11, Zenon DEF Next
<1> QED
    BY <1>1, Initially, PTL DEF Spec

\* TxQueueRuns: the start conditions of the queue in txq_submit, txq_cancel,
\* tx_finished, netreg_status_watch and sms_restore_tx_queue leave no gap and
\* never submit twice.
THEOREM QueueRuns == Spec => []TxQueueRuns
<1>1. IInv => TxQueueRuns
    BY DEF IInv, QueueInv, TxQueueRuns
<1> QED
    BY <1>1, Inductive, PTL

\* MessagesAccountedFor: the backup on disk (sms_tx_backup_store, _remove and _free,
\* killed between any two of their files) has what was accepted and is not done,
\* and what is read from it is not sent again.
THEOREM NothingLost == Spec => []MessagesAccountedFor
<1>1. IInv => MessagesAccountedFor
    <2> SUFFICES ASSUME IInv PROVE MessagesAccountedFor
        OBVIOUS
    <2>1. TypeOK
        BY DEF IInv, QueueInv
    <2>2. UnsentIsOnDisk
        <3> SUFFICES ASSUME NEW m \in accepted \cap Exposed, outcome[m] = "none"
                     PROVE  (0 .. size[m] - 1) \ confirmed[m] \subseteq FilesOf(m)
            BY DEF UnsentIsOnDisk
        <3>1. CASE confirmed[m] = 0 .. size[m] - 1
            BY <3>1
        <3>2. CASE \E i \in DOMAIN disk : disk[i].msg = m
            <4>1. PICK i \in DOMAIN disk : disk[i].msg = m
                BY <3>2
            <4>2. DirOK(disk[i], Known(m), up) /\ MessageOK(Known(m))
                BY <4>1, SmsTxAssumption DEF IInv, StoreInv, DirsOK
            <4>3. PICK first \in Nat, last \in Nat :
                     disk[i].files = first .. last /\ Rest(Known(m), first, last)
                BY <4>2 DEF DirOK
            <4>4. last = size[m] - 1 /\ 0 .. first - 1 \subseteq confirmed[m]
                BY <4>2, <4>3 DEF Rest, MessageOK, Known, Yes
            <4>5. disk[i].files \subseteq FilesOf(m)
                BY <4>1 DEF FilesOf, At
            <4> QED
                BY <4>3, <4>4, <4>5
        <3> QED
            BY <3>1, <3>2 DEF IInv, StoreInv, Stored
    <2>3. EmptyIsDone
        <3> SUFFICES ASSUME NEW m \in empty \cap accepted, outcome[m] = "none"
                     PROVE  confirmed[m] = 0 .. size[m] - 1
            BY DEF EmptyIsDone
        <3>1. MessageOK(Known(m))
            BY <2>1 DEF IInv, StoreInv, TypeOK
        <3> QED
            BY <3>1 DEF MessageOK, Known, Yes
    <2>4. SentMeansConfirmed
        <3> SUFFICES ASSUME NEW m \in accepted, outcome[m] = "sent", m \notin torn
                     PROVE  confirmed[m] = 0 .. size[m] - 1
            BY DEF SentMeansConfirmed
        <3>1. MessageOK(Known(m))
            BY <2>1 DEF IInv, StoreInv, TypeOK
        <3> QED
            BY <3>1 DEF MessageOK, Known, Yes
    <2>5. NothingSentAgain
        <3> SUFFICES ASSUME active, Head(txq).pdus[Head(txq).cur + 1] \in confirmed[Head(txq).msg]
                     PROVE  restores[Head(txq).msg] > 1
            BY DEF NothingSentAgain
        <3> DEFINE e == txq[1]
        <3>1. /\ Head(txq) = e /\ 1 \in DOMAIN txq /\ e.msg \in Messages
              /\ e.pdus \in Seq(Nat) /\ e.cur + 1 \in DOMAIN e.pdus
            BY AtTheHead
        <3>2. EntryOK(e, Known(e.msg))
            BY <3>1 DEF IInv, StoreInv, EntriesOK
        <3>3. restores[e.msg] <= 1 => confirmed[e.msg] = 0 .. e.pdus[e.cur + 1] - 1
            BY <3>2, KnownEntry
        <3>4. e.pdus[e.cur + 1] \in Nat /\ restores[e.msg] \in Nat
            BY <2>1, <3>1 DEF TypeOK
        <3>5. e.pdus[e.cur + 1] \notin 0 .. e.pdus[e.cur + 1] - 1
            <4> HIDE DEF e
            <4> QED
                BY <3>4, SMTT(20)
        <3>6. e.pdus[e.cur + 1] \in confirmed[e.msg]
            <4> HIDE DEF e
            <4> QED
                BY <3>1, ZenonT(30)
        <3>7. ~(restores[e.msg] <= 1)
            <4> HIDE DEF e
            <4> QED
                BY <3>3, <3>5, <3>6, ZenonT(30)
        <3>8. restores[e.msg] > 1
            <4> HIDE DEF e
            <4> QED
                BY <3>4, <3>7, SMTT(20)
        <3> HIDE DEF e
        <3> QED
            BY <3>1, <3>8, ZenonT(30)
    <2> QED
        BY <2>2, <2>3, <2>4, <2>5 DEF MessagesAccountedFor
<1> QED
    BY <1>1, Inductive, PTL

-----------------------------------------------------------------------------
(* The backup is an outbox.                                                *)

\* The messages of directories, in order.
Msgs(dirs) == [i \in DOMAIN dirs |-> dirs[i].msg]

LEMMA MsgsAre ==
    ASSUME NEW dirs \in Seq(Dirs)
    PROVE  /\ Msgs(dirs) \in Seq(Exposed) /\ Len(Msgs(dirs)) = Len(dirs)
           /\ \A i \in 1 .. Len(dirs) : Msgs(dirs)[i] = dirs[i].msg
<1>1. \A i \in 1 .. Len(dirs) : dirs[i].msg \in Exposed
    <2>1. \A i \in 1 .. Len(dirs) : dirs[i] \in Dirs
        OBVIOUS
    <2> QED
        BY <2>1 DEF Dirs
<1> QED
    BY <1>1 DEF Msgs

LEMMA MsgsRemoved ==
    ASSUME NEW s \in Seq(Dirs), NEW t \in Seq(Dirs), NEW i \in 1 .. Len(s), Removed(s, i, t)
    PROVE  Msgs(t) = RemoveAt(Msgs(s), i)
<1> DEFINE a == Msgs(s)
           b == Msgs(t)
           c == RemoveAt(a, i)
<1>1. /\ a \in Seq(Exposed) /\ Len(a) = Len(s) /\ \A j \in 1 .. Len(s) : a[j] = s[j].msg
      /\ b \in Seq(Exposed) /\ Len(b) = Len(t) /\ \A j \in 1 .. Len(t) : b[j] = t[j].msg
    BY MsgsAre
<1> HIDE DEF a, b
<1>2. c \in Seq(Exposed) /\ Removed(a, i, c)
    BY <1>1, RemoveAtRemoves
<1> HIDE DEF c
<1>3. Len(b) = Len(c)
    BY <1>1, <1>2 DEF Removed
<1>4. ASSUME NEW j \in 1 .. Len(b) PROVE b[j] = c[j]
    <2>1. /\ Old(i, j) \in 1 .. Len(s) /\ t[j] = s[Old(i, j)]
          /\ c[j] = a[Old(i, j)]
        BY <1>1, <1>2, <1>3 DEF Removed
    <2> QED
        BY <1>1, <2>1
<1>5. b = c
    BY <1>1, <1>2, <1>3, <1>4
<1> QED
    BY <1>5 DEF a, b, c

LEMMA MsgsAppended ==
    ASSUME NEW s \in Seq(Dirs), NEW d \in Dirs
    PROVE  Msgs(Append(s, d)) = Append(Msgs(s), d.msg)
<1> DEFINE t == Append(s, d)
           b == Msgs(t)
           c == Append(Msgs(s), d.msg)
<1>1. /\ t \in Seq(Dirs) /\ Len(t) = Len(s) + 1 /\ t[Len(s) + 1] = d
      /\ \A j \in 1 .. Len(s) : t[j] = s[j]
      /\ d.msg \in Exposed
    BY DEF Dirs
<1> HIDE DEF t
<1>2. /\ Msgs(s) \in Seq(Exposed) /\ Len(Msgs(s)) = Len(s)
      /\ \A j \in 1 .. Len(s) : Msgs(s)[j] = s[j].msg
      /\ b \in Seq(Exposed) /\ Len(b) = Len(t) /\ \A j \in 1 .. Len(t) : b[j] = t[j].msg
    BY <1>1, MsgsAre
<1> HIDE DEF b
<1>3. /\ c \in Seq(Exposed) /\ Len(c) = Len(s) + 1 /\ c[Len(s) + 1] = d.msg
      /\ \A j \in 1 .. Len(s) : c[j] = s[j].msg
    BY <1>1, <1>2
<1> HIDE DEF c
<1>4. Len(s) \in Nat /\ Len(b) = Len(c)
    BY <1>1, <1>2, <1>3
<1>5. ASSUME NEW j \in 1 .. Len(b) PROVE b[j] = c[j]
    <2>1. CASE j \in 1 .. Len(s)
        BY <2>1, <1>1, <1>2, <1>3, <1>4
    <2>2. CASE j = Len(s) + 1
        BY <2>2, <1>1, <1>2, <1>3, <1>4
    <2> QED
        BY <1>1, <1>2, <1>4, <2>1, <2>2
<1>6. b = c
    BY <1>2, <1>3, <1>4, <1>5
<1> QED
    BY <1>6 DEF b, c, t

\* What clients heard of their messages, and those they have handed over.
Outcomes(told) == [m \in Exposed |-> told[m]]
Entered(parts) == {m \in Exposed : parts[m] > 0}

OutboxSees == <<Msgs(disk), Outcomes(outcome), Entered(size), removals, torn>>

\* What is in the queue has no outcome, or was torn.
LEMMA OutcomeTold ==
    ASSUME IInv, NEW p \in DOMAIN txq, NEW m \in Exposed, m = txq[p].msg, NEW state,
           outcome' = [outcome EXCEPT ![m] = state]
    PROVE  Outbox!Tell(m, state)
<1>1. TypeOK /\ m \in Messages /\ Exposed \subseteq Messages
    BY SmsTxAssumption DEF IInv, QueueInv
<1>2. EntryOK(txq[p], Known(m))
    BY DEF IInv, StoreInv, EntriesOK
<1>3. outcome[m] = "none" \/ m \in torn
    BY <1>2, KnownEntry
<1>4. Outcomes(outcome') = [Outcomes(outcome) EXCEPT ![m] = state] /\ Outcomes(outcome)[m] = outcome[m]
    BY <1>1 DEF Outcomes, TypeOK
<1> QED
    BY <1>3, <1>4 DEF Outbox!Tell, Outcomes

\* A client's message in the queue has its place in the outbox: the head has
\* the first.
LEMMA PlaceInOutbox ==
    ASSUME IInv, NEW p \in DOMAIN txq, NEW i \in DOMAIN disk, disk[i].msg = txq[p].msg
    PROVE  i \in DOMAIN Msgs(disk) /\ Msgs(disk)[i] = txq[p].msg /\ (p = 1 => i = 1)
<1>1. /\ TypeOK /\ DOMAIN disk = 1 .. Len(disk) /\ DOMAIN txq = 1 .. Len(txq)
      /\ Len(disk) \in Nat /\ Len(txq) \in Nat
    BY Members DEF IInv, QueueInv
<1>2. i \in DOMAIN Msgs(disk) /\ Msgs(disk)[i] = txq[p].msg
    BY DEF Msgs
<1>3. p = 1 => i = 1
    <2> SUFFICES ASSUME p = 1, i # 1 PROVE FALSE
        OBVIOUS
    <2>1. 1 \in DOMAIN disk /\ 1 < i
        BY <1>1
    <2>2. up = TRUE
        BY <1>1 DEF IInv, QueueInv, NoQueue, TypeOK
    <2>3. PICK q \in DOMAIN txq : txq[q].msg = disk[1].msg
        BY <2>1, <2>2 DEF IInv, StoreInv, OutboxIsQueue
    <2>4. q < p
        BY <2>1, <2>3 DEF IInv, StoreInv, SameOrder
    <2> QED
        BY <1>1, <2>3, <2>4
<1> QED
    BY <1>2, <1>3

LEMMA HeadOfOutbox ==
    ASSUME IInv, 1 \in DOMAIN txq, NEW m \in Exposed, m = txq[1].msg
    PROVE  Msgs(disk) # <<>> /\ Head(Msgs(disk)) = m
<1>1. PICK i \in DOMAIN disk : disk[i].msg = txq[1].msg
    BY DEF IInv, StoreInv, OutboxIsQueue
<1>2. 1 \in DOMAIN Msgs(disk) /\ Msgs(disk)[1] = m
    BY <1>1, PlaceInOutbox
<1>3. Msgs(disk) \in Seq(Exposed)
    BY MsgsAre DEF IInv, QueueInv, TypeOK
<1> DEFINE a == Msgs(disk)
<1>4. 1 \in DOMAIN a /\ a[1] = m /\ a \in Seq(Exposed)
    BY <1>2, <1>3
<1> HIDE DEF a
<1>5. a # <<>> /\ Head(a) = m
    BY <1>4
<1> QED
    BY <1>5 DEF a

\* The directory that goes takes the message from the outbox.
LEMMA OutboxTakes ==
    ASSUME IInv, NEW i \in DOMAIN disk, NEW m, m = disk[i].msg,
           disk' \in Seq(Dirs), Removed(disk, i, disk')
    PROVE  Outbox!Take(m)
<1>1. disk \in Seq(Dirs) /\ i \in 1 .. Len(disk)
    BY Members DEF IInv, QueueInv, TypeOK
<1>2. Msgs(disk') = RemoveAt(Msgs(disk), i)
    BY <1>1, MsgsRemoved
<1>3. i \in DOMAIN Msgs(disk) /\ Msgs(disk)[i] = m
    BY DEF Msgs
<1> QED
    BY <1>2, <1>3 DEF Outbox!Take, Outbox!RemoveAt, RemoveAt, Msgs

\* What goes from the queue goes from the outbox, with its outcome.
LEMMA OutboxLoses ==
    ASSUME IInv, NEW p \in DOMAIN txq, NEW gone, gone = txq[p].msg,
           NEW state, remove_entry(p, state)
    PROVE  /\ UNCHANGED torn
           /\ \/ UNCHANGED <<Msgs(disk), Outcomes(outcome)>>
              \/ gone \in Exposed /\ Outbox!Tell(gone, state) /\ Outbox!Take(gone)
<1>1. TypeOK
    BY DEF IInv, QueueInv
<1>2. /\ \/ gone \notin Exposed /\ disk' = disk
         \/ \E i \in DOMAIN disk : /\ disk[i].msg = gone
                                   /\ disk' \in Seq(Dirs) /\ Removed(disk, i, disk')
      /\ outcome' = [outcome EXCEPT ![gone] = state]
      /\ UNCHANGED torn
    BY RemoveEntry, Zenon
<1>3. CASE gone \notin Exposed /\ disk' = disk
    <2>1. Outcomes(outcome') = Outcomes(outcome)
        BY <1>1, <1>2, <1>3, SmsTxAssumption DEF Outcomes, TypeOK
    <2> QED
        BY <1>2, <1>3, <2>1 DEF Msgs, Outcomes
<1>4. CASE \E i \in DOMAIN disk : /\ disk[i].msg = gone
                                  /\ disk' \in Seq(Dirs) /\ Removed(disk, i, disk')
    <2>1. PICK i \in DOMAIN disk : /\ disk[i].msg = gone
                                   /\ disk' \in Seq(Dirs) /\ Removed(disk, i, disk')
        BY <1>4
    <2>2. gone \in Exposed
        BY <1>1, <2>1, Members
    <2>3. Outbox!Take(gone)
        BY <2>1, OutboxTakes
    <2>4. Outbox!Tell(gone, state)
        BY <1>2, <2>2, OutcomeTold
    <2> QED
        BY <1>2, <2>2, <2>3, <2>4
<1> QED
    BY <1>2, <1>3, <1>4

\* The oldest message leaves the outbox by its head.
LEMMA HeadLeaves ==
    ASSUME IInv, 1 \in DOMAIN txq, NEW m \in Exposed, m = txq[1].msg,
           NEW state \in {"sent", "failed"}, Outbox!Tell(m, state), Outbox!Take(m),
           UNCHANGED <<size, torn>>
    PROVE  Outbox!Step
<1>1. Msgs(disk) # <<>> /\ Head(Msgs(disk)) = m
    BY HeadOfOutbox
<1>2. Outbox!Leave(state)
    BY <1>1 DEF Outbox!Leave, Outbox!Tell, Outbox!Take, Msgs
<1> QED
    BY <1>2 DEF Outbox!Step

\* A client's message enters the outbox at its end.
LEMMA MessageAccepted ==
    ASSUME IInv, NEW m \in Exposed, size[m] = 0, NEW k \in Nat, NEW n \in Nat \ {0},
           disk' = Append(disk, Dir(m, 0 .. k - 1)), size' = [size EXCEPT ![m] = n],
           UNCHANGED <<outcome, torn>>
    PROVE  Outbox!Step
<1> DEFINE d == Dir(m, 0 .. k - 1)
<1>1. TypeOK /\ disk \in Seq(Dirs) /\ m \in Messages /\ d \in Dirs /\ d.msg = m
    BY SmsTxAssumption DEF IInv, QueueInv, TypeOK, Dir, Dirs
<1> HIDE DEF d
<1>2. Msgs(disk') = Append(Msgs(disk), m)
    BY <1>1, MsgsAppended DEF d
<1>3. m \notin Entered(size) /\ Entered(size') = Entered(size) \cup {m}
    BY <1>1, SmsTxAssumption DEF Entered, TypeOK
<1>4. Outbox!Accept(m)
    BY <1>2, <1>3 DEF Outbox!Accept, Outbox!Enter, Msgs, Entered
<1> QED
    BY <1>4 DEF Outbox!Step

\* The directory a kill leaves with some files stays in the outbox.
LEMMA LeftInOutbox ==
    ASSUME IInv, NEW p \in DOMAIN txq, NEW m \in Exposed, m = txq[p].msg, NEW files,
           Leaves(m, files)
    PROVE  IF files = {} THEN Outbox!Take(m) ELSE UNCHANGED Msgs(disk)
<1>1. TypeOK /\ disk \in Seq(Dirs) /\ DOMAIN disk = 1 .. Len(disk) /\ Distinct(disk)
    BY Members DEF IInv, QueueInv, StoreInv, TypeOK
<1>2. PICK i \in DOMAIN disk : disk[i].msg = m
    BY DEF IInv, StoreInv, OutboxIsQueue
<1>3. CASE files = {}
    <2>1. disk' = Without(disk, disk[i].msg)
        BY <1>2, <1>3 DEF Leaves
    <2>2. disk' \in Seq(Dirs) /\ Removed(disk, i, disk')
        BY <1>1, <1>2, <2>1, WithoutRemoves
    <2>3. Outbox!Take(m)
        BY <1>2, <2>2, OutboxTakes
    <2> QED
        BY <1>3, <2>3
<1>4. CASE files # {}
    <2>1. DOMAIN disk' = DOMAIN disk /\ \A j \in DOMAIN disk : disk'[j].msg = disk[j].msg
        BY <1>4 DEF Leaves, Dir
    <2> QED
        BY <1>4, <2>1 DEF Msgs
<1> QED
    BY <1>3, <1>4

\* A kill in sms_tx_backup_free: the message is out, or torn.
LEMMA TornStep ==
    ASSUME IInv, Gone, NEW p \in DOMAIN txq, NEW m \in Exposed, m = txq[p].msg,
           NEW state \in {"sent", "failed", "cancelled"}, state # "cancelled" => p = 1,
           NEW files, free_killed(m, state, files), UNCHANGED size
    PROVE  Outbox!Next
<1>1. Outbox!Tell(m, state)
    BY OutcomeTold DEF free_killed
<1>2. PICK x \in 0 .. MaxParts :
         /\ Leaves(m, {f \in files : f < x})
         /\ torn' = IF {f \in files : f < x} = {} THEN torn ELSE torn \cup {m}
    BY DEF free_killed
<1> DEFINE left == {f \in files : f < x}
<1>3. /\ Leaves(m, left) /\ torn' = IF left = {} THEN torn ELSE torn \cup {m}
      /\ removals' = removals + 1
    BY <1>2 DEF Gone
<1> HIDE DEF left
<1>4. CASE left = {}
    <2>1. Outbox!Take(m) /\ UNCHANGED torn
        BY <1>3, <1>4, LeftInOutbox
    <2>2. Outbox!Step
        <3>1. CASE state = "cancelled"
            BY <1>1, <2>1, <3>1 DEF Outbox!Withdraw, Outbox!Step
        <3>2. CASE state # "cancelled"
            <4>1. state \in {"sent", "failed"} /\ 1 \in DOMAIN txq /\ m = txq[1].msg
                BY <3>2
            <4> QED
                BY <1>1, <2>1, <4>1, HeadLeaves
        <3> QED
            BY <3>1, <3>2
    <2> QED
        BY <1>3, <2>2 DEF Outbox!End, Outbox!Next
<1>5. CASE left # {}
    <2>1. UNCHANGED Msgs(disk) /\ torn' = torn \cup {m}
        BY <1>3, <1>5, LeftInOutbox
    <2>2. PICK i \in DOMAIN disk : disk[i].msg = txq[p].msg
        BY DEF IInv, StoreInv, OutboxIsQueue
    <2>3. i \in DOMAIN Msgs(disk) /\ Msgs(disk)[i] = m /\ (state # "cancelled" => i = 1)
        BY <2>2, PlaceInOutbox
    <2> QED
        BY <1>1, <1>3, <2>1, <2>3 DEF Outbox!End, Outbox!Next, Msgs
<1> QED
    BY <1>4, <1>5

\* Every step of the queue is one of the outbox, or none for it.
LEMMA OutboxStep == ASSUME IInv, [Next]_vars PROVE [Outbox!Next]_OutboxSees
<1> USE DEF OutboxSees
<1>1. ASSUME UNCHANGED <<disk, outcome, size, removals, torn>> PROVE UNCHANGED OutboxSees
    BY <1>1
<1>2. ASSUME NEW m \in Messages, NEW n \in 1 .. MaxParts, txq_submit(m, n)
      PROVE  [Outbox!Next]_OutboxSees
    <2>1. n \in Nat \ {0} /\ size[m] = 0 /\ size' = [size EXCEPT ![m] = n]
        BY <1>2, SmsTxAssumption DEF txq_submit
    <2>2. CASE m \in Exposed
        <3>1. Outbox!Step
            BY <1>2, <2>1, <2>2, MessageAccepted DEF txq_submit
        <3> QED
            BY <1>2, <3>1 DEF txq_submit, Outbox!Next
    <2>3. CASE m \notin Exposed
        <3>1. Entered(size') = Entered(size)
            BY <2>1, <2>3, SmsTxAssumption DEF Entered, IInv, QueueInv, TypeOK
        <3> QED
            BY <1>2, <2>3, <3>1 DEF txq_submit, Entered
    <2> QED
        BY <2>2, <2>3
<1>3. ASSUME NEW m \in Messages, NEW n \in 1 .. MaxParts, NEW k \in 0 .. n,
             txq_submit_killed(m, k, n)
      PROVE  Outbox!Next
    <2>1. /\ n \in Nat \ {0} /\ k \in Nat /\ m \in Exposed /\ size[m] = 0
          /\ size' = [size EXCEPT ![m] = n] /\ removals' = removals + 1
          /\ UNCHANGED <<outcome, torn>>
        BY <1>3, SmsTxAssumption DEF txq_submit_killed, Gone
    <2>2. CASE k = 0
        <3>1. disk' = disk
            BY <1>3, <2>2 DEF txq_submit_killed
        <3>2. m \notin Entered(size) /\ Entered(size') = Entered(size) \cup {m}
            BY <2>1, SmsTxAssumption DEF Entered, IInv, QueueInv, TypeOK
        <3> QED
            BY <2>1, <3>1, <3>2 DEF Outbox!Enter, Outbox!End, Outbox!Next, Entered
    <2>3. CASE k # 0
        <3>1. Outbox!Step
            BY <1>3, <2>1, <2>3, MessageAccepted DEF txq_submit_killed
        <3> QED
            BY <2>1, <3>1 DEF Outbox!End, Outbox!Next
    <2> QED
        BY <2>2, <2>3
<1>4. ASSUME NEW m \in Messages, txq_cancel(m)
      PROVE  [Outbox!Next]_OutboxSees
    <2>1. /\ m \in Exposed /\ UNCHANGED <<size, removals>>
          /\ \E p \in DOMAIN txq : txq[p].msg = m /\ remove_entry(p, "cancelled")
        BY <1>4 DEF txq_cancel, At
    <2>2. PICK p \in DOMAIN txq : txq[p].msg = m /\ remove_entry(p, "cancelled")
        BY <2>1
    <2>3. CASE UNCHANGED <<Msgs(disk), Outcomes(outcome), torn>>
        BY <2>1, <2>3
    <2>4. CASE Outbox!Tell(m, "cancelled") /\ Outbox!Take(m) /\ UNCHANGED torn
        BY <2>1, <2>4 DEF Outbox!Withdraw, Outbox!Step, Outbox!Next
    <2> QED
        BY <2>2, <2>3, <2>4, OutboxLoses
<1>5. ASSUME NEW m \in Messages, txq_cancel_killed(m)
      PROVE  Outbox!Next
    <2>1. m \in Exposed /\ \E p \in DOMAIN txq : txq[p].msg = m
        BY <1>5 DEF txq_cancel_killed, At
    <2> QED
        BY <1>5, <2>1, TornStep DEF txq_cancel_killed
<1>6. CASE tx_finished
    <2>1. active /\ 1 \in DOMAIN txq /\ Head(txq) = txq[1] /\ UNCHANGED <<size, removals>>
        BY <1>6, AtTheHead DEF tx_finished
    <2>2. CASE \E state \in {"sent", "failed"} : Finish(state)
        <3>1. PICK state \in {"sent", "failed"} : remove_entry(1, state)
            BY <2>2 DEF Finish
        <3>2. CASE UNCHANGED <<Msgs(disk), Outcomes(outcome), torn>>
            BY <2>1, <3>2
        <3>0. PICK m : m = txq[1].msg
            OBVIOUS
        <3>3. CASE m \in Exposed /\ UNCHANGED torn /\ Outbox!Tell(m, state) /\ Outbox!Take(m)
            <4>1. Outbox!Step
                BY <2>1, <3>0, <3>3, HeadLeaves
            <4> QED
                BY <2>1, <4>1 DEF Outbox!Next
        <3> QED
            BY <2>1, <3>0, <3>1, <3>2, <3>3, OutboxLoses
    <2>3. CASE disk' = backup_remove(txq[1]) /\ UNCHANGED <<outcome, torn>>
        <3>1. DOMAIN disk' = DOMAIN disk /\ \A i \in DOMAIN disk : disk'[i].msg = disk[i].msg
            BY <2>3, Members DEF backup_remove, IInv, QueueInv
        <3>2. UNCHANGED Msgs(disk)
            BY <3>1 DEF Msgs
        <3> QED
            BY <2>1, <2>3, <3>2
    <2>4. CASE UNCHANGED <<disk, outcome, torn>>
        BY <1>1, <2>1, <2>4
    <2> QED
        BY <1>6, <2>1, <2>2, <2>3, <2>4 DEF tx_finished, Sent, KeepForLater, Retry, backup
<1>7. CASE tx_finished_killed
    <2>0. PICK m : m = txq[1].msg
        OBVIOUS
    <2> DEFINE files == FilesOf(m) \ {txq[1].cur}
    <2>1. /\ 1 \in DOMAIN txq /\ Head(txq) = txq[1]
          /\ Gone /\ m \in Exposed /\ UNCHANGED size
        BY <1>7, <2>0, AtTheHead DEF tx_finished_killed
    <2>2. \/ Leaves(m, files) /\ UNCHANGED <<outcome, torn>>
          \/ free_killed(m, "sent", files)
          \/ free_killed(m, "failed", FilesOf(m))
        BY <1>7, <2>0, <2>1 DEF tx_finished_killed
    <2> HIDE DEF files
    <2>3. CASE Leaves(m, files) /\ UNCHANGED <<outcome, torn>>
        <3>1. removals' = removals + 1
            BY <2>1 DEF Gone
        <3>2. CASE files = {}
            <4>1. Outbox!Take(m)
                BY <2>0, <2>1, <2>3, <3>2, LeftInOutbox
            <4>2. Msgs(disk) # <<>> /\ Head(Msgs(disk)) = m
                BY <2>0, <2>1, HeadOfOutbox
            <4> QED
                BY <2>0, <2>1, <2>3, <3>1, <4>1, <4>2 DEF Outbox!End, Outbox!Next, Outbox!Take, Msgs
        <3>3. CASE files # {}
            <4>1. UNCHANGED Msgs(disk)
                BY <2>0, <2>1, <2>3, <3>3, LeftInOutbox
            <4> QED
                BY <2>0, <2>1, <2>3, <3>1, <4>1 DEF Outbox!End, Outbox!Next, Msgs
        <3> QED
            BY <3>2, <3>3
    <2>4. CASE free_killed(m, "sent", files)
        BY <2>0, <2>1, <2>4, TornStep
    <2>5. CASE free_killed(m, "failed", FilesOf(m))
        BY <2>0, <2>1, <2>5, TornStep
    <2> QED
        BY <2>2, <2>3, <2>4, <2>5
<1>8. CASE tx_next
    BY <1>1, <1>8 DEF tx_next, history, backup
<1>9. ASSUME NEW status \in BOOLEAN, netreg_status_watch(status) \/ ofono_sms_register(status)
      PROVE  UNCHANGED OutboxSees
    BY <1>1, <1>9 DEF netreg_status_watch, ofono_sms_register, history, backup
<1>10. CASE sms_remove
    BY <1>10 DEF sms_remove, Gone, history, backup, Outbox!End, Outbox!Next
<1>11. CASE UNCHANGED vars
    BY <1>1, <1>11 DEF vars, history, backup
<1> QED
    BY <1>2, <1>3, <1>4, <1>5, <1>6, <1>7, <1>8, <1>9, <1>10, <1>11, Zenon DEF Next

\* ImplementsOutbox: whatever becomes of ofonod, clients' messages leave the backup
\* in the order they entered it, each with its outcome; what a kill while files
\* are written or removed may change of this is End of SmsOutbox.
THEOREM OutboxKept == Spec => ImplementsOutbox
<1>1. Init => Outbox!Init
    BY SmsTxAssumption DEF Init, Outbox!Init
<1>2. IInv /\ [Next]_vars => [Outbox!Next]_(Outbox!vars)
    BY OutboxStep DEF OutboxSees, Msgs, Outcomes, Entered, Outbox!vars
<1> QED
    BY <1>1, <1>2, Inductive, PTL DEF Spec, ImplementsOutbox, Outbox!Spec
==============================================================================
