---------------------------- MODULE AtChatProofs ----------------------------
(***************************************************************************)
(* Theorems about the AT command queue (AtChat), for any number of clients,*)
(* commands, suspensions, lost wakeups, and timers and prompts that come at*)
(* a wrong time: the channel is never asleep with work to do, nobody is    *)
(* called back twice or after cancelling, and the channel is the FIFO      *)
(* service AtService; while nothing has come at a wrong time it is half    *)
(* duplex and each client hears its own answers.                           *)
(***************************************************************************)
EXTENDS AtChat, TLAPS, WellFoundedInduction, SequenceTheorems

-----------------------------------------------------------------------------
(* The inductive invariant.                                                *)

AllKinds == {"plain", "listing", "prompt"}
AllIds == 0 .. MaxCmds
Cmds == [id : AllIds, gid : Groups \cup {0}, kind : AllKinds, callback : BOOLEAN]
Parts == [id : AllIds, last : BOOLEAN]
Msgs == [what : {"prompt", "line", "ok", "error"}, id : AllIds]

Structs == [open : BOOLEAN, queue : Seq(Cmds), written : 0 .. 4, armed : BOOLEAN,
            suspended : BOOLEAN, lines : Seq(AllIds), wakeup : BOOLEAN,
            wakeup_timer : {"unset", "fresh", "old"}, timer : BOOLEAN, strays : Nat,
            next : 1 .. MaxCmds + 1, cancelled : SUBSET Ids, destroyed : [Ids -> Nat],
            suspends : Nat]

Has(q, i) == \E k \in 1 .. Len(q) : q[k].id = i

\* The wakeups, then the commands of clients in the order of sending.
Increasing(q) ==
    \A j, k \in 1 .. Len(q) :
        j < k => q[j].id < q[k].id \/ (q[j].id = WAKEUP /\ q[k].id = WAKEUP)

InOrder(q, next) ==
    /\ \A k \in 1 .. Len(q) : /\ q[k].id < next
                              /\ q[k].id = WAKEUP => q[k] = Wakeup
    /\ Increasing(q)

\* Each command sent is queued, or held by finish_command, or was destroyed once.
Counted(q, next, destroyed, held) ==
    \A i \in Ids : destroyed[i] = IF i < next /\ ~Has(q, i) /\ i \notin held THEN 1 ELSE 0

\* Only a command that was not cancelled is to be called back.
Callable(q, gone, next) ==
    /\ \A i \in gone : i < next
    /\ \A k \in 1 .. Len(q) : q[k].callback => q[k].id \notin gone

QueueOK(c, held) ==
    /\ InOrder(c.queue, c.next)
    /\ Counted(c.queue, c.next, c.destroyed, held)
    /\ \A i \in held : i \in Ids => i < c.next /\ ~Has(c.queue, i)
    /\ Callable(c.queue, c.cancelled, c.next)
    /\ ~c.open => c.queue = <<>>

\* Wakeups are among the first n of the queue.
WithTimers(q, n) == \A k \in 1 .. Len(q) : q[k].id = WAKEUP => k <= n

\* The writer: how far it is with the head of the queue, and what starts it.
WriterOK(c) ==
    /\ c.queue = <<>> => c.written = 0
    /\ c.queue # <<>> => c.written <= Length(Head(c.queue))
    /\ c.written \in {1, 3} => c.armed
    /\ c.queue # <<>> /\ ~c.suspended /\ c.written = 0 => c.armed \/ Running(c) > 0
    /\ WithTimers(c.queue, Running(c))

\* held is what is being finished.
ChatOK(c, held) == c \in Structs /\ QueueOK(c, held) /\ WriterOK(c)

\* A part of the command, or the end of it, is with the modem.
LastOut(id, parts, msgs) ==
    \/ \E k \in 1 .. Len(parts) : parts[k].id = id /\ parts[k].last
    \/ \E k \in 1 .. Len(msgs) : msgs[k].id = id /\ msgs[k].what \in {"ok", "error"}

PartOut(id, parts, msgs) ==
    \/ \E k \in 1 .. Len(parts) : parts[k].id = id
    \/ \E k \in 1 .. Len(msgs) : msgs[k].id = id /\ msgs[k].what \in {"ok", "error", "prompt"}

\* A client's command that waits has something to wait for.
Awaited(c, parts, msgs) ==
    LET cmd == Head(c.queue)
    IN  c.queue # <<>> /\ cmd.id # WAKEUP =>
            /\ c.written = Length(cmd) => LastOut(cmd.id, parts, msgs)
            /\ c.written = 2 /\ ~c.armed => PartOut(cmd.id, parts, msgs)

\* What is over for its client, by an answer or with the channel.
Settled(c, i) == i < c.next /\ ~Has(c.queue, i) /\ i \notin c.cancelled

Results == [Ids -> {"none", "ok", "error"}]

Hears(results, c) ==
    /\ results \in Results
    /\ \A i \in Ids : results[i] # "none" => Settled(c, i)

\* What the modem has.
ModemType(parts, msgs, answers, ids) ==
    parts \in Seq(Parts) /\ msgs \in Seq(Msgs) /\ answers \in Results /\ ids \subseteq Ids

\* What holds whenever timers and prompts come.
IInv ==
    /\ ChatOK(chat, {})
    /\ ModemType(line, wire, answer, prompted)
    /\ chat.open => Awaited(chat, line, wire)
    /\ Hears(told, chat)
    /\ slips \in 0 .. MaxSlips

\* The writer when none came at a wrong time; ids are the commands prompted.
HalfOK(c, ids) ==
    /\ c.suspended => /\ c.written = 0 /\ ~c.armed
                      /\ c.queue # <<>> => Head(c.queue).id # WAKEUP
    /\ c.written > 2 => Head(c.queue).id \in ids
    /\ c.armed /\ c.written = 2 /\ Length(Head(c.queue)) = 4 => Head(c.queue).id \in ids
    /\ \A i \in 1 .. Len(c.lines) : c.written > 0 /\ c.lines[i] = Head(c.queue).id

\* What the modem has sent, but for prompts nobody asked for.
Spurious == {Msg("prompt", WAKEUP)}
Rest(msgs) == Without(msgs, Spurious)

\* The modem has one part of the head of the queue ...
AskedOne(c, parts, rest) ==
    rest = <<>> /\ \E e \in Parts : /\ parts = <<e>> /\ e.id = Head(c.queue).id
                                    /\ e.last <=> c.written = Length(Head(c.queue))

\* ... has asked for the rest of it ...
PromptedOne(c, parts, rest, ids) ==
    /\ parts = <<>> /\ rest = <<Msg("prompt", Head(c.queue).id)>>
    /\ Head(c.queue).id \in ids /\ Length(Head(c.queue)) = 4 /\ c.written = 2

\* ... or has answered it.
AnsweredOne(c, parts, rest, answers) ==
    LET id == Head(c.queue).id
    IN  parts = <<>> /\ \E what \in {"ok", "error"} :
            \/ rest = <<Msg(what, id)>> /\ (id # WAKEUP => answers[id] = what)
            \/ rest = <<Msg("line", id), Msg(what, id)>> /\ id # WAKEUP /\ answers[id] = what

One(c, parts, rest, answers, ids) ==
    /\ c.written \in {2, 4} /\ (c.armed => c.written = Length(Head(c.queue)))
    /\ AskedOne(c, parts, rest) \/ PromptedOne(c, parts, rest, ids) \/ AnsweredOne(c, parts, rest, answers)

\* Or it has nothing.
ModemOK(c, parts, rest, answers, ids) ==
    (parts = <<>> /\ rest = <<>>) \/ One(c, parts, rest, answers, ids)

HalfDuplex ==
    /\ HalfOK(chat, prompted)
    /\ chat.open => ModemOK(chat, line, Rest(wire), answer, prompted)
    /\ \A i \in Ids : told[i] # "none" => told[i] = answer[i]
    /\ \A p \in heard : p[1] = p[2]

Inv == IInv /\ (slips = 0 => HalfDuplex)

Step == Inv' /\ [Service!Next]_<<Waiting(chat.queue), told>>
-----------------------------------------------------------------------------
(* Sequences, and what is left of them without some elements.              *)

\* Induction over sequences, for a set of them.
LEMMA BySeqInduction ==
    ASSUME NEW S, NEW P, <<>> \in P,
           \A s \in Seq(S), e \in S : s \in P => Append(s, e) \in P
    PROVE  Seq(S) \subseteq P
<1> DEFINE Bad == {n \in Nat : \E s \in Seq(S) : Len(s) = n /\ s \notin P}
<1>1. Bad = {}
    <2> SUFFICES ASSUME Bad # {} PROVE FALSE
        OBVIOUS
    <2>1. PICK n \in Bad : \A j \in Bad : ~(<<j, n>> \in OpToRel(<, Nat))
        BY NatLessThanWellFounded, WFMin, Bad \subseteq Nat
    <2>2. \A j \in Bad : ~(j < n)
        BY <2>1 DEF OpToRel
    <2>3. PICK s \in Seq(S) : Len(s) = n /\ s \notin P
        BY <2>1
    <2>4. s # <<>>
        BY <2>3
    <2>5. PICK t \in Seq(S), e \in S : s = Append(t, e)
        BY <2>4, SequenceEmptyOrAppend
    <2>6. Len(t) \in Nat /\ Len(s) = Len(t) + 1
        BY <2>5, AppendProperties, LenProperties
    <2>7. t \in P
        BY <2>2, <2>3, <2>6
    <2> QED BY <2>3, <2>5, <2>7
<1>2. ASSUME NEW s \in Seq(S) PROVE s \in P
    BY <1>1, LenProperties
<1> QED BY <1>2

\* f is the recursive function of Without.
Leaves(f, q, gone) ==
    f = [i \in 0 .. Len(q) |->
            IF i = 0 THEN <<>>
            ELSE IF q[i] \in gone THEN f[i - 1]
            ELSE Append(f[i - 1], q[i])]

\* What Leaves says of a function for a queue and an element behind it.
LEMMA LeavesMore ==
    ASSUME NEW S, NEW q \in Seq(S), NEW e \in S, NEW gone, NEW f, Leaves(f, q, gone),
           NEW g, g = [i \in 0 .. Len(q) + 1 |->
                         IF i \in 0 .. Len(q) THEN f[i]
                         ELSE IF e \in gone THEN f[Len(q)] ELSE Append(f[Len(q)], e)]
    PROVE  Leaves(g, Append(q, e), gone)
<1> DEFINE r == Append(q, e)
           n == Len(q)
           h == [i \in 0 .. Len(r) |->
                    IF i = 0 THEN <<>>
                    ELSE IF r[i] \in gone THEN g[i - 1]
                    ELSE Append(g[i - 1], r[i])]
<1>1. n \in Nat /\ Len(r) = n + 1 /\ r[n + 1] = e /\ \A i \in 1 .. n : r[i] = q[i]
    BY LenProperties, AppendProperties
<1>2. \A i \in 0 .. n : f[i] = IF i = 0 THEN <<>>
                               ELSE IF q[i] \in gone THEN f[i - 1]
                               ELSE Append(f[i - 1], q[i])
    BY Zenon DEF Leaves
<1> HIDE DEF r, n
<1>3. \A i \in 0 .. n : g[i] = f[i]
    BY <1>1 DEF n
<1>4. g[n + 1] = IF e \in gone THEN f[n] ELSE Append(f[n], e)
    BY <1>1 DEF n
<1>5. ASSUME NEW i \in 0 .. n + 1
      PROVE  g[i] = IF i = 0 THEN <<>>
                    ELSE IF r[i] \in gone THEN g[i - 1]
                    ELSE Append(g[i - 1], r[i])
    <2>1. CASE i = n + 1
        <3>1. i # 0 /\ i - 1 = n /\ n \in 0 .. n
            BY <1>1, <2>1
        <3> QED BY <1>1, <1>3, <1>4, <2>1, <3>1
    <2>2. CASE i = 0
        BY <1>1, <1>2, <1>3, <2>2
    <2>3. CASE i # n + 1 /\ i # 0
        <3>1. i \in 1 .. n /\ i \in 0 .. n /\ i - 1 \in 0 .. n
            BY <1>1, <2>3
        <3> QED BY <1>1, <1>2, <1>3, <2>3, <3>1
    <2> QED BY <2>1, <2>2, <2>3
<1>6. g = h
    BY <1>1, <1>5 DEF n
<1> QED BY <1>6 DEF Leaves, r

\* The function exists, and there is only one.
LEMMA LeavesExists ==
    ASSUME NEW S, NEW q \in Seq(S), NEW gone
    PROVE  \E f : Leaves(f, q, gone)
<1> DEFINE P == {s \in Seq(S) : \E f : Leaves(f, s, gone)}
<1>1. <<>> \in P
    <2> DEFINE z == [i \in 0 .. 0 |-> <<>>]
    <2>1. z = [i \in 0 .. Len(<<>>) |->
                 IF i = 0 THEN <<>>
                 ELSE IF <<>>[i] \in gone THEN z[i - 1]
                 ELSE Append(z[i - 1], <<>>[i])]
        BY EmptySeq
    <2> HIDE DEF z
    <2>2. Leaves(z, <<>>, gone)
        BY <2>1 DEF Leaves
    <2> QED BY <2>2, EmptySeq
<1>2. ASSUME NEW s \in Seq(S), NEW e \in S, s \in P PROVE Append(s, e) \in P
    <2>1. PICK f : Leaves(f, s, gone)
        BY <1>2
    <2> DEFINE g == [i \in 0 .. Len(s) + 1 |->
                         IF i \in 0 .. Len(s) THEN f[i]
                         ELSE IF e \in gone THEN f[Len(s)] ELSE Append(f[Len(s)], e)]
    <2> HIDE DEF g
    <2>2. g = [i \in 0 .. Len(s) + 1 |->
                         IF i \in 0 .. Len(s) THEN f[i]
                         ELSE IF e \in gone THEN f[Len(s)] ELSE Append(f[Len(s)], e)]
        BY Zenon DEF g
    <2>3. Leaves(g, Append(s, e), gone)
        BY <2>1, <2>2, LeavesMore
    <2> QED BY <2>3, AppendProperties
<1> HIDE DEF P
<1>3. Seq(S) \subseteq P
    BY <1>1, <1>2, BySeqInduction
<1> QED BY <1>3 DEF P

LEMMA LeavesAgree ==
    ASSUME NEW n \in Nat, NEW q, NEW r, NEW gone, NEW f, NEW g, Leaves(f, q, gone), Leaves(g, r, gone),
           Len(q) \in Nat, Len(r) \in Nat, n <= Len(q), n <= Len(r),
           \A i \in 1 .. n : q[i] = r[i]
    PROVE  f[n] = g[n]
<1> DEFINE Bad == {k \in Nat : k <= n /\ f[k] # g[k]}
<1>1. Bad = {}
    <2> SUFFICES ASSUME Bad # {} PROVE FALSE
        OBVIOUS
    <2>1. PICK k \in Bad : \A j \in Bad : ~(<<j, k>> \in OpToRel(<, Nat))
        BY NatLessThanWellFounded, WFMin, Bad \subseteq Nat
    <2>2. \A j \in Bad : ~(j < k)
        BY <2>1 DEF OpToRel
    <2>3. k \in 0 .. n /\ k \in 0 .. Len(q) /\ k \in 0 .. Len(r) /\ f[k] # g[k]
        <3>1. k \in Nat /\ k <= n /\ f[k] # g[k]
            BY <2>1
        <3> QED BY <3>1
    <2>4. /\ f[k] = IF k = 0 THEN <<>> ELSE IF q[k] \in gone THEN f[k - 1] ELSE Append(f[k - 1], q[k])
          /\ g[k] = IF k = 0 THEN <<>> ELSE IF r[k] \in gone THEN g[k - 1] ELSE Append(g[k - 1], r[k])
        BY <2>3, Zenon DEF Leaves
    <2>5. k # 0
        BY <2>3, <2>4
    <2>6. k - 1 \in Nat /\ k - 1 < k /\ k - 1 <= n /\ k \in 1 .. n
        BY <2>3, <2>5
    <2>7. f[k - 1] = g[k - 1] /\ q[k] = r[k]
        BY <2>2, <2>6
    <2> QED BY <2>3, <2>4, <2>7
<1> QED BY <1>1

LEMMA WithoutIs ==
    ASSUME NEW S, NEW q \in Seq(S), NEW gone
    PROVE  \E f : Leaves(f, q, gone) /\ Without(q, gone) = f[Len(q)]
<1> DEFINE left == CHOOSE f : f = [i \in 0 .. Len(q) |->
                      IF i = 0 THEN <<>>
                      ELSE IF q[i] \in gone THEN f[i - 1]
                      ELSE Append(f[i - 1], q[i])]
<1>1. Without(q, gone) = left[Len(q)]
    BY DEF Without
<1>2. \E f : Leaves(f, q, gone)
    BY LeavesExists
<1>3. left = CHOOSE f : Leaves(f, q, gone)
    BY DEF Leaves
<1> HIDE DEF left
<1>4. Leaves(left, q, gone)
    BY <1>2, <1>3
<1> QED BY <1>1, <1>4

LEMMA WithoutEmpty == \A gone : Without(<<>>, gone) = <<>>
<1> SUFFICES ASSUME NEW gone PROVE Without(<<>>, gone) = <<>>
    OBVIOUS
<1>1. <<>> \in Seq({}) /\ Len(<<>>) = 0
    BY EmptySeq
<1>2. PICK f : Leaves(f, <<>>, gone) /\ Without(<<>>, gone) = f[Len(<<>>)]
    BY <1>1, WithoutIs
<1>3. f[0] = <<>>
    <2>1. 0 \in 0 .. Len(<<>>)
        BY <1>1
    <2> QED BY <1>2, <2>1, Zenon DEF Leaves
<1> QED BY <1>1, <1>2, <1>3

LEMMA WithoutAppend ==
    ASSUME NEW S, NEW q \in Seq(S), NEW e \in S, NEW gone
    PROVE  Without(Append(q, e), gone) =
                IF e \in gone THEN Without(q, gone) ELSE Append(Without(q, gone), e)
<1> DEFINE r == Append(q, e)
           n == Len(q)
<1>1. /\ n \in Nat /\ r \in Seq(S) /\ Len(r) = n + 1 /\ r[n + 1] = e
      /\ \A i \in 1 .. n : q[i] = r[i]
    BY LenProperties, AppendProperties
<1>2. PICK f : Leaves(f, q, gone) /\ Without(q, gone) = f[n]
    BY WithoutIs
<1> HIDE DEF r, n
<1>3. PICK g : Leaves(g, r, gone) /\ Without(r, gone) = g[Len(r)]
    BY <1>1, WithoutIs
<1>4. f[n] = g[n]
    <2>1. n = Len(q) /\ n <= Len(q) /\ n <= Len(r) /\ Len(r) \in Nat
        BY <1>1 DEF n
    <2> QED BY <1>1, <1>2, <1>3, <2>1, LeavesAgree
<1>5. n + 1 \in 0 .. Len(r) /\ n + 1 # 0 /\ (n + 1) - 1 = n
    BY <1>1
<1>6. g[n + 1] = IF r[n + 1] \in gone THEN g[(n + 1) - 1] ELSE Append(g[(n + 1) - 1], r[n + 1])
    BY <1>3, <1>5, Zenon DEF Leaves
<1> QED BY <1>1, <1>2, <1>3, <1>4, <1>5, <1>6 DEF r

\* Without keeps what is not gone, and nothing else.
LEMMA WithoutKeeps ==
    ASSUME NEW S, NEW q \in Seq(S), NEW gone
    PROVE  LET w == Without(q, gone)
           IN  /\ w \in Seq(S) /\ Len(w) \in Nat /\ Len(w) <= Len(q)
               /\ \A k \in 1 .. Len(w) : w[k] \notin gone /\ \E j \in 1 .. Len(q) : w[k] = q[j]
               /\ \A j \in 1 .. Len(q) : q[j] \notin gone => \E k \in 1 .. Len(w) : w[k] = q[j]
<1> DEFINE Keeps(s, w) ==
                /\ w \in Seq(S) /\ Len(w) <= Len(s)
                /\ \A k \in 1 .. Len(w) : w[k] \notin gone /\ \E j \in 1 .. Len(s) : w[k] = s[j]
                /\ \A j \in 1 .. Len(s) : s[j] \notin gone => \E k \in 1 .. Len(w) : w[k] = s[j]
           P == {s \in Seq(S) : Keeps(s, Without(s, gone))}
<1>1. <<>> \in P
    <2>1. <<>> \in Seq(S) /\ Len(<<>>) = 0
        BY EmptySeq
    <2>2. Keeps(<<>>, <<>>)
        BY <2>1
    <2>3. Without(<<>>, gone) = <<>>
        BY WithoutEmpty
    <2> HIDE DEF Keeps
    <2>4. Keeps(<<>>, Without(<<>>, gone))
        BY <2>2, <2>3
    <2> QED BY <2>1, <2>4
<1>2. ASSUME NEW s \in Seq(S), NEW e \in S, s \in P PROVE Append(s, e) \in P
    <2> DEFINE w == Without(s, gone)
               r == Append(s, e)
               n == Len(s)
               m == Len(w)
    <2>1. Keeps(s, w) /\ w \in Seq(S)
        BY <1>2
    <2>2. /\ n \in Nat /\ r \in Seq(S) /\ Len(r) = n + 1 /\ r[n + 1] = e
          /\ \A i \in 1 .. n : r[i] = s[i]
        BY LenProperties, AppendProperties
    <2>3. m \in Nat /\ m <= n
        BY <2>1, LenProperties
    <2>4. Without(r, gone) = IF e \in gone THEN w ELSE Append(w, e)
        BY WithoutAppend
    <2>5. \A i \in 1 .. n + 1 : i \in 1 .. n \/ i = n + 1
        BY <2>2
    <2>6. \A i \in 1 .. n : i \in 1 .. n + 1
        BY <2>2
    <2>7. n + 1 \in 1 .. n + 1 /\ m + 1 \in 1 .. m + 1 /\ m <= n + 1 /\ m + 1 <= n + 1
        BY <2>2, <2>3
    <2>8. \A k \in 1 .. m : k \in 1 .. m + 1
        BY <2>3
    <2>9. \A k \in 1 .. m + 1 : k \in 1 .. m \/ k = m + 1
        BY <2>3
    <2>10. CASE e \in gone
        <3> HIDE DEF w, r
        <3>1. Keeps(r, w)
            BY <2>1, <2>2, <2>5, <2>6, <2>7, <2>10
        <3>2. r \in P
            BY <2>2, <2>4, <2>10, <3>1
        <3> QED BY <3>2 DEF r
    <2>11. CASE e \notin gone
        <3> DEFINE v == Append(w, e)
        <3>1. v \in Seq(S) /\ Len(v) = m + 1 /\ v[m + 1] = e /\ \A k \in 1 .. m : v[k] = w[k]
            BY <2>1, AppendProperties
        <3> HIDE DEF v, r, w, n, m
        <3>2. \A k \in 1 .. m : w[k] \notin gone /\ \E j \in 1 .. n : w[k] = s[j]
            BY <2>1 DEF m, n
        <3>3. \A j \in 1 .. n : s[j] \notin gone => \E k \in 1 .. m : w[k] = s[j]
            BY <2>1 DEF m, n
        <3>4. ASSUME NEW k \in 1 .. m + 1
              PROVE  v[k] \notin gone /\ \E j \in 1 .. n + 1 : v[k] = r[j]
            <4>1. CASE k = m + 1
                BY <2>2, <2>7, <2>11, <3>1, <4>1
            <4>2. CASE k \in 1 .. m
                BY <2>2, <2>6, <3>1, <3>2, <4>2
            <4> QED BY <2>9, <4>1, <4>2
        <3>5. ASSUME NEW j \in 1 .. n + 1, r[j] \notin gone
              PROVE  \E k \in 1 .. m + 1 : v[k] = r[j]
            <4>1. CASE j = n + 1
                BY <2>2, <2>7, <3>1, <4>1
            <4>2. CASE j \in 1 .. n
                BY <2>2, <2>8, <3>1, <3>3, <3>5, <4>2
            <4> QED BY <2>5, <4>1, <4>2
        <3>6. Keeps(r, v)
            BY <2>2, <2>7, <3>1, <3>4, <3>5
        <3>7. Without(r, gone) = v
            BY <2>4, <2>11 DEF v
        <3>8. r \in P
            BY <2>2, <3>6, <3>7
        <3> QED BY <3>8 DEF r
    <2> QED BY <2>10, <2>11
<1> HIDE DEF P
<1>3. q \in P
    BY <1>1, <1>2, BySeqInduction
<1> QED BY <1>3, LenProperties DEF P

\* ... in its order.
LEMMA WithoutIncreasing ==
    ASSUME NEW S, NEW q \in Seq(S), NEW gone, Increasing(q)
    PROVE  Increasing(Without(q, gone))
<1> DEFINE Below(a, b) == a.id < b.id \/ (a.id = WAKEUP /\ b.id = WAKEUP)
           P == {s \in Seq(S) : Increasing(s) => Increasing(Without(s, gone))}
<1>1. <<>> \in P
    BY EmptySeq, WithoutEmpty DEF Increasing
<1>2. ASSUME NEW s \in Seq(S), NEW e \in S, s \in P PROVE Append(s, e) \in P
    <2> DEFINE w == Without(s, gone)
               r == Append(s, e)
               n == Len(s)
               m == Len(w)
               v == Append(w, e)
    <2>1. /\ n \in Nat /\ r \in Seq(S) /\ Len(r) = n + 1 /\ r[n + 1] = e
          /\ \A i \in 1 .. n : r[i] = s[i]
        BY LenProperties, AppendProperties
    <2>2. /\ w \in Seq(S) /\ m \in Nat
          /\ \A k \in 1 .. m : \E j \in 1 .. n : w[k] = s[j]
        BY WithoutKeeps
    <2>3. Len(v) = m + 1 /\ v[m + 1] = e /\ \A k \in 1 .. m : v[k] = w[k]
        BY <2>2, AppendProperties
    <2>4. Without(r, gone) = IF e \in gone THEN w ELSE v
        BY WithoutAppend
    <2> SUFFICES ASSUME Increasing(r) PROVE Increasing(Without(r, gone))
        BY <2>1
    <2> HIDE DEF r, n, m, v, w
    <2>5. \A j \in 1 .. n : j \in 1 .. n + 1 /\ j < n + 1 /\ n + 1 \in 1 .. n + 1
        BY <2>1
    <2>6. Increasing(s)
        BY <2>1, <2>5 DEF Increasing, n
    <2>7. Increasing(w)
        BY <1>2, <2>6 DEF w
    <2>8. \A j \in 1 .. n : Below(s[j], e)
        BY <2>1, <2>5 DEF Increasing
    <2>9. \A k \in 1 .. m : Below(w[k], e)
        BY <2>2, <2>8
    <2>10. ASSUME NEW j \in 1 .. m + 1, NEW k \in 1 .. m + 1, j < k PROVE Below(v[j], v[k])
        <3>1. j \in 1 .. m
            BY <2>2, <2>10
        <3>2. CASE k = m + 1
            BY <2>3, <2>9, <3>1, <3>2
        <3>3. CASE k \in 1 .. m
            BY <2>3, <2>7, <2>10, <3>1, <3>3 DEF Increasing, m
        <3> QED BY <2>2, <3>2, <3>3
    <2>11. Increasing(v)
        BY <2>3, <2>10 DEF Increasing
    <2> QED BY <2>4, <2>7, <2>11
<1> HIDE DEF P
<1>3. q \in P
    BY <1>1, <1>2, BySeqInduction
<1> QED BY <1>3 DEF P

\* An element before a sequence.
LEMMA Before ==
    ASSUME NEW S, NEW o \in S, NEW w \in Seq(S)
    PROVE  /\ <<o>> \o w \in Seq(S) /\ Len(<<o>> \o w) = Len(w) + 1 /\ (<<o>> \o w)[1] = o
           /\ <<o>> \o w # <<>> /\ Head(<<o>> \o w) = o /\ Tail(<<o>> \o w) = w
           /\ Len(w) \in Nat
           /\ \A i \in 1 .. Len(w) : (<<o>> \o w)[i + 1] = w[i]
<1>1. <<o>> \in Seq(S) /\ Len(<<o>>) = 1 /\ <<o>>[1] = o
    OBVIOUS
<1>2. Len(w) \in Nat
    BY LenProperties
<1> QED BY <1>1, <1>2, ConcatProperties

LEMMA BeforeAppend ==
    ASSUME NEW S, NEW o \in S, NEW w \in Seq(S), NEW e \in S
    PROVE  <<o>> \o Append(w, e) = Append(<<o>> \o w, e)
<1>1. <<o>> \in Seq(S) /\ <<e>> \in Seq(S)
    OBVIOUS
<1>2. Append(w, e) = w \o <<e>>
    BY AppendIsConcat
<1>3. <<o>> \o w \in Seq(S)
    BY Before
<1>4. Append(<<o>> \o w, e) = (<<o>> \o w) \o <<e>>
    BY <1>3, AppendIsConcat
<1> QED BY <1>1, <1>2, <1>4, ConcatAssociative

LEMMA HeadAndTail ==
    ASSUME NEW S, NEW q \in Seq(S), q # <<>>
    PROVE  /\ Tail(q) \in Seq(S) /\ Head(q) \in S /\ Head(q) = q[1] /\ q = <<Head(q)>> \o Tail(q)
           /\ Len(q) \in Nat \ {0} /\ Len(Tail(q)) = Len(q) - 1
           /\ \A i \in 1 .. Len(q) - 1 : Tail(q)[i] = q[i + 1]
<1>1. Len(q) \in Nat \ {0}
    BY EmptySeq, LenProperties
<1>2. /\ Tail(q) \in Seq(S) /\ Head(q) \in S /\ Head(q) = q[1] /\ Len(Tail(q)) = Len(q) - 1
      /\ \A i \in 1 .. Len(q) - 1 : Tail(q)[i] = q[i + 1]
    BY <1>1, HeadTailProperties, ElementOfSeq
<1> DEFINE r == <<Head(q)>> \o Tail(q)
<1>3. /\ r \in Seq(S) /\ Len(r) = Len(q) /\ r[1] = Head(q)
      /\ \A i \in 1 .. Len(q) - 1 : r[i + 1] = Tail(q)[i]
    BY <1>1, <1>2, Before
<1> HIDE DEF r
<1>4. ASSUME NEW i \in 1 .. Len(q) PROVE r[i] = q[i]
    <2>1. CASE i = 1
        BY <1>2, <1>3, <2>1
    <2>2. CASE i # 1
        <3>1. i - 1 \in 1 .. Len(q) - 1 /\ (i - 1) + 1 = i
            BY <1>1, <2>2
        <3> QED BY <1>2, <1>3, <3>1
    <2> QED BY <2>1, <2>2
<1>5. r = q
    BY <1>3, <1>4, SeqEqual
<1> QED BY <1>1, <1>2, <1>5 DEF r

LEMMA WithoutBefore ==
    ASSUME NEW S, NEW o \in S, NEW q \in Seq(S), NEW gone
    PROVE  /\ o \in gone => Without(<<o>> \o q, gone) = Without(q, gone)
           /\ o \notin gone => Without(<<o>> \o q, gone) = <<o>> \o Without(q, gone)
<1> DEFINE Right(s) == Without(<<o>> \o s, gone) =
                          IF o \in gone THEN Without(s, gone) ELSE <<o>> \o Without(s, gone)
           P == {s \in Seq(S) : Right(s)}
<1>1. <<>> \in P
    <2>1. <<>> \in Seq(S) /\ <<o>> \o <<>> = Append(<<>>, o) /\ Append(<<>>, o) = <<o>>
        BY EmptySeq
    <2>2. Without(<<>>, gone) = <<>>
        BY WithoutEmpty
    <2>3. Without(Append(<<>>, o), gone) =
             IF o \in gone THEN Without(<<>>, gone) ELSE Append(Without(<<>>, gone), o)
        BY ZenonT(30), <2>1, WithoutAppend
    <2> QED BY <2>1, <2>2, <2>3
<1>2. ASSUME NEW s \in Seq(S), NEW e \in S, s \in P PROVE Append(s, e) \in P
    <2> DEFINE w == Without(s, gone)
               r == <<o>> \o s
    <2>1. r \in Seq(S) /\ <<o>> \o Append(s, e) = Append(r, e) /\ Append(s, e) \in Seq(S)
        BY Before, BeforeAppend, AppendProperties
    <2>2. Without(r, gone) = IF o \in gone THEN w ELSE <<o>> \o w
        BY <1>2
    <2>3. w \in Seq(S)
        BY WithoutKeeps
    <2> HIDE DEF w, r
    <2>4. Without(Append(r, e), gone) = IF e \in gone THEN Without(r, gone) ELSE Append(Without(r, gone), e)
        BY <2>1, WithoutAppend
    <2>5. Without(Append(s, e), gone) = IF e \in gone THEN w ELSE Append(w, e)
        BY WithoutAppend DEF w
    <2>6. <<o>> \o Append(w, e) = Append(<<o>> \o w, e)
        BY <2>3, BeforeAppend
    <2>7. Right(Append(s, e))
        BY <2>1, <2>2, <2>4, <2>5, <2>6
    <2> QED BY <2>1, <2>7
<1> HIDE DEF P
<1>3. q \in P
    BY <1>1, <1>2, BySeqInduction
<1>4. Right(q)
    BY <1>3 DEF P
<1> QED BY <1>4

\* Only the elements of the sequence count.
LEMMA WithoutAgree ==
    ASSUME NEW S, NEW q \in Seq(S), NEW gone, NEW left,
           \A e \in S : e \in gone <=> e \in left
    PROVE  Without(q, gone) = Without(q, left)
<1> DEFINE P == {s \in Seq(S) : Without(s, gone) = Without(s, left)}
<1>1. <<>> \in P
    BY EmptySeq, WithoutEmpty
<1>2. ASSUME NEW s \in Seq(S), NEW e \in S, s \in P PROVE Append(s, e) \in P
    <2>1. Without(Append(s, e), gone) = IF e \in gone THEN Without(s, gone) ELSE Append(Without(s, gone), e)
        BY WithoutAppend
    <2>2. Without(Append(s, e), left) = IF e \in left THEN Without(s, left) ELSE Append(Without(s, left), e)
        BY WithoutAppend
    <2> QED BY <1>2, <2>1, <2>2, AppendProperties
<1> HIDE DEF P
<1>3. q \in P
    BY <1>1, <1>2, BySeqInduction
<1> QED BY <1>3 DEF P

\* The wakeups in front stay where they are.
LEMMA WithoutTimers ==
    ASSUME NEW S, NEW q \in Seq(S), NEW gone, NEW n, Increasing(q), WithTimers(q, n),
           \A e \in S : e.id \in Nat /\ (e.id = WAKEUP => e \notin gone)
    PROVE  WithTimers(Without(q, gone), n)
<1> DEFINE Front(s, w) == \A k \in 1 .. Len(w) : w[k].id = WAKEUP => k \in 1 .. Len(s) /\ s[k].id = WAKEUP
           P == {s \in Seq(S) : Increasing(s) => Front(s, Without(s, gone))}
<1>1. <<>> \in P
    BY EmptySeq, WithoutEmpty
<1>2. ASSUME NEW s \in Seq(S), NEW e \in S, s \in P PROVE Append(s, e) \in P
    <2> DEFINE w == Without(s, gone)
               r == Append(s, e)
               l == Len(s)
               m == Len(w)
               v == Append(w, e)
    <2>1. /\ l \in Nat /\ r \in Seq(S) /\ Len(r) = l + 1 /\ r[l + 1] = e
          /\ \A i \in 1 .. l : r[i] = s[i]
        BY LenProperties, AppendProperties
    <2>2. w \in Seq(S) /\ m \in Nat /\ m <= l
        BY WithoutKeeps
    <2>3. Len(v) = m + 1 /\ v[m + 1] = e /\ \A k \in 1 .. m : v[k] = w[k]
        BY <2>2, AppendProperties
    <2>4. Without(r, gone) = IF e \in gone THEN w ELSE v
        BY WithoutAppend
    <2> SUFFICES ASSUME Increasing(r) PROVE Front(r, Without(r, gone))
        BY <2>1
    <2> HIDE DEF r, l, m, v, w
    <2>5. \A j \in 1 .. l : j \in 1 .. l + 1 /\ j < l + 1 /\ l + 1 \in 1 .. l + 1
        BY <2>1
    <2>6. Increasing(s)
        BY <2>1, <2>5 DEF Increasing, l
    <2>7. Front(s, w)
        BY <1>2, <2>6 DEF w
    <2>8. Front(r, w)
        BY <2>1, <2>5, <2>7 DEF l
    <2>9. ASSUME e.id = WAKEUP, NEW k \in 1 .. l + 1 PROVE r[k].id = WAKEUP
        <3>1. CASE k = l + 1
            BY <2>1, <2>9, <3>1
        <3>2. CASE k # l + 1
            <4>1. k \in 1 .. l + 1 /\ l + 1 \in 1 .. l + 1 /\ k < l + 1
                BY <2>1, <3>2
            <4>2. r[k] \in S
                BY <2>1, ElementOfSeq
            <4>3. ~(r[k].id < WAKEUP)
                BY <4>2 DEF WAKEUP
            <4> QED BY <2>1, <2>9, <4>1, <4>3 DEF Increasing
        <3> QED BY <3>1, <3>2
    <2>10. Front(r, v)
        <3> SUFFICES ASSUME NEW k \in 1 .. m + 1, v[k].id = WAKEUP PROVE k \in 1 .. l + 1 /\ r[k].id = WAKEUP
            BY <2>1, <2>3
        <3>1. CASE k = m + 1
            BY <2>1, <2>2, <2>3, <2>9, <3>1
        <3>2. CASE k \in 1 .. m
            BY <2>1, <2>3, <2>8, <3>2 DEF m
        <3> QED BY <2>2, <3>1, <3>2
    <2> QED BY <2>4, <2>8, <2>10
<1>3. Seq(S) \subseteq P
    <2> HIDE DEF P
    <2> QED BY <1>1, <1>2, BySeqInduction
<1>4. Front(q, Without(q, gone))
    BY <1>3
<1> QED BY <1>4 DEF WithTimers

\* What is removed at once may be removed one after the other.
LEMMA WithoutTwice ==
    ASSUME NEW S, NEW q \in Seq(S), NEW a, NEW b
    PROVE  Without(Without(q, a), b) = Without(q, a \cup b)
<1> DEFINE P == {s \in Seq(S) : Without(Without(s, a), b) = Without(s, a \cup b)}
<1>1. <<>> \in P
    BY EmptySeq, WithoutEmpty
<1>2. ASSUME NEW s \in Seq(S), NEW e \in S, s \in P PROVE Append(s, e) \in P
    <2>1. PICK w : w = Without(s, a)
        OBVIOUS
    <2>2. w \in Seq(S)
        BY <2>1, WithoutKeeps
    <2>3. Without(Append(s, e), a) = IF e \in a THEN w ELSE Append(w, e)
        BY <2>1, WithoutAppend
    <2>4. Without(Append(s, e), a \cup b) =
             IF e \in a \cup b THEN Without(s, a \cup b) ELSE Append(Without(s, a \cup b), e)
        BY WithoutAppend
    <2>5. Without(Append(w, e), b) = IF e \in b THEN Without(w, b) ELSE Append(Without(w, b), e)
        BY <2>2, WithoutAppend
    <2> QED BY <1>2, <2>1, <2>3, <2>4, <2>5, AppendProperties
<1> HIDE DEF P
<1>3. q \in P
    BY <1>1, <1>2, BySeqInduction
<1> QED BY <1>3 DEF P

-----------------------------------------------------------------------------
(* What the abstract service sees of a queue.                              *)

Dead == {cmd \in Cmds : ~cmd.callback \/ cmd.id = WAKEUP}
IdsOf(q) == [i \in 1 .. Len(q) |-> q[i].id]

LEMMA IdsOfIs ==
    ASSUME NEW q \in Seq(Cmds)
    PROVE  IdsOf(q) \in Seq(AllIds) /\ Len(IdsOf(q)) = Len(q) /\ \A i \in 1 .. Len(q) : IdsOf(q)[i] = q[i].id
<1>1. Len(q) \in Nat /\ \A i \in 1 .. Len(q) : q[i] \in Cmds
    BY LenProperties, ElementOfSeq
<1>2. \A i \in 1 .. Len(q) : q[i].id \in AllIds
    BY <1>1 DEF Cmds
<1>3. IdsOf(q) \in [1 .. Len(q) -> AllIds]
    BY <1>2 DEF IdsOf
<1> QED BY <1>1, <1>3 DEF IdsOf

LEMMA IdsOfAppend ==
    ASSUME NEW q \in Seq(Cmds), NEW e \in Cmds
    PROVE  IdsOf(Append(q, e)) = Append(IdsOf(q), e.id)
<1> DEFINE r == Append(q, e)
           a == Append(IdsOf(q), e.id)
<1>1. /\ r \in Seq(Cmds) /\ Len(r) = Len(q) + 1 /\ r[Len(q) + 1] = e
      /\ \A i \in 1 .. Len(q) : r[i] = q[i]
    BY AppendProperties
<1>2. /\ IdsOf(q) \in Seq(AllIds) /\ Len(IdsOf(q)) = Len(q)
      /\ \A i \in 1 .. Len(q) : IdsOf(q)[i] = q[i].id
    BY IdsOfIs
<1>3. e.id \in AllIds /\ Len(q) \in Nat
    BY LenProperties DEF Cmds
<1>4. /\ a \in Seq(AllIds) /\ Len(a) = Len(q) + 1 /\ a[Len(q) + 1] = e.id
      /\ \A i \in 1 .. Len(q) : a[i] = q[i].id
    BY <1>2, <1>3, AppendProperties
<1> HIDE DEF r, a
<1>5. IdsOf(r) \in Seq(AllIds) /\ Len(IdsOf(r)) = Len(r) /\ \A i \in 1 .. Len(r) : IdsOf(r)[i] = r[i].id
    BY <1>1, IdsOfIs
<1>6. ASSUME NEW i \in 1 .. Len(r) PROVE IdsOf(r)[i] = a[i]
    <2>1. i \in 1 .. Len(q) \/ i = Len(q) + 1
        BY <1>1, <1>3
    <2> QED BY <1>1, <1>4, <1>5, <2>1
<1>7. IdsOf(r) = a
    BY <1>1, <1>4, <1>5, <1>6, SeqEqual
<1> QED BY <1>7 DEF r, a

LEMMA IdsOfEmpty == IdsOf(<<>>) = <<>>
<1>1. <<>> \in Seq(Cmds) /\ Len(<<>>) = 0
    BY EmptySeq
<1>2. IdsOf(<<>>) \in Seq(AllIds) /\ Len(IdsOf(<<>>)) = 0
    BY <1>1, IdsOfIs
<1> QED BY <1>2, EmptySeq

LEMMA WaitingIs ==
    ASSUME NEW q \in Seq(Cmds)
    PROVE  /\ Waiting(q) = IdsOf(Without(q, Dead)) /\ Waiting(q) \in Seq(AllIds)
           /\ Without(q, Dead) \in Seq(Cmds)
<1>1. DOMAIN q = 1 .. Len(q) /\ \A i \in 1 .. Len(q) : q[i] \in Cmds
    BY LenProperties, ElementOfSeq
<1> DEFINE Here == {q[i] : i \in 1 .. Len(q)}
<1>2. Silent(q) = {cmd \in Here : ~cmd.callback \/ cmd.id = WAKEUP}
    BY <1>1 DEF Silent
<1>3. Here \subseteq Cmds
    BY <1>1
<1>4. q \in Seq(Here)
    <2>1. q \in [1 .. Len(q) -> Cmds] /\ Len(q) \in Nat
        BY LenProperties
    <2>2. q \in [1 .. Len(q) -> Here]
        BY <2>1
    <2> HIDE DEF Here
    <2> QED BY <2>1, <2>2
<1> HIDE DEF Here
<1>5. \A e \in Here : e \in Silent(q) <=> e \in Dead
    BY <1>2, <1>3 DEF Dead
<1>6. Without(q, Silent(q)) = Without(q, Dead)
    BY <1>4, <1>5, WithoutAgree
<1>7. Without(q, Dead) \in Seq(Cmds)
    BY WithoutKeeps
<1> QED BY <1>6, <1>7, IdsOfIs DEF Waiting, IdsOf

LEMMA WaitingEmpty == Waiting(<<>>) = <<>>
<1>1. <<>> \in Seq(Cmds)
    BY EmptySeq
<1> QED BY <1>1, WaitingIs, WithoutEmpty, IdsOfEmpty

LEMMA WaitingAppend ==
    ASSUME NEW q \in Seq(Cmds), NEW e \in Cmds
    PROVE  Waiting(Append(q, e)) = IF e \in Dead THEN Waiting(q) ELSE Append(Waiting(q), e.id)
<1>1. Append(q, e) \in Seq(Cmds)
    BY AppendProperties
<1>2. Without(Append(q, e), Dead) = IF e \in Dead THEN Without(q, Dead) ELSE Append(Without(q, Dead), e)
    BY WithoutAppend
<1>3. /\ Waiting(Append(q, e)) = IdsOf(Without(Append(q, e), Dead))
      /\ Waiting(q) = IdsOf(Without(q, Dead)) /\ Without(q, Dead) \in Seq(Cmds)
    BY <1>1, WaitingIs
<1>4. IdsOf(Append(Without(q, Dead), e)) = Append(IdsOf(Without(q, Dead)), e.id)
    BY <1>3, IdsOfAppend
<1> QED BY <1>2, <1>3, <1>4

LEMMA WaitingBefore ==
    ASSUME NEW q \in Seq(Cmds), NEW o \in Cmds
    PROVE  Waiting(<<o>> \o q) = IF o \in Dead THEN Waiting(q) ELSE <<o.id>> \o Waiting(q)
<1> DEFINE Right(s) == Waiting(<<o>> \o s) = IF o \in Dead THEN Waiting(s) ELSE <<o.id>> \o Waiting(s)
           P == {s \in Seq(Cmds) : Right(s)}
<1>0. o.id \in AllIds
    BY DEF Cmds
<1>1. <<>> \in P
    <2>1. <<>> \in Seq(Cmds) /\ <<o>> \o <<>> = Append(<<>>, o)
        BY EmptySeq
    <2>2. Waiting(Append(<<>>, o)) = IF o \in Dead THEN Waiting(<<>>) ELSE Append(Waiting(<<>>), o.id)
        BY <2>1, WaitingAppend
    <2>3. Waiting(<<>>) = <<>> /\ Append(<<>>, o.id) = <<o.id>> /\ <<o.id>> \o <<>> = <<o.id>>
        BY WaitingEmpty
    <2> QED BY <2>1, <2>2, <2>3
<1>2. ASSUME NEW s \in Seq(Cmds), NEW e \in Cmds, s \in P PROVE Append(s, e) \in P
    <2> DEFINE w == Waiting(s)
               r == <<o>> \o s
    <2>1. r \in Seq(Cmds) /\ <<o>> \o Append(s, e) = Append(r, e) /\ Append(s, e) \in Seq(Cmds)
        BY Before, BeforeAppend, AppendProperties
    <2>2. Waiting(r) = IF o \in Dead THEN w ELSE <<o.id>> \o w
        BY <1>2
    <2>3. w \in Seq(AllIds) /\ e.id \in AllIds
        BY WaitingIs DEF Cmds
    <2> HIDE DEF w, r
    <2>4. Waiting(Append(r, e)) = IF e \in Dead THEN Waiting(r) ELSE Append(Waiting(r), e.id)
        BY <2>1, WaitingAppend
    <2>5. Waiting(Append(s, e)) = IF e \in Dead THEN w ELSE Append(w, e.id)
        BY WaitingAppend DEF w
    <2>6. <<o.id>> \o Append(w, e.id) = Append(<<o.id>> \o w, e.id)
        BY <1>0, <2>3, BeforeAppend
    <2>7. Right(Append(s, e))
        BY <2>1, <2>2, <2>4, <2>5, <2>6
    <2> QED BY <2>1, <2>7
<1> HIDE DEF P
<1>3. q \in P
    BY <1>1, <1>2, BySeqInduction
<1> QED BY <1>3 DEF P

\* Commands are removed from the queue as their ids from what waits.
LEMMA WaitingFilter ==
    ASSUME NEW q \in Seq(Cmds), NEW gone, NEW ids,
           \A k \in 1 .. Len(q) : q[k] \in Dead \/ (q[k] \in gone <=> q[k].id \in ids)
    PROVE  Waiting(Without(q, gone)) = Without(Waiting(q), ids)
<1> DEFINE Fits(e) == e \in Dead \/ (e \in gone <=> e.id \in ids)
           P == {s \in Seq(Cmds) : (\A k \in 1 .. Len(s) : Fits(s[k])) =>
                                       Waiting(Without(s, gone)) = Without(Waiting(s), ids)}
<1>1. <<>> \in P
    <2>1. <<>> \in Seq(Cmds)
        BY EmptySeq
    <2>2. Waiting(Without(<<>>, gone)) = Without(Waiting(<<>>), ids)
        BY WithoutEmpty, WaitingEmpty
    <2> QED BY <2>1, <2>2
<1>2. ASSUME NEW s \in Seq(Cmds), NEW e \in Cmds, s \in P PROVE Append(s, e) \in P
    <2> DEFINE r == Append(s, e)
    <2>1. /\ r \in Seq(Cmds) /\ Len(r) = Len(s) + 1 /\ r[Len(s) + 1] = e /\ Len(s) \in Nat
          /\ \A i \in 1 .. Len(s) : r[i] = s[i]
        BY AppendProperties, LenProperties
    <2>2. /\ Without(r, gone) = IF e \in gone THEN Without(s, gone) ELSE Append(Without(s, gone), e)
          /\ Waiting(r) = IF e \in Dead THEN Waiting(s) ELSE Append(Waiting(s), e.id)
        BY WithoutAppend, WaitingAppend
    <2>3. Without(s, gone) \in Seq(Cmds) /\ Waiting(s) \in Seq(AllIds) /\ e.id \in AllIds
        BY WithoutKeeps, WaitingIs DEF Cmds
    <2>4. Waiting(Append(Without(s, gone), e)) =
             IF e \in Dead THEN Waiting(Without(s, gone)) ELSE Append(Waiting(Without(s, gone)), e.id)
        BY <2>3, WaitingAppend
    <2>5. Without(Append(Waiting(s), e.id), ids) =
             IF e.id \in ids THEN Without(Waiting(s), ids) ELSE Append(Without(Waiting(s), ids), e.id)
        <3>1. PICK v, i : v = Waiting(s) /\ i = e.id
            OBVIOUS
        <3>2. v \in Seq(AllIds) /\ i \in AllIds
            BY <2>3, <3>1
        <3>3. Without(Append(v, i), ids) = IF i \in ids THEN Without(v, ids) ELSE Append(Without(v, ids), i)
            BY <3>2, WithoutAppend
        <3> QED BY <3>1, <3>3
    <2> HIDE DEF r
    <2>6. ASSUME \A k \in 1 .. Len(r) : Fits(r[k])
          PROVE  Waiting(Without(r, gone)) = Without(Waiting(r), ids)
        <3>1. \A k \in 1 .. Len(s) : Fits(s[k])
            BY <2>1, <2>6
        <3>2. Waiting(Without(s, gone)) = Without(Waiting(s), ids)
            BY <1>2, <3>1
        <3>3. Fits(e)
            BY <2>1, <2>6
        <3>4. CASE e \in Dead
            BY <2>2, <2>4, <3>2, <3>4
        <3>5. CASE e \notin Dead
            BY <2>2, <2>4, <2>5, <3>2, <3>3, <3>5
        <3> QED BY <3>4, <3>5
    <2>7. r \in P
        BY <2>1, <2>6
    <2> QED BY <2>7 DEF r
<1>3. Seq(Cmds) \subseteq P
    <2> HIDE DEF P
    <2> QED BY <1>1, <1>2, BySeqInduction
<1>4. q \in P
    BY <1>3
<1> QED BY <1>4

-----------------------------------------------------------------------------
(* The queue of a struct.                                                  *)

LEMMA StructFields ==
    ASSUME NEW c \in Structs
    PROVE  /\ c.open \in BOOLEAN /\ c.queue \in Seq(Cmds) /\ c.written \in 0 .. 4 /\ c.armed \in BOOLEAN
           /\ c.suspended \in BOOLEAN /\ c.lines \in Seq(AllIds) /\ c.wakeup \in BOOLEAN
           /\ c.wakeup_timer \in {"unset", "fresh", "old"} /\ c.timer \in BOOLEAN
           /\ c.strays \in Nat /\ Running(c) \in Nat /\ (c.timer => Running(c) = c.strays + 1)
           /\ (~c.timer => Running(c) = c.strays) /\ c.next \in 1 .. MaxCmds + 1 /\ c.cancelled \in SUBSET Ids
           /\ c.destroyed \in [Ids -> Nat] /\ c.suspends \in Nat
BY DEF Structs, Running

\* The elements of a queue, and that the ids of clients tell them apart.
LEMMA QueueFacts ==
    ASSUME NEW q \in Seq(Cmds), Increasing(q)
    PROVE  /\ Len(q) \in Nat /\ DOMAIN q = 1 .. Len(q) /\ (q = <<>> <=> Len(q) = 0)
           /\ \A k \in 1 .. Len(q) : q[k] \in Cmds /\ q[k].id \in AllIds
           /\ \A j, k \in 1 .. Len(q) : q[j].id = q[k].id /\ q[j].id # WAKEUP => j = k
           /\ q # <<>> => Head(q) = q[1] /\ 1 \in 1 .. Len(q) /\ Head(q) \in Cmds
<1>1. Len(q) \in Nat /\ DOMAIN q = 1 .. Len(q) /\ \A k \in 1 .. Len(q) : q[k] \in Cmds
    BY LenProperties, ElementOfSeq
<1>2. \A k \in 1 .. Len(q) : q[k].id \in AllIds
    BY <1>1 DEF Cmds
<1>3. ASSUME NEW j \in 1 .. Len(q), NEW k \in 1 .. Len(q), q[j].id = q[k].id, q[j].id # WAKEUP PROVE j = k
    <2>1. ~(j < k) /\ ~(k < j)
        BY <1>2, <1>3, AtChatAssumption DEF Increasing, AllIds
    <2> QED BY <1>1, <2>1
<1>4. q = <<>> <=> Len(q) = 0
    BY EmptySeq
<1>5. q # <<>> => Head(q) = q[1] /\ 1 \in 1 .. Len(q)
    BY <1>1, <1>4, HeadAndTail
<1> QED BY <1>1, <1>2, <1>3, <1>4, <1>5

\* No wakeup in front means none at all.
LEMMA NoWakeup ==
    ASSUME NEW q \in Seq(Cmds), Increasing(q)
    PROVE  (q # <<>> => Head(q).id # WAKEUP) <=> WithTimers(q, 0)
<1>1. /\ Len(q) \in Nat /\ (q = <<>> <=> Len(q) = 0)
      /\ \A k \in 1 .. Len(q) : q[k].id \in AllIds
      /\ q # <<>> => Head(q) = q[1] /\ 1 \in 1 .. Len(q)
    BY QueueFacts
<1>2. ASSUME WithTimers(q, 0), q # <<>> PROVE Head(q).id # WAKEUP
    BY <1>1, <1>2 DEF WithTimers
<1>3. ASSUME q # <<>> => Head(q).id # WAKEUP, NEW k \in 1 .. Len(q) PROVE q[k].id # WAKEUP
    <2>1. q # <<>> /\ q[1].id # WAKEUP /\ 1 \in 1 .. Len(q) /\ q[1].id \in AllIds /\ q[k].id \in AllIds
        BY <1>1, <1>3
    <2>2. k = 1 \/ q[1].id < q[k].id \/ q[1].id = WAKEUP
        BY <1>1, <2>1 DEF Increasing
    <2> QED BY <2>1, <2>2, AtChatAssumption DEF AllIds, WAKEUP
<1> QED BY <1>2, <1>3 DEF WithTimers

\* A command is sent.
LEMMA QueueSend ==
    ASSUME NEW c \in Structs, NEW held, QueueOK(c, held), c.open, c.next \in Ids,
           NEW o \in Cmds, o.id = c.next,
           NEW d \in Structs, d.queue = Append(c.queue, o), d.next = c.next + 1,
           d.cancelled = c.cancelled, d.destroyed = c.destroyed, d.open = TRUE
    PROVE  /\ QueueOK(d, held) /\ \A i \in Ids : Settled(c, i) => Settled(d, i)
           /\ \A n : WithTimers(c.queue, n) => WithTimers(d.queue, n)
<1> DEFINE q == c.queue
           r == d.queue
           n == Len(q)
<1>1. q \in Seq(Cmds) /\ c.next \in Nat /\ \A i \in c.cancelled : i \in Ids
    BY StructFields
<1>2. InOrder(q, c.next) /\ Counted(q, c.next, c.destroyed, held) /\ Callable(q, c.cancelled, c.next)
      /\ \A i \in held : i \in Ids => i < c.next /\ ~Has(q, i)
    BY DEF QueueOK
<1>3. /\ n \in Nat /\ \A k \in 1 .. n : q[k].id \in AllIds
    BY <1>1, <1>2, QueueFacts DEF InOrder
<1>4. /\ Len(r) = n + 1 /\ r[n + 1] = o /\ \A k \in 1 .. n : r[k] = q[k]
    BY <1>1, AppendProperties
<1>5. \A k \in 1 .. n + 1 : k \in 1 .. n \/ k = n + 1
    BY <1>3
<1>6. \A k \in 1 .. n : k \in 1 .. n + 1 /\ n + 1 \in 1 .. n + 1 /\ k < n + 1 /\ ~(n + 1 < k)
    BY <1>3
<1>7. n + 1 \in 1 .. n + 1 /\ ~(n + 1 < n + 1)
    BY <1>3
<1>8. \A k \in 1 .. n : q[k].id < c.next /\ q[k].id < c.next + 1
    BY <1>1, <1>2, <1>3, AtChatAssumption DEF InOrder, AllIds
<1>9. c.next < c.next + 1 /\ c.next # WAKEUP
    BY <1>1 DEF WAKEUP, Ids
<1> HIDE DEF q, r, n
<1>10. \A i : Has(r, i) <=> Has(q, i) \/ i = c.next
    BY <1>4, <1>5, <1>6, <1>7 DEF Has, n
<1>11. InOrder(r, c.next + 1)
    <2>1. \A k \in 1 .. n + 1 : r[k].id < c.next + 1 /\ (r[k].id = WAKEUP => r[k] = Wakeup)
        BY <1>2, <1>4, <1>5, <1>8, <1>9 DEF InOrder, n
    <2>2. Increasing(q)
        BY <1>2 DEF InOrder
    <2>3. \A j, k \in 1 .. n + 1 : j < k => r[j].id < r[k].id \/ (r[j].id = WAKEUP /\ r[k].id = WAKEUP)
        BY <1>4, <1>5, <1>6, <1>7, <1>8, <2>2 DEF Increasing, n
    <2> QED BY <1>4, <2>1, <2>3 DEF InOrder, Increasing
<1>12. ASSUME NEW i \in Ids PROVE (i < c.next + 1 /\ ~Has(r, i)) <=> (i < c.next /\ ~Has(q, i))
    <2>1. i \in Int /\ c.next \in Int
        BY <1>1 DEF Ids
    <2>2. i < c.next + 1 <=> i < c.next \/ i = c.next
        BY <2>1
    <2>3. i = c.next => ~(i < c.next)
        BY <2>1
    <2> QED BY <1>10, <2>2, <2>3
<1>13. Counted(r, c.next + 1, c.destroyed, held)
    BY <1>2, <1>12 DEF Counted
<1>14. \A i \in held : i \in Ids => i < c.next + 1 /\ ~Has(r, i)
    <2> SUFFICES ASSUME NEW i \in held, i \in Ids PROVE i < c.next + 1 /\ ~Has(r, i)
        OBVIOUS
    <2>1. i < c.next /\ ~Has(q, i)
        BY <1>2
    <2>2. i \in Int /\ c.next \in Int
        BY <1>1 DEF Ids
    <2>3. i < c.next + 1 /\ i # c.next
        BY <2>1, <2>2
    <2> QED BY <1>10, <2>1, <2>3
<1>15. Callable(r, c.cancelled, c.next + 1)
    <2>1. \A i \in c.cancelled : i < c.next /\ i < c.next + 1 /\ i # c.next
        BY <1>1, <1>2 DEF Callable, Ids
    <2>2. \A k \in 1 .. n + 1 : r[k].callback => r[k].id \notin c.cancelled
        BY <1>2, <1>4, <1>5, <2>1 DEF Callable, n
    <2> QED BY <1>4, <2>1, <2>2 DEF Callable
<1>16. QueueOK(d, held)
    BY <1>11, <1>13, <1>14, <1>15 DEF QueueOK, r
<1>17. \A i \in Ids : Settled(c, i) => Settled(d, i)
    BY <1>12 DEF Settled, q, r
<1>18. ASSUME NEW m, WithTimers(q, m) PROVE WithTimers(r, m)
    BY <1>4, <1>5, <1>9, <1>18 DEF WithTimers, n
<1> QED BY <1>16, <1>17, <1>18 DEF q, r

\* Commands with the ids leave the queue; what stays is the same but for callbacks.
Stays(e, f) == e = f \/ (e.id = f.id /\ e.id # WAKEUP /\ ~e.callback)

Drops(c, d, ids, gone) ==
    /\ d.next = c.next /\ (~d.open => d.queue = <<>>) /\ Increasing(d.queue)
    /\ \A k \in 1 .. Len(d.queue) : \E j \in 1 .. Len(c.queue) : Stays(d.queue[k], c.queue[j])
    /\ \A i \in Ids : Has(d.queue, i) <=> Has(c.queue, i) /\ i \notin ids
    /\ \A i \in ids : Has(c.queue, i)
    /\ \A i \in gone : Has(c.queue, i)
    /\ \A k \in 1 .. Len(d.queue) : d.queue[k].callback => d.queue[k].id \notin gone
    /\ d.cancelled = c.cancelled \cup gone
    /\ \A i \in Ids : d.destroyed[i] = c.destroyed[i] + IF i \in ids THEN 1 ELSE 0

LEMMA QueueDrop ==
    ASSUME NEW c \in Structs, NEW held, QueueOK(c, held), c.open, NEW ids \in SUBSET Ids, NEW gone \in SUBSET Ids,
           NEW d \in Structs, Drops(c, d, ids, gone)
    PROVE  QueueOK(d, held) /\ \A i \in Ids : Settled(c, i) => Settled(d, i)
<1> DEFINE q == c.queue
           r == d.queue
<1>1. /\ q \in Seq(Cmds) /\ r \in Seq(Cmds) /\ c.next \in Nat
      /\ \A i \in Ids : c.destroyed[i] \in Nat
    BY StructFields
<1>2. InOrder(q, c.next) /\ Counted(q, c.next, c.destroyed, held) /\ Callable(q, c.cancelled, c.next)
      /\ \A i \in held : i \in Ids => i < c.next /\ ~Has(q, i)
    BY DEF QueueOK
<1>3. \A k \in 1 .. Len(r) : \E j \in 1 .. Len(q) : Stays(r[k], q[j])
    BY DEF Drops
<1>4. \A i \in Ids : Has(r, i) <=> Has(q, i) /\ i \notin ids
    BY DEF Drops
<1>5. d.next = c.next /\ (~d.open => r = <<>>) /\ Increasing(r)
    BY DEF Drops
<1>6. \A i \in Ids : d.destroyed[i] = c.destroyed[i] + IF i \in ids THEN 1 ELSE 0
    BY DEF Drops
<1>7. d.cancelled = c.cancelled \cup gone
    BY DEF Drops
<1>8. \A i \in ids : Has(q, i)
    BY DEF Drops
<1>9. \A i \in gone : Has(q, i)
    BY DEF Drops
<1>10. \A k \in 1 .. Len(r) : r[k].callback => r[k].id \notin gone
    BY DEF Drops
<1> HIDE DEF q, r
<1>11. InOrder(r, c.next)
    <2>1. \A k \in 1 .. Len(r) : r[k].id < c.next /\ (r[k].id = WAKEUP => r[k] = Wakeup)
        BY <1>2, <1>3 DEF InOrder, Stays
    <2> QED BY <1>5, <2>1 DEF InOrder
<1>12. Counted(r, c.next, d.destroyed, held)
    <2> SUFFICES ASSUME NEW i \in Ids
                 PROVE  d.destroyed[i] = IF i < c.next /\ ~Has(r, i) /\ i \notin held THEN 1 ELSE 0
        BY DEF Counted
    <2>1. c.destroyed[i] = IF i < c.next /\ ~Has(q, i) /\ i \notin held THEN 1 ELSE 0
        BY <1>2 DEF Counted
    <2>2. d.destroyed[i] = c.destroyed[i] + IF i \in ids THEN 1 ELSE 0
        BY <1>6
    <2>3. CASE i \in ids
        <3>1. Has(q, i) /\ ~Has(r, i)
            BY <1>4, <1>8, <2>3
        <3>2. PICK k \in 1 .. Len(q) : q[k].id = i
            BY <3>1 DEF Has
        <3>3. i < c.next /\ i \notin held
            BY <1>2, <3>1, <3>2 DEF InOrder
        <3> QED BY <2>1, <2>2, <2>3, <3>1, <3>3
    <2>4. CASE i \notin ids
        <3>1. Has(q, i) <=> Has(r, i)
            BY <1>4, <2>4
        <3>2. d.destroyed[i] = c.destroyed[i]
            BY <1>1, <2>2, <2>4
        <3> QED BY <2>1, <3>1, <3>2
    <2> QED BY <2>3, <2>4
<1>13. Callable(r, d.cancelled, c.next)
    <2>1. \A i \in gone : i < c.next
        <3> SUFFICES ASSUME NEW i \in gone PROVE i < c.next
            OBVIOUS
        <3>1. PICK k \in 1 .. Len(q) : q[k].id = i
            BY <1>9 DEF Has
        <3> QED BY <1>2, <3>1 DEF InOrder
    <2>2. \A i \in d.cancelled : i < c.next
        BY <1>2, <1>7, <2>1 DEF Callable
    <2>3. ASSUME NEW k \in 1 .. Len(r), r[k].callback PROVE r[k].id \notin d.cancelled
        <3>1. PICK j \in 1 .. Len(q) : Stays(r[k], q[j])
            BY <1>3
        <3>2. q[j] = r[k]
            BY <2>3, <3>1 DEF Stays
        <3>3. r[k].id \notin c.cancelled
            BY <1>2, <2>3, <3>2 DEF Callable
        <3>4. r[k].id \notin gone
            BY <1>10, <2>3
        <3> QED BY <1>7, <3>3, <3>4
    <2> QED BY <2>2, <2>3 DEF Callable
<1>14. \A i \in held : i \in Ids => i < c.next /\ ~Has(r, i)
    BY <1>2, <1>4
<1>15. QueueOK(d, held)
    BY <1>5, <1>11, <1>12, <1>13, <1>14 DEF QueueOK, r
<1>16. \A i \in Ids : Settled(c, i) => Settled(d, i)
    <2> SUFFICES ASSUME NEW i \in Ids, Settled(c, i) PROVE Settled(d, i)
        OBVIOUS
    <2>1. i \notin gone
        BY <1>9 DEF Settled, q
    <2>2. i \notin d.cancelled
        BY <1>7, <2>1 DEF Settled
    <2> QED BY <1>4, <1>5, <2>2 DEF Settled, q, r
<1> QED BY <1>15, <1>16

\* What removing commands of the queue does to it.
LEMMA FilterFacts ==
    ASSUME NEW q \in Seq(Cmds), Increasing(q), NEW cmds,
           \A e \in cmds : e.id # WAKEUP /\ \E k \in 1 .. Len(q) : q[k] = e
    PROVE  LET w == Without(q, cmds)
               ids == {e.id : e \in cmds}
           IN  /\ w \in Seq(Cmds) /\ Increasing(w)
               /\ \A k \in 1 .. Len(q) : q[k] \in cmds <=> q[k].id \in ids
               /\ \A k \in 1 .. Len(w) : w[k] \notin cmds /\ w[k].id \notin ids
                                         /\ \E j \in 1 .. Len(q) : w[k] = q[j]
               /\ \A i : Has(w, i) <=> Has(q, i) /\ i \notin ids
               /\ \A n : WithTimers(q, n) => WithTimers(w, n)
<1> DEFINE w == Without(q, cmds)
           ids == {e.id : e \in cmds}
<1>1. /\ w \in Seq(Cmds)
      /\ \A k \in 1 .. Len(w) : w[k] \notin cmds /\ \E j \in 1 .. Len(q) : w[k] = q[j]
      /\ \A j \in 1 .. Len(q) : q[j] \notin cmds => \E k \in 1 .. Len(w) : w[k] = q[j]
    <2>1. q \in Seq(Cmds)
        OBVIOUS
    <2>2. w \in Seq(Cmds)
        BY <2>1, WithoutKeeps
    <2>3. \A k \in 1 .. Len(w) : w[k] \notin cmds /\ \E j \in 1 .. Len(q) : w[k] = q[j]
        BY <2>1, WithoutKeeps
    <2>4. \A j \in 1 .. Len(q) : q[j] \notin cmds => \E k \in 1 .. Len(w) : w[k] = q[j]
        BY <2>1, WithoutKeeps
    <2> QED BY <2>2, <2>3, <2>4
<1>2. \A e \in Cmds : e.id \in Int
    BY AtChatAssumption DEF Cmds, AllIds
<1>3. Increasing(w)
    BY <1>2, WithoutIncreasing
<1>4. \A j, k \in 1 .. Len(q) : q[j].id = q[k].id /\ q[j].id # WAKEUP => j = k
    BY QueueFacts
<1>5. ASSUME NEW k \in 1 .. Len(q), q[k].id \in ids PROVE q[k] \in cmds
    <2>1. PICK e \in cmds : e.id = q[k].id
        BY <1>5
    <2>2. PICK j \in 1 .. Len(q) : q[j] = e
        BY <2>1
    <2> QED BY <1>4, <2>1, <2>2
<1>6. \A k \in 1 .. Len(q) : q[k] \in cmds <=> q[k].id \in ids
    BY <1>5
<1> HIDE DEF w, ids
<1>7. \A k \in 1 .. Len(w) : w[k].id \notin ids
    BY <1>1, <1>6
<1>8. \A i : Has(w, i) <=> Has(q, i) /\ i \notin ids
    <2>1. ASSUME NEW i, Has(w, i) PROVE Has(q, i) /\ i \notin ids
        BY <1>1, <1>7, <2>1 DEF Has
    <2>2. ASSUME NEW i, Has(q, i), i \notin ids PROVE Has(w, i)
        <3>1. PICK j \in 1 .. Len(q) : q[j].id = i
            BY <2>2 DEF Has
        <3>2. PICK k \in 1 .. Len(w) : w[k] = q[j]
            BY <1>1, <1>6, <2>2, <3>1
        <3> QED BY <3>1, <3>2 DEF Has
    <2> QED BY <2>1, <2>2
<1>9. ASSUME NEW n, WithTimers(q, n) PROVE WithTimers(w, n)
    <2>1. \A e \in Cmds : e.id \in Nat /\ (e.id = WAKEUP => e \notin cmds)
        BY AtChatAssumption DEF Cmds, AllIds
    <2> QED BY <1>9, <2>1, WithoutTimers DEF w
<1> QED BY <1>1, <1>3, <1>6, <1>7, <1>8, <1>9 DEF w, ids

-----------------------------------------------------------------------------
(* Calls of a client.                                                      *)

\* What a call does to the commands that wait to be called back.
Then(v, w) ==
    \/ w = v
    \/ \E i \in Ids : w = Append(v, i)
    \/ \E gone \in SUBSET Ids : w = Without(v, gone)

\* What every call keeps: the invariant, what is settled, half duplex, the wakeups,
\* and the command the modem works on.
Keeps(c, d, held) ==
    /\ ChatOK(d, held)
    /\ \A i \in Ids : Settled(c, i) => Settled(d, i)
    /\ Then(Waiting(c.queue), Waiting(d.queue))
    /\ \A ids : HalfOK(c, ids) => HalfOK(d, ids)
    /\ \A n : WithTimers(c.queue, n) => WithTimers(d.queue, n)
    /\ d.open => /\ d.written = c.written /\ Running(d) = Running(c)
                 /\ c.written > 0 => /\ d.armed = c.armed /\ d.queue # <<>>
                                     /\ Head(d.queue).id = Head(c.queue).id
                                     /\ Head(d.queue).kind = Head(c.queue).kind

LEMMA CmdFields ==
    ASSUME NEW i \in AllIds, NEW gid \in Groups \cup {0}, NEW kind \in AllKinds
    PROVE  LET o == Cmd(i, gid, kind)
           IN  o \in Cmds /\ o.id = i /\ o.gid = gid /\ o.kind = kind /\ o.callback
<1> DEFINE o == Cmd(i, gid, kind)
<1>1. o.id = i /\ o.gid = gid /\ o.kind = kind /\ o.callback = TRUE
    BY Zenon DEF Cmd
<1>2. o \in Cmds
    BY SMT DEF Cmd, Cmds
<1> QED BY <1>1, <1>2

LEMMA WakeupFields ==
    Wakeup \in Cmds /\ Wakeup.id = WAKEUP /\ Wakeup.kind = "plain" /\ Wakeup.callback /\ Length(Wakeup) = 2
<1>1. WAKEUP \in AllIds /\ "plain" \in AllKinds /\ "plain" # "prompt"
    BY AtChatAssumption DEF WAKEUP, AllIds, AllKinds
<1>2. Wakeup \in Cmds /\ Wakeup.id = WAKEUP /\ Wakeup.kind = "plain" /\ Wakeup.callback
    BY <1>1, CmdFields DEF Wakeup
<1> QED BY <1>1, <1>2 DEF Length

\* send_common, field by field.
LEMMA SentFields ==
    ASSUME NEW c \in Structs, c.next \in Ids, NEW gid \in Groups, NEW kind \in Kinds
    PROVE  LET o == Cmd(c.next, gid, kind)
               d == send_common(c, gid, kind)
           IN  /\ d \in Structs /\ o \in Cmds
               /\ d.open = c.open /\ d.queue = Append(c.queue, o) /\ d.written = c.written
               /\ d.armed = (c.armed \/ c.queue = <<>>)
               /\ d.suspended = c.suspended /\ d.lines = c.lines /\ d.wakeup_timer = c.wakeup_timer
               /\ d.timer = c.timer /\ d.strays = c.strays /\ d.next = c.next + 1 /\ d.cancelled = c.cancelled
               /\ d.destroyed = c.destroyed
<1>1. PICK o : o = Cmd(c.next, gid, kind)
    OBVIOUS
<1>2. PICK r : r = Append(c.queue, o)
    OBVIOUS
<1>3. PICK n : n = c.next + 1
    OBVIOUS
<1>4. PICK d : d = send_common(c, gid, kind)
    OBVIOUS
<1>5. c.next \in AllIds /\ n \in 1 .. MaxCmds + 1 /\ kind \in AllKinds
    BY <1>3, AtChatAssumption DEF Ids, AllIds, AllKinds
<1>6. o \in Cmds
    BY <1>1, <1>5, CmdFields
<1>7. c.queue \in Seq(Cmds) /\ c.armed \in BOOLEAN
    BY StructFields
<1>8. r \in Seq(Cmds) /\ (Len(r) = 1 <=> c.queue = <<>>)
    BY <1>2, <1>6, <1>7, AppendProperties, LenProperties, EmptySeq
<1>9. PICK q : q = [c EXCEPT !.queue = r, !.next = n]
    OBVIOUS
<1>10. /\ q \in Structs
       /\ q.open = c.open /\ q.queue = r /\ q.written = c.written /\ q.armed = c.armed
       /\ q.suspended = c.suspended /\ q.lines = c.lines /\ q.wakeup_timer = c.wakeup_timer
       /\ q.timer = c.timer /\ q.strays = c.strays /\ q.next = n /\ q.cancelled = c.cancelled
       /\ q.destroyed = c.destroyed
    BY <1>5, <1>8, <1>9 DEF Structs
<1>11. d = IF Len(q.queue) = 1 THEN Armed(q) ELSE q
    BY <1>1, <1>2, <1>3, <1>4, <1>9 DEF send_common
<1>12. PICK a : a = Armed(q)
    OBVIOUS
<1>13. /\ a \in Structs /\ a.armed
       /\ a.open = q.open /\ a.queue = q.queue /\ a.written = q.written
       /\ a.suspended = q.suspended /\ a.lines = q.lines /\ a.wakeup_timer = q.wakeup_timer
       /\ a.timer = q.timer /\ a.strays = q.strays /\ a.next = q.next /\ a.cancelled = q.cancelled
       /\ a.destroyed = q.destroyed
    BY <1>10, <1>12 DEF Armed, Structs
<1>14. CASE c.queue = <<>>
    <2>1. d = a
        BY <1>8, <1>10, <1>11, <1>12, <1>14
    <2>2. a.armed = TRUE
        BY <1>13, StructFields
    <2> QED BY <1>1, <1>2, <1>3, <1>4, <1>6, <1>10, <1>13, <1>14, <2>1, <2>2
<1>15. CASE c.queue # <<>>
    <2>1. d = q
        BY <1>8, <1>10, <1>11, <1>15
    <2> QED BY <1>1, <1>2, <1>3, <1>4, <1>6, <1>7, <1>10, <1>15, <2>1
<1> QED BY <1>14, <1>15

\* The end of a queue that is not empty does not matter to its head.
LEMMA AppendHead ==
    ASSUME NEW q \in Seq(Cmds), NEW o \in Cmds
    PROVE  /\ Append(q, o) \in Seq(Cmds) /\ Append(q, o) # <<>>
           /\ q # <<>> => Head(Append(q, o)) = Head(q)
           /\ q = <<>> => Head(Append(q, o)) = o
<1> DEFINE r == Append(q, o)
<1>1. /\ r \in Seq(Cmds) /\ Len(r) = Len(q) + 1 /\ r[Len(q) + 1] = o
      /\ Len(q) \in Nat /\ \A i \in 1 .. Len(q) : r[i] = q[i]
    BY AppendProperties, LenProperties
<1>2. (q = <<>> <=> Len(q) = 0) /\ (r = <<>> <=> Len(r) = 0)
    BY <1>1, EmptySeq
<1> HIDE DEF r
<1>3. r # <<>>
    BY <1>1, <1>2
<1>4. Head(r) = r[1]
    BY <1>1, <1>3, HeadAndTail
<1>5. CASE q # <<>>
    <2>1. Head(q) = q[1] /\ 1 \in 1 .. Len(q)
        BY <1>1, <1>2, <1>5, HeadAndTail
    <2> QED BY <1>1, <1>3, <1>4, <1>5, <2>1 DEF r
<1>6. CASE q = <<>>
    BY <1>1, <1>2, <1>3, <1>4, <1>6 DEF r
<1> QED BY <1>5, <1>6

LEMMA Sent ==
    ASSUME NEW c, NEW held, ChatOK(c, held), c.open, c.next \in Ids, ~c.suspended,
           NEW gid \in Groups, NEW kind \in Kinds
    PROVE  Keeps(c, send_common(c, gid, kind), held)
<1>1. PICK o : o = Cmd(c.next, gid, kind)
    OBVIOUS
<1>2. PICK d : d = send_common(c, gid, kind)
    OBVIOUS
<1>3. c \in Structs /\ QueueOK(c, held) /\ WriterOK(c)
    BY DEF ChatOK
<1>4. /\ d \in Structs /\ o \in Cmds
      /\ d.open = c.open /\ d.queue = Append(c.queue, o) /\ d.written = c.written
      /\ d.armed = (c.armed \/ c.queue = <<>>)
      /\ d.suspended = c.suspended /\ d.lines = c.lines
      /\ d.timer = c.timer /\ d.strays = c.strays /\ d.next = c.next + 1
      /\ d.cancelled = c.cancelled /\ d.destroyed = c.destroyed
    BY ZenonT(30), <1>1, <1>2, <1>3, SentFields
<1>5. c.queue \in Seq(Cmds) /\ c.open = TRUE /\ c.written \in 0 .. 4
    BY <1>3, StructFields
<1>6. o.id = c.next /\ o.callback /\ o.id # WAKEUP /\ o.id \in Ids
    BY <1>1, AtChatAssumption, CmdFields DEF Ids, AllIds, AllKinds, WAKEUP
<1>7. /\ QueueOK(d, held) /\ \A i \in Ids : Settled(c, i) => Settled(d, i)
      /\ \A n : WithTimers(c.queue, n) => WithTimers(d.queue, n)
    BY <1>3, <1>4, <1>5, <1>6, QueueSend
<1>8. /\ d.queue # <<>>
      /\ c.queue # <<>> => Head(d.queue) = Head(c.queue)
      /\ c.queue = <<>> => Head(d.queue) = o
    BY <1>4, <1>5, AppendHead
<1>9. c.queue = <<>> => c.written = 0
    BY <1>3 DEF WriterOK
<1>10. c.queue # <<>> => d.armed = c.armed
    BY <1>3, <1>4, StructFields
<1>11. Running(d) = Running(c)
    BY <1>4 DEF Running
<1>12. WriterOK(d)
    <2>1. WithTimers(d.queue, Running(d))
        BY <1>3, <1>7, <1>11 DEF WriterOK
    <2>2. CASE c.queue = <<>>
        <3>1. d.written = 0 /\ 0 \notin {1, 3}
            BY <1>4, <1>9, <2>2
        <3>2. d.armed
            BY <1>4, <2>2
        <3>3. 0 <= Length(Head(d.queue))
            BY DEF Length
        <3> QED BY <1>8, <2>1, <3>1, <3>2, <3>3 DEF WriterOK
    <2>3. CASE c.queue # <<>>
        BY <1>3, <1>4, <1>8, <1>10, <1>11, <2>1, <2>3 DEF WriterOK
    <2> QED BY <2>2, <2>3
<1>13. ASSUME NEW ids, HalfOK(c, ids) PROVE HalfOK(d, ids)
    <2>1. CASE c.queue = <<>>
        <3>1. d.written = 0 /\ ~(0 > 0) /\ ~(0 > 2) /\ 0 # 2 /\ ~d.suspended
            BY <1>4, <1>9, <2>1
        <3> QED BY <1>4, <1>13, <3>1 DEF HalfOK
    <2>2. CASE c.queue # <<>>
        BY <1>4, <1>8, <1>10, <1>13, <2>2 DEF HalfOK
    <2> QED BY <2>1, <2>2
<1>14. Then(Waiting(c.queue), Waiting(d.queue))
    <2>1. o \notin Dead
        BY <1>6 DEF Dead
    <2>2. Waiting(d.queue) = Append(Waiting(c.queue), o.id)
        BY <1>4, <1>5, <2>1, WaitingAppend
    <2> QED BY <1>6, <2>2 DEF Then
<1>15. c.written > 0 => d.armed = c.armed /\ d.queue # <<>> /\ Head(d.queue) = Head(c.queue)
    BY <1>5, <1>8, <1>9, <1>10
<1> QED BY <1>2, <1>3, <1>4, <1>7, <1>11, <1>12, <1>13, <1>14, <1>15 DEF Keeps, ChatOK

\* at_command_destroy, field by field.
LEMMA DestroyedFields ==
    ASSUME NEW c \in Structs, NEW cmds
    PROVE  LET d == Destroyed(c, cmds)
           IN  /\ d \in Structs
               /\ d.open = c.open /\ d.queue = c.queue /\ d.written = c.written /\ d.armed = c.armed
               /\ d.suspended = c.suspended /\ d.lines = c.lines /\ d.wakeup_timer = c.wakeup_timer
               /\ d.timer = c.timer /\ d.strays = c.strays /\ d.next = c.next /\ d.cancelled = c.cancelled
               /\ \A i \in Ids : d.destroyed[i] =
                        c.destroyed[i] + IF i \in {e.id : e \in cmds} THEN 1 ELSE 0
<1>1. PICK m : m = [i \in Ids |-> c.destroyed[i] + IF \E cmd \in cmds : cmd.id = i THEN 1 ELSE 0]
    OBVIOUS
<1>2. PICK d : d = [c EXCEPT !.destroyed = m]
    OBVIOUS
<1>3. d = Destroyed(c, cmds)
    BY <1>1, <1>2 DEF Destroyed
<1>4. c.destroyed \in [Ids -> Nat]
    BY StructFields
<1>5. m \in [Ids -> Nat]
    BY <1>1, <1>4
<1>6. \A i \in Ids : m[i] = c.destroyed[i] + IF i \in {e.id : e \in cmds} THEN 1 ELSE 0
    <2> SUFFICES ASSUME NEW i \in Ids
                 PROVE  m[i] = c.destroyed[i] + IF i \in {e.id : e \in cmds} THEN 1 ELSE 0
        OBVIOUS
    <2>1. m[i] = c.destroyed[i] + IF \E cmd \in cmds : cmd.id = i THEN 1 ELSE 0
        BY <1>1
    <2>2. (\E cmd \in cmds : cmd.id = i) <=> i \in {e.id : e \in cmds}
        OBVIOUS
    <2> QED BY <2>1, <2>2
<1>7. /\ d \in Structs /\ d.destroyed = m
      /\ d.open = c.open /\ d.queue = c.queue /\ d.written = c.written /\ d.armed = c.armed
      /\ d.suspended = c.suspended /\ d.lines = c.lines /\ d.wakeup_timer = c.wakeup_timer
      /\ d.timer = c.timer /\ d.strays = c.strays /\ d.next = c.next /\ d.cancelled = c.cancelled
    BY <1>2, <1>5 DEF Structs
<1> QED BY <1>3, <1>6, <1>7

\* A command in progress loses its callback.
LEMMA Muted ==
    ASSUME NEW q \in Seq(Cmds), q # <<>>
    PROVE  LET o == [Head(q) EXCEPT !.callback = FALSE]
           IN  /\ o \in Cmds /\ o.id = Head(q).id /\ o.kind = Head(q).kind /\ o.callback = FALSE
               /\ [q EXCEPT ![1].callback = FALSE] = <<o>> \o Tail(q)
<1>1. PICK h : h = Head(q)
    OBVIOUS
<1>2. PICK t : t = Tail(q)
    OBVIOUS
<1>3. PICK o : o = [h EXCEPT !.callback = FALSE]
    OBVIOUS
<1>4. PICK r : r = [q EXCEPT ![1] = o]
    OBVIOUS
<1>5. PICK w : w = <<o>> \o t
    OBVIOUS
<1>6. /\ h \in Cmds /\ t \in Seq(Cmds) /\ h = q[1] /\ Len(q) \in Nat \ {0}
      /\ Len(t) = Len(q) - 1 /\ \A i \in 1 .. Len(q) - 1 : t[i] = q[i + 1]
    BY <1>1, <1>2, HeadAndTail
<1>7. o \in Cmds /\ o.id = h.id /\ o.kind = h.kind /\ o.callback = FALSE
    BY <1>3, <1>6 DEF Cmds
<1>8. /\ w \in Seq(Cmds) /\ Len(w) = Len(t) + 1 /\ w[1] = o /\ Len(t) \in Nat
      /\ \A i \in 1 .. Len(t) : w[i + 1] = t[i]
    BY <1>5, <1>6, <1>7, Before
<1>9. r \in Seq(Cmds) /\ Len(r) = Len(q) /\ \A i \in 1 .. Len(q) : r[i] = IF i = 1 THEN o ELSE q[i]
    BY <1>4, <1>6, <1>7, ExceptSeq
<1>10. \A i \in 1 .. Len(q) : r[i] = w[i]
    <2> SUFFICES ASSUME NEW i \in 1 .. Len(q) PROVE r[i] = w[i]
        OBVIOUS
    <2>1. CASE i = 1
        BY <1>8, <1>9, <2>1
    <2>2. CASE i # 1
        <3>1. PICK j : j = i - 1
            OBVIOUS
        <3>2. j \in 1 .. Len(t) /\ j \in 1 .. Len(q) - 1 /\ i = j + 1
            BY <1>6, <2>2, <3>1
        <3>3. r[i] = q[i]
            BY <1>9, <2>2
        <3>4. w[i] = t[j] /\ t[j] = q[i]
            BY <1>6, <1>8, <3>2
        <3> QED BY <3>3, <3>4
    <2> QED BY <2>1, <2>2
<1>11. r = w
    BY <1>6, <1>8, <1>9, <1>10, SeqEqual
<1>12. [q EXCEPT ![1].callback = FALSE] = r
    BY <1>3, <1>4, <1>6
<1> QED BY <1>1, <1>2, <1>3, <1>5, <1>7, <1>11, <1>12

\* cancel and cancel_group, field by field.
Out(c, cmds) == {cmd \in cmds : InProgress(c, cmd)}
Kept(c, cmds) == Without(c.queue, cmds \ Out(c, cmds))
Left(c, cmds) ==
    IF Out(c, cmds) = {} THEN Kept(c, cmds) ELSE [Kept(c, cmds) EXCEPT ![1].callback = FALSE]

Cancels(c, d, cmds) ==
    /\ d.open = c.open /\ d.queue = Left(c, cmds) /\ d.written = c.written /\ d.armed = c.armed
    /\ d.suspended = c.suspended /\ d.lines = c.lines /\ d.wakeup_timer = c.wakeup_timer
    /\ d.timer = c.timer /\ d.strays = c.strays /\ d.next = c.next
    /\ d.cancelled = c.cancelled \cup {e.id : e \in cmds}
    /\ \A i \in Ids : d.destroyed[i] =
             c.destroyed[i] + IF i \in {e.id : e \in cmds \ Out(c, cmds)} THEN 1 ELSE 0

LEMMA CancelledFields ==
    ASSUME NEW c \in Structs, NEW cmds, \A e \in cmds : e \in Cmds /\ e.id \in Ids,
           Left(c, cmds) \in Seq(Cmds), NEW d, d = cancelled(c, cmds)
    PROVE  d \in Structs /\ Cancels(c, d, cmds)
<1>1. PICK gone : gone = c.cancelled \cup {e.id : e \in cmds}
    OBVIOUS
<1>2. gone \in SUBSET Ids
    BY <1>1, StructFields
<1>3. PICK q : q = Left(c, cmds)
    OBVIOUS
<1>4. PICK out : out = Out(c, cmds)
    OBVIOUS
<1>5. PICK b : b = [c EXCEPT !.queue = q, !.cancelled = gone]
    OBVIOUS
<1>6. /\ b \in Structs /\ b.destroyed = c.destroyed
      /\ b.open = c.open /\ b.queue = q /\ b.written = c.written /\ b.armed = c.armed
      /\ b.suspended = c.suspended /\ b.lines = c.lines /\ b.wakeup_timer = c.wakeup_timer
      /\ b.timer = c.timer /\ b.strays = c.strays /\ b.next = c.next /\ b.cancelled = gone
    BY <1>2, <1>3, <1>5 DEF Structs
<1>7. d = Destroyed(b, cmds \ out)
    BY <1>1, <1>3, <1>4, <1>5 DEF cancelled, Out, Kept, Left
<1>8. /\ d \in Structs
      /\ d.open = b.open /\ d.queue = b.queue /\ d.written = b.written /\ d.armed = b.armed
      /\ d.suspended = b.suspended /\ d.lines = b.lines /\ d.wakeup_timer = b.wakeup_timer
      /\ d.timer = b.timer /\ d.strays = b.strays /\ d.next = b.next /\ d.cancelled = b.cancelled
      /\ \A i \in Ids : d.destroyed[i] =
               b.destroyed[i] + IF i \in {e.id : e \in cmds \ out} THEN 1 ELSE 0
    BY <1>6, <1>7, DestroyedFields
<1> QED BY <1>1, <1>3, <1>4, <1>6, <1>8 DEF Cancels

LEMMA CancelCalled ==
    ASSUME NEW c, NEW held, ChatOK(c, held), c.open,
           NEW cmds, \A e \in cmds : e \in Queued(c) /\ e.id # WAKEUP
    PROVE  Keeps(c, cancelled(c, cmds), held)
<1>1. PICK q : q = c.queue
    OBVIOUS
<1>2. PICK out : out = Out(c, cmds)
    OBVIOUS
<1>3. PICK gone : gone = cmds \ out
    OBVIOUS
<1>4. PICK kept : kept = Without(q, gone)
    OBVIOUS
<1>5. PICK r : r = IF out = {} THEN kept ELSE [kept EXCEPT ![1].callback = FALSE]
    OBVIOUS
<1>6. PICK left : left = {e.id : e \in cmds}
    OBVIOUS
<1>7. PICK dropped : dropped = {e.id : e \in gone}
    OBVIOUS
<1>8. c \in Structs /\ QueueOK(c, held) /\ WriterOK(c)
    BY DEF ChatOK
<1>9. q \in Seq(Cmds) /\ c.open = TRUE /\ c.written \in 0 .. 4
    BY <1>1, <1>8, StructFields
<1>10. Increasing(q)
    BY <1>1, <1>8 DEF QueueOK, InOrder
<1>11. /\ Len(q) \in Nat /\ DOMAIN q = 1 .. Len(q) /\ (q = <<>> <=> Len(q) = 0)
       /\ \A k \in 1 .. Len(q) : q[k] \in Cmds /\ q[k].id \in AllIds
       /\ \A j, k \in 1 .. Len(q) : q[j].id = q[k].id /\ q[j].id # WAKEUP => j = k
       /\ q # <<>> => Head(q) = q[1] /\ 1 \in 1 .. Len(q) /\ Head(q) \in Cmds
    BY <1>9, <1>10, QueueFacts
<1>12. \A e \in cmds : \E k \in 1 .. Len(q) : q[k] = e
    BY <1>1, <1>11 DEF Queued
<1>13. \A e \in cmds : e \in Cmds /\ e.id \in Ids
    <2> SUFFICES ASSUME NEW e \in cmds PROVE e \in Cmds /\ e.id \in Ids
        OBVIOUS
    <2>1. e \in Cmds /\ e.id \in AllIds /\ e.id # 0
        BY <1>11, <1>12 DEF WAKEUP
    <2> QED BY <2>1, AtChatAssumption DEF AllIds, Ids
<1>14. \A e \in out : e \in cmds /\ e = Head(q) /\ c.written > 0
    BY <1>1, <1>2 DEF InProgress, Out
<1>15. c.written > 0 => q # <<>>
    BY <1>1, <1>8, <1>9 DEF WriterOK
<1>16. out = {} => (c.written = 0 \/ Head(q) \notin cmds)
    BY <1>1, <1>2, <1>9 DEF InProgress, Out
<1>17. \A e \in gone : e.id # WAKEUP /\ \E k \in 1 .. Len(q) : q[k] = e
    BY <1>3, <1>12
<1>18. /\ kept \in Seq(Cmds) /\ Increasing(kept)
       /\ \A k \in 1 .. Len(q) : q[k] \in gone <=> q[k].id \in dropped
       /\ \A k \in 1 .. Len(kept) : kept[k] \notin gone /\ kept[k].id \notin dropped
                                    /\ \E j \in 1 .. Len(q) : kept[k] = q[j]
       /\ \A i : Has(kept, i) <=> Has(q, i) /\ i \notin dropped
       /\ \A n : WithTimers(q, n) => WithTimers(kept, n)
    BY <1>4, <1>7, <1>9, <1>10, <1>17, FilterFacts
<1>19. left \in SUBSET Ids /\ dropped \in SUBSET Ids
    BY <1>3, <1>6, <1>7, <1>13
<1>20. r = Left(c, cmds)
    BY <1>1, <1>2, <1>3, <1>4, <1>5 DEF Left, Kept
\* The two cases of the new queue.
<1>21. CASE out = {}
    <2>1. r = kept /\ gone = cmds /\ dropped = left
        BY <1>3, <1>5, <1>6, <1>7, <1>21
    <2>2. PICK d : d = cancelled(c, cmds)
        OBVIOUS
    <2>3. /\ d \in Structs
          /\ d.open = c.open /\ d.queue = r /\ d.written = c.written /\ d.armed = c.armed
          /\ d.suspended = c.suspended /\ d.lines = c.lines /\ d.wakeup_timer = c.wakeup_timer
          /\ d.timer = c.timer /\ d.strays = c.strays /\ d.next = c.next
          /\ d.cancelled = c.cancelled \cup {e.id : e \in cmds}
          /\ \A i \in Ids : d.destroyed[i] =
                   c.destroyed[i] + IF i \in {e.id : e \in cmds \ out} THEN 1 ELSE 0
        <3>1. r \in Seq(Cmds)
            BY <1>18, <2>1
        <3>2. Left(c, cmds) \in Seq(Cmds)
            BY <1>20, <3>1
        <3>3. d \in Structs /\ Cancels(c, d, cmds)
            BY <1>8, <1>13, <2>2, <3>2, CancelledFields
        <3> QED BY <1>2, <1>20, <3>3 DEF Cancels
    <2>4. d.cancelled = c.cancelled \cup left
          /\ \A i \in Ids : d.destroyed[i] = c.destroyed[i] + IF i \in left THEN 1 ELSE 0
        BY <1>3, <1>6, <1>7, <2>1, <2>3
    <2>5. \A i : Has(r, i) <=> Has(q, i) /\ i \notin left
        BY <1>18, <2>1
    <2>6. \A i \in left : Has(q, i)
        BY <1>6, <1>12 DEF Has
    <2>7. \A k \in 1 .. Len(r) : r[k].id \notin left /\ \E j \in 1 .. Len(q) : Stays(r[k], q[j])
        BY <1>18, <2>1 DEF Stays
    <2>8. QueueOK(d, held) /\ \A i \in Ids : Settled(c, i) => Settled(d, i)
        <3>1. d.next = c.next /\ d.open = TRUE /\ d \in Structs /\ d.cancelled = c.cancelled \cup left
            BY <1>9, <2>1, <2>3, <2>4, <2>5, <2>6, <2>7
        <3>2. /\ Increasing(d.queue)
              /\ \A k \in 1 .. Len(d.queue) : \E j \in 1 .. Len(c.queue) : Stays(d.queue[k], c.queue[j])
              /\ \A k \in 1 .. Len(d.queue) : d.queue[k].callback => d.queue[k].id \notin left
            BY <1>1, <1>18, <1>19, <2>1, <2>3, <2>4, <2>5, <2>6, <2>7
        <3>3. /\ \A i : Has(d.queue, i) <=> Has(c.queue, i) /\ i \notin left
              /\ \A i \in left : Has(c.queue, i)
              /\ \A i \in left : Has(c.queue, i)
            BY <1>1, <1>18, <1>19, <2>1, <2>3, <2>4, <2>5, <2>6, <2>7
        <3>4. \A i \in Ids : d.destroyed[i] = c.destroyed[i] + IF i \in left THEN 1 ELSE 0
            BY <2>1, <2>3, <2>4, <2>5, <2>6, <2>7
        <3>5. Drops(c, d, left, left)
            BY <3>1, <3>2, <3>3, <3>4 DEF Drops
        <3> QED BY <1>8, <1>9, <1>19, <3>1, <3>5, QueueDrop
    <2>9. Then(Waiting(q), Waiting(r))
        <3>1. \A k \in 1 .. Len(q) : q[k] \in gone <=> q[k].id \in left
            BY <1>18, <2>1
        <3>2. Waiting(kept) = Without(Waiting(q), left)
            BY <1>4, <1>9, <3>1, WaitingFilter
        <3> QED BY <1>19, <2>1, <3>2 DEF Then
    <2>10. q # <<>> /\ Head(q) \notin cmds => r # <<>> /\ Head(r) = Head(q)
        <3> SUFFICES ASSUME q # <<>>, Head(q) \notin cmds PROVE r # <<>> /\ Head(r) = Head(q)
            OBVIOUS
        <3>1. Head(q) \in Cmds /\ Tail(q) \in Seq(Cmds) /\ q = <<Head(q)>> \o Tail(q)
            BY <1>9, HeadAndTail
        <3>2. PICK h, t : h = Head(q) /\ t = Tail(q)
            OBVIOUS
        <3>3. h \in Cmds /\ t \in Seq(Cmds) /\ h \notin gone
            BY <2>1, <3>1, <3>2
        <3>4. q = <<h>> \o t
            BY <3>1, <3>2
        <3>5. Without(<<h>> \o t, gone) = <<h>> \o Without(t, gone)
            BY <3>3, WithoutBefore
        <3>6. r = <<h>> \o Without(t, gone)
            BY <1>4, <2>1, <3>4, <3>5
        <3>7. Without(t, gone) \in Seq(Cmds)
            BY <3>3, WithoutKeeps
        <3> QED BY <3>2, <3>3, <3>6, <3>7, Before
    <2>11. r # <<>> => q # <<>>
        BY <1>4, <2>1, WithoutEmpty
    <2>12. \A n : WithTimers(q, n) => WithTimers(r, n)
        BY <1>18, <2>1
    <2>13. Running(d) = Running(c)
        BY <2>3 DEF Running
    <2>14. c.written > 0 => q # <<>> /\ r # <<>> /\ Head(r) = Head(q)
        BY <1>9, <1>15, <1>16, <1>21, <2>10
    <2>15. WriterOK(d)
        <3>1. WithTimers(r, Running(d))
            BY <1>1, <1>8, <2>12, <2>13 DEF WriterOK
        <3>2. CASE c.written = 0
            <4>1. 0 <= Length(Head(r)) /\ 0 \notin {1, 3}
                BY DEF Length
            <4>2. r # <<>> /\ ~c.suspended => c.armed \/ Running(c) > 0
                BY <1>1, <1>8, <2>11, <3>2 DEF WriterOK
            <4> QED BY <2>3, <2>13, <3>1, <3>2, <4>1, <4>2 DEF WriterOK
        <3>3. CASE c.written # 0
            <4>1. c.written > 0
                BY <1>9, <3>3
            <4> QED BY <1>1, <1>8, <2>3, <2>13, <2>14, <3>1, <3>3, <4>1 DEF WriterOK
        <3> QED BY <3>2, <3>3
    <2>16. ASSUME NEW ids, HalfOK(c, ids) PROVE HalfOK(d, ids)
        <3>1. CASE c.written = 0
            <4>1. c.queue # <<>> /\ Head(c.queue).id # WAKEUP /\ r # <<>> => Head(r).id # WAKEUP
                BY <1>1, <1>9, <1>10, <1>18, <2>1, <2>12, NoWakeup
            <4>2. ~(0 > 0) /\ ~(0 > 2) /\ 0 # 2
                OBVIOUS
            <4> QED BY <1>1, <2>3, <2>11, <2>16, <3>1, <4>1, <4>2 DEF HalfOK
        <3>2. CASE c.written # 0
            <4>1. c.written > 0
                BY <1>9, <3>2
            <4> QED BY <1>1, <2>3, <2>14, <2>16, <4>1 DEF HalfOK
        <3> QED BY <3>1, <3>2
    <2> QED BY <1>1, <2>2, <2>3, <2>8, <2>9, <2>12, <2>13, <2>14, <2>15, <2>16 DEF Keeps, ChatOK
<1>22. CASE out # {}
    <2>1. PICK h : h = Head(q)
        OBVIOUS
    <2>2. PICK t : t = Tail(q)
        OBVIOUS
    <2>3. h \in cmds /\ out = {h} /\ c.written > 0 /\ q # <<>>
        BY <1>14, <1>15, <1>22, <2>1
    <2>4. h \in Cmds /\ t \in Seq(Cmds) /\ q = <<h>> \o t /\ h = q[1] /\ 1 \in 1 .. Len(q)
        BY <1>9, <1>11, <2>1, <2>2, <2>3, HeadAndTail
    <2>5. PICK w : w = Without(t, gone)
        OBVIOUS
    <2>6. w \in Seq(Cmds)
        BY <2>4, <2>5, WithoutKeeps
    <2>7. h \notin gone
        BY <1>3, <2>3
    <2>8. kept = <<h>> \o w
        <3>1. Without(<<h>> \o t, gone) = <<h>> \o Without(t, gone)
            BY <2>4, <2>7, WithoutBefore
        <3> QED BY <1>4, <2>4, <2>5, <3>1
    <2>9. kept # <<>> /\ Head(kept) = h /\ Tail(kept) = w /\ kept[1] = h
        BY <2>4, <2>6, <2>8, Before
    <2>10. PICK o : o = [h EXCEPT !.callback = FALSE]
        OBVIOUS
    <2>11. o \in Cmds /\ o.id = h.id /\ o.kind = h.kind /\ o.callback = FALSE
           /\ r = <<o>> \o w
        BY <1>5, <1>18, <1>22, <2>9, <2>10, Muted
    <2>12. /\ r \in Seq(Cmds) /\ r # <<>> /\ Head(r) = o /\ r[1] = o /\ Len(r) = Len(w) + 1
           /\ Len(w) \in Nat
           /\ Len(kept) = Len(w) + 1
           /\ \A i \in 1 .. Len(w) : r[i + 1] = w[i] /\ kept[i + 1] = w[i]
        BY <2>4, <2>6, <2>8, <2>11, Before
    <2>13. \A k \in 1 .. Len(r) : k = 1 \/ r[k] = kept[k]
        <3> SUFFICES ASSUME NEW k \in 1 .. Len(r), k # 1 PROVE r[k] = kept[k]
            OBVIOUS
        <3>1. PICK i : i = k - 1
            OBVIOUS
        <3>2. i \in 1 .. Len(w) /\ k = i + 1
            BY <2>12, <3>1
        <3> QED BY <2>12, <3>2
    <2>14. Len(r) = Len(kept) /\ \A k \in 1 .. Len(r) : k \in 1 .. Len(kept) /\ r[k].id = kept[k].id
        BY <2>9, <2>11, <2>12, <2>13
    <2>15. Increasing(r)
        BY <1>18, <2>14 DEF Increasing
    <2>16. \A i : Has(r, i) <=> Has(kept, i)
        BY <2>14 DEF Has
    <2>17. left = dropped \cup {h.id}
        BY <1>3, <1>6, <1>7, <2>3
    <2>18. PICK d : d = cancelled(c, cmds)
        OBVIOUS
    <2>19. /\ d \in Structs
           /\ d.open = c.open /\ d.queue = r /\ d.written = c.written /\ d.armed = c.armed
           /\ d.suspended = c.suspended /\ d.lines = c.lines /\ d.wakeup_timer = c.wakeup_timer
           /\ d.timer = c.timer /\ d.strays = c.strays /\ d.next = c.next
           /\ d.cancelled = c.cancelled \cup {e.id : e \in cmds}
           /\ \A i \in Ids : d.destroyed[i] =
                    c.destroyed[i] + IF i \in {e.id : e \in cmds \ out} THEN 1 ELSE 0
        <3>1. r \in Seq(Cmds)
            BY <2>12
        <3>2. Left(c, cmds) \in Seq(Cmds)
            BY <1>20, <3>1
        <3>3. d \in Structs /\ Cancels(c, d, cmds)
            BY <1>8, <1>13, <2>18, <3>2, CancelledFields
        <3> QED BY <1>2, <1>20, <3>3 DEF Cancels
    <2>20. d.cancelled = c.cancelled \cup left
           /\ \A i \in Ids : d.destroyed[i] = c.destroyed[i] + IF i \in dropped THEN 1 ELSE 0
        BY <1>3, <1>6, <1>7, <2>19
    <2>21. \A i \in left : Has(q, i)
        BY <1>6, <1>12 DEF Has
    <2>22. \A i \in dropped : Has(q, i)
        BY <2>17, <2>21
    <2>23. \A i : Has(r, i) <=> Has(q, i) /\ i \notin dropped
        BY <1>18, <2>16
    <2>24. h.id # WAKEUP
        BY <2>3
    <2>25. \A k \in 1 .. Len(r) : \E j \in 1 .. Len(q) : Stays(r[k], q[j])
        <3> SUFFICES ASSUME NEW k \in 1 .. Len(r) PROVE \E j \in 1 .. Len(q) : Stays(r[k], q[j])
            OBVIOUS
        <3>1. CASE k = 1
            BY <2>4, <2>11, <2>12, <2>24, <3>1 DEF Stays
        <3>2. CASE k # 1
            <4>1. k \in 1 .. Len(kept) /\ r[k] = kept[k]
                BY <2>13, <2>14, <3>2
            <4> QED BY <1>18, <4>1 DEF Stays
        <3> QED BY <3>1, <3>2
    <2>26. \A k \in 1 .. Len(r) : r[k].callback => r[k].id \notin left
        <3> SUFFICES ASSUME NEW k \in 1 .. Len(r), r[k].callback PROVE r[k].id \notin left
            OBVIOUS
        <3>1. k # 1
            BY <2>11, <2>12
        <3>2. k \in 1 .. Len(kept) /\ r[k] = kept[k]
            BY <2>13, <2>14, <3>1
        <3>3. r[k].id \notin dropped
            BY <1>18, <3>2
        <3>4. r[k].id # h.id
            <4>1. r[k].id = r[1].id /\ r[1].id # WAKEUP => k = 1
                BY <2>12, <2>15, QueueFacts
            <4> QED BY <2>11, <2>12, <2>24, <3>1, <4>1
        <3> QED BY <2>17, <3>3, <3>4
    <2>27. QueueOK(d, held) /\ \A i \in Ids : Settled(c, i) => Settled(d, i)
        <3>1. d.next = c.next /\ d.open = TRUE /\ d \in Structs /\ d.cancelled = c.cancelled \cup left
            BY <1>9, <2>15, <2>19, <2>20, <2>21, <2>22, <2>23, <2>25, <2>26
        <3>2. /\ Increasing(d.queue)
              /\ \A k \in 1 .. Len(d.queue) : \E j \in 1 .. Len(c.queue) : Stays(d.queue[k], c.queue[j])
              /\ \A k \in 1 .. Len(d.queue) : d.queue[k].callback => d.queue[k].id \notin left
            BY <1>1, <1>19, <2>15, <2>19, <2>20, <2>21, <2>22, <2>23, <2>25, <2>26
        <3>3. /\ \A i : Has(d.queue, i) <=> Has(c.queue, i) /\ i \notin dropped
              /\ \A i \in dropped : Has(c.queue, i)
              /\ \A i \in left : Has(c.queue, i)
            BY <1>1, <1>19, <2>15, <2>19, <2>20, <2>21, <2>22, <2>23, <2>25, <2>26
        <3>4. \A i \in Ids : d.destroyed[i] = c.destroyed[i] + IF i \in dropped THEN 1 ELSE 0
            BY <2>15, <2>19, <2>20, <2>21, <2>22, <2>23, <2>25, <2>26
        <3>5. Drops(c, d, dropped, left)
            BY <3>1, <3>2, <3>3, <3>4 DEF Drops
        <3> QED BY <1>8, <1>9, <1>19, <3>1, <3>5, QueueDrop
    <2>28. Then(Waiting(q), Waiting(r))
        <3>1. Waiting(r) = Waiting(w)
            BY <2>6, <2>11, WaitingBefore DEF Dead
        <3>2. \A k \in 1 .. Len(t) : t[k] \in gone <=> t[k].id \in left
            <4> SUFFICES ASSUME NEW k \in 1 .. Len(t) PROVE t[k] \in gone <=> t[k].id \in left
                OBVIOUS
            <4>1. k + 1 \in 1 .. Len(q) /\ t[k] = q[k + 1] /\ k + 1 # 1
                BY <1>9, <2>2, <2>3, HeadAndTail
            <4>2. q[k + 1].id # q[1].id
                BY <1>11, <2>4, <2>24, <4>1
            <4>3. t[k].id # h.id
                BY <2>4, <4>1, <4>2
            <4> QED BY <1>18, <2>17, <4>1, <4>3
        <3>3. Waiting(w) = Without(Waiting(t), left)
            BY <2>4, <2>5, <3>2, WaitingFilter
        <3>4. Waiting(t) \in Seq(AllIds) /\ h.id \in AllIds
            BY <1>11, <2>4, WaitingIs
        <3>5. h.id \in left
            BY <2>17
        <3>6. Without(<<h.id>> \o Waiting(t), left) = Without(Waiting(t), left)
            BY <3>4, <3>5, WithoutBefore
        <3>7. Waiting(q) = Waiting(t) \/ Waiting(q) = <<h.id>> \o Waiting(t)
            BY <2>4, WaitingBefore
        <3>8. Waiting(r) = Without(Waiting(q), left)
            BY <3>1, <3>3, <3>6, <3>7
        <3> QED BY <1>19, <3>8 DEF Then
    <2>29. Head(r).id = Head(q).id /\ Head(r).kind = Head(q).kind /\ Length(Head(r)) = Length(Head(q))
        BY <2>1, <2>11, <2>12 DEF Length
    <2>30. \A n : WithTimers(q, n) => WithTimers(r, n)
        BY <1>18, <2>14 DEF WithTimers
    <2>31. Running(d) = Running(c)
        BY <2>19 DEF Running
    <2>32. WriterOK(d)
        <3>1. WithTimers(r, Running(d))
            BY <1>1, <1>8, <2>30, <2>31 DEF WriterOK
        <3> QED BY <1>1, <1>8, <2>3, <2>12, <2>19, <2>29, <2>31, <3>1 DEF WriterOK
    <2>33. ASSUME NEW ids, HalfOK(c, ids) PROVE HalfOK(d, ids)
        <3>1. ~c.suspended
            BY <1>9, <2>3, <2>33 DEF HalfOK
        <3> QED BY <1>1, <2>3, <2>12, <2>19, <2>29, <2>33, <3>1 DEF HalfOK
    <2> QED BY <1>1, <2>12, <2>18, <2>19, <2>27, <2>28, <2>29, <2>30, <2>31, <2>32, <2>33 DEF Keeps, ChatOK
<1> QED BY <1>21, <1>22

LEMMA ClosedCalled ==
    ASSUME NEW c, NEW held, ChatOK(c, held), c.open
    PROVE  Keeps(c, closed(c), held) /\ ~closed(c).open
<1>1. PICK q : q = c.queue
    OBVIOUS
<1>2. PICK cmds : cmds = Queued(c)
    OBVIOUS
<1>3. PICK left : left = {i \in Ids : \E e \in cmds : e.id = i}
    OBVIOUS
<1>4. PICK b : b = [c EXCEPT !.open = FALSE, !.queue = <<>>, !.written = 0, !.armed = FALSE,
                             !.lines = <<>>, !.timer = FALSE]
    OBVIOUS
<1>5. PICK d : d = closed(c)
    OBVIOUS
<1>6. c \in Structs /\ QueueOK(c, held) /\ c.open
    BY DEF ChatOK
<1>7. q \in Seq(Cmds) /\ <<>> \in Seq(Cmds) /\ <<>> \in Seq(AllIds) /\ Len(<<>>) = 0
    BY <1>1, <1>6, StructFields, EmptySeq
<1>8. /\ b \in Structs /\ b.destroyed = c.destroyed
      /\ b.open = FALSE /\ b.queue = <<>> /\ b.written = 0 /\ b.armed = FALSE
      /\ b.suspended = c.suspended /\ b.lines = <<>> /\ b.timer = FALSE /\ b.next = c.next
      /\ b.cancelled = c.cancelled
    <2>1. b \in Structs
        <3>1. PICK f : f = FALSE
            OBVIOUS
        <3>2. PICK e : e = <<>>
            OBVIOUS
        <3>3. PICK n : n = 0
            OBVIOUS
        <3>4. f \in BOOLEAN /\ e \in Seq(Cmds) /\ e \in Seq(AllIds) /\ n \in 0 .. 4
            <4>1. f \in BOOLEAN
                BY <3>1
            <4>2. e \in Seq(Cmds) /\ e \in Seq(AllIds)
                BY <1>7, <3>2, Zenon
            <4>3. n \in 0 .. 4
                BY <3>3
            <4> QED BY <4>1, <4>2, <4>3
        <3>5. b = [c EXCEPT !.open = f, !.queue = e, !.written = n, !.armed = f, !.lines = e, !.timer = f]
            BY <1>4, <3>1, <3>2, <3>3
        <3> QED BY <1>6, <3>4, <3>5 DEF Structs
    <2>2. /\ b.destroyed = c.destroyed /\ b.suspended = c.suspended /\ b.next = c.next
          /\ b.cancelled = c.cancelled
        BY <1>4, <1>6 DEF Structs
    <2>3. b.open = FALSE /\ b.queue = <<>> /\ b.written = 0
        BY <1>4, <1>6 DEF Structs
    <2>4. b.armed = FALSE /\ b.lines = <<>> /\ b.timer = FALSE
        BY <1>4, <1>6 DEF Structs
    <2> QED BY <2>1, <2>2, <2>3, <2>4
<1>9. d = Destroyed(b, cmds)
    BY <1>2, <1>4, <1>5 DEF closed
<1>10. /\ d \in Structs
       /\ d.open = FALSE /\ d.queue = <<>> /\ d.written = 0 /\ d.armed = FALSE
       /\ d.suspended = c.suspended /\ d.lines = <<>> /\ d.timer = FALSE /\ d.next = c.next
       /\ d.cancelled = c.cancelled
       /\ \A i \in Ids : d.destroyed[i] = b.destroyed[i] + IF i \in {e.id : e \in cmds} THEN 1 ELSE 0
    BY <1>8, <1>9, DestroyedFields
<1>11. Increasing(q)
    BY <1>1, <1>6 DEF QueueOK, InOrder
<1>12. /\ Len(q) \in Nat /\ DOMAIN q = 1 .. Len(q)
       /\ \A k \in 1 .. Len(q) : q[k] \in Cmds /\ q[k].id \in AllIds
    BY <1>7, <1>11, QueueFacts
<1>13. \A i \in Ids : i \in left <=> Has(q, i)
    <2>1. \A e : e \in cmds <=> \E k \in 1 .. Len(q) : e = q[k]
        BY <1>1, <1>2, <1>12 DEF Queued
    <2> QED BY <1>3, <2>1 DEF Has
<1>14. Drops(c, d, left, {})
    <2>1. \A k \in 1 .. Len(d.queue) : FALSE
        BY <1>7, <1>10
    <2>2. \A i : ~Has(d.queue, i)
        BY <2>1 DEF Has
    <2>3. Increasing(d.queue)
        BY <2>1 DEF Increasing
    <2>4. d.next = c.next /\ d.queue = <<>> /\ d.cancelled = c.cancelled \cup {}
        BY <1>10
    <2>5. \A i \in Ids : Has(d.queue, i) <=> Has(c.queue, i) /\ i \notin left
        BY <1>1, <1>13, <2>2
    <2>6. \A i \in left : Has(c.queue, i)
        BY <1>1, <1>3, <1>13
    <2>7. \A i \in Ids : d.destroyed[i] = c.destroyed[i] + IF i \in left THEN 1 ELSE 0
        BY <1>3, <1>8, <1>10
    <2> QED BY <2>1, <2>3, <2>4, <2>5, <2>6, <2>7 DEF Drops
<1>15. QueueOK(d, held) /\ \A i \in Ids : Settled(c, i) => Settled(d, i)
    <2>1. {} \in SUBSET Ids /\ left \in SUBSET Ids
        BY <1>3
    <2> QED BY <1>6, <1>10, <1>14, <2>1, QueueDrop
<1>16. (\A n : WithTimers(d.queue, n)) /\ WriterOK(d)
    <2>1. \A n : WithTimers(d.queue, n)
        BY <1>7, <1>10 DEF WithTimers
    <2> QED BY <1>7, <1>10, <2>1 DEF WriterOK
<1>17. \A ids : HalfOK(d, ids)
    BY <1>7, <1>10 DEF HalfOK
<1>18. Then(Waiting(q), Waiting(d.queue))
    <2>1. PICK w : w = Without(q, Cmds)
        OBVIOUS
    <2>2. /\ w \in Seq(Cmds) /\ Len(w) \in Nat
          /\ \A k \in 1 .. Len(w) : w[k] \notin Cmds /\ \E j \in 1 .. Len(q) : w[k] = q[j]
        BY <1>7, <2>1, WithoutKeeps
    <2>3. \A k \in 1 .. Len(w) : FALSE
        BY <1>12, <2>2
    <2>4. Len(w) = 0
        <3>1. 1 \notin 1 .. Len(w)
            BY <2>3
        <3> QED BY <2>2, <3>1
    <2>5. w = <<>>
        BY <2>2, <2>4, EmptySeq
    <2>6. \A k \in 1 .. Len(q) : q[k] \in Dead \/ (q[k] \in Cmds <=> q[k].id \in Ids)
        <3> SUFFICES ASSUME NEW k \in 1 .. Len(q) PROVE q[k] \in Dead \/ (q[k] \in Cmds <=> q[k].id \in Ids)
            OBVIOUS
        <3>1. q[k] \in Cmds /\ q[k].id \in AllIds
            BY <1>12
        <3>2. CASE q[k].id = WAKEUP
            BY <3>1, <3>2 DEF Dead
        <3>3. CASE q[k].id # WAKEUP
            BY <3>1, <3>3, AtChatAssumption DEF AllIds, Ids, WAKEUP
        <3> QED BY <3>2, <3>3
    <2>7. Waiting(w) = Without(Waiting(q), Ids)
        BY <1>7, <2>1, <2>6, WaitingFilter
    <2>8. Ids \in SUBSET Ids
        OBVIOUS
    <2> QED BY <1>10, <2>5, <2>7, <2>8 DEF Then
<1> QED BY <1>1, <1>5, <1>10, <1>15, <1>16, <1>17, <1>18 DEF Keeps, ChatOK

\* The channel is handed to PPP when nothing is being written.
LEMMA SuspendCalled ==
    ASSUME NEW c, NEW held, ChatOK(c, held), c.open, c.written = 0,
           WithTimers(c.queue, 0)
    PROVE  Keeps(c, at_chat_suspend(c), held)
<1>1. PICK n : n = c.suspends + 1
    OBVIOUS
<1>2. PICK d : d = at_chat_suspend(c)
    OBVIOUS
<1>3. c \in Structs /\ QueueOK(c, held) /\ WriterOK(c)
    BY DEF ChatOK
<1>4. n \in Nat
    BY <1>1, <1>3, StructFields
<1>5. d = [c EXCEPT !.suspended = TRUE, !.armed = FALSE, !.suspends = n]
    BY <1>1, <1>2 DEF at_chat_suspend
<1>6. /\ d \in Structs
      /\ d.open = c.open /\ d.queue = c.queue /\ d.written = c.written /\ d.armed = FALSE
      /\ d.suspended = TRUE /\ d.lines = c.lines
      /\ d.timer = c.timer /\ d.strays = c.strays /\ d.next = c.next
      /\ d.cancelled = c.cancelled /\ d.destroyed = c.destroyed
    BY <1>3, <1>4, <1>5 DEF Structs
<1>7. QueueOK(d, held) /\ \A i \in Ids : Settled(c, i) => Settled(d, i)
    BY <1>3, <1>6 DEF QueueOK, Settled
<1>8. Running(d) = Running(c)
    BY <1>6 DEF Running
<1>9. WriterOK(d)
    <2>1. 0 <= Length(Head(d.queue)) /\ 0 \notin {1, 3}
        BY DEF Length
    <2> QED BY <1>3, <1>6, <1>8, <2>1 DEF WriterOK
<1>10. c.queue # <<>> => Head(c.queue).id # WAKEUP
    BY <1>3, StructFields, NoWakeup DEF QueueOK, InOrder
<1>11. ASSUME NEW ids, HalfOK(c, ids) PROVE HalfOK(d, ids)
    <2>1. ~(0 > 0) /\ ~(0 > 2) /\ 0 # 2
        OBVIOUS
    <2> QED BY <1>6, <1>10, <1>11, <2>1 DEF HalfOK
<1>12. Then(Waiting(c.queue), Waiting(d.queue))
    BY <1>6 DEF Then
<1>13. ~(c.written > 0)
    OBVIOUS
<1> QED BY <1>2, <1>6, <1>7, <1>8, <1>9, <1>11, <1>12, <1>13 DEF Keeps, ChatOK

\* Every call of a client, and every reaction of a callback.
LEMMA CallsCalled ==
    ASSUME NEW c, NEW held, ChatOK(c, held), c.open, NEW d \in Calls(c)
    PROVE  Keeps(c, d, held)
<1>1. CASE \E gid \in {g \in Groups : c.next \in Ids /\ ~c.suspended}, kind \in Kinds :
               d = send_common(c, gid, kind)
    <2>1. PICK gid \in Groups, kind \in Kinds :
              c.next \in Ids /\ ~c.suspended /\ d = send_common(c, gid, kind)
        BY <1>1
    <2> QED BY <2>1, Sent
<1>2. CASE \E cmd \in {e \in Queued(c) : e.id # WAKEUP} : d = cancelled(c, {cmd})
    <2>1. PICK cmd \in Queued(c) : cmd.id # WAKEUP /\ d = cancelled(c, {cmd})
        BY <1>2
    <2>2. \A e \in {cmd} : e \in Queued(c) /\ e.id # WAKEUP
        BY <2>1
    <2> QED BY <2>1, <2>2, CancelCalled
<1>3. CASE \E gid \in Groups : d = cancelled(c, OfGroup(c, gid))
    <2>1. PICK gid \in Groups : d = cancelled(c, OfGroup(c, gid))
        BY <1>3
    <2>2. \A e \in OfGroup(c, gid) : e \in Queued(c) /\ e.id # WAKEUP
        BY DEF OfGroup
    <2> QED BY <2>1, <2>2, CancelCalled
<1>4. CASE d = closed(c)
    BY <1>4, ClosedCalled
<1>5. \/ d \in {send_common(c, gid, kind) : gid \in {g \in Groups : c.next \in Ids /\ ~c.suspended}, kind \in Kinds}
      \/ d \in {cancelled(c, {cmd}) : cmd \in {e \in Queued(c) : e.id # WAKEUP}}
      \/ d \in {cancelled(c, OfGroup(c, gid)) : gid \in Groups}
      \/ d = closed(c)
    BY DEF Calls
<1> QED BY <1>1, <1>2, <1>3, <1>4, <1>5

LEMMA ReactionsCalled ==
    ASSUME NEW c, NEW held, ChatOK(c, held), c.open, c.written = 0,
           WithTimers(c.queue, 0), NEW d \in Reactions(c)
    PROVE  Keeps(c, d, held)
<1>1. CASE d \in Calls(c)
    BY <1>1, CallsCalled
<1>2. CASE d = c
    BY <1>2 DEF Keeps, Then, ChatOK, WriterOK
<1>3. CASE d = at_chat_suspend(c)
    BY <1>3, SuspendCalled
<1>4. d \in Calls(c) \/ d = c \/ d = at_chat_suspend(c)
    BY DEF Reactions
<1> QED BY <1>1, <1>2, <1>3, <1>4

-----------------------------------------------------------------------------
(* The head of the queue is finished.                                      *)

\* f is c without the head of its queue, ready to write the next command.
Pops(c, f) ==
    /\ f.open = c.open /\ f.queue = Tail(c.queue) /\ f.written = 0 /\ f.lines = <<>>
    /\ f.suspended = c.suspended /\ f.next = c.next /\ f.cancelled = c.cancelled
    /\ f.destroyed = c.destroyed /\ f.wakeup_timer = c.wakeup_timer
    /\ f.queue # <<>> => f.armed

LEMMA FinishedFields ==
    ASSUME NEW c \in Structs, c.queue # <<>>, NEW f, f = Finished(c)
    PROVE  f \in Structs /\ Pops(c, f) /\ f.timer = c.timer /\ f.strays = c.strays
<1>1. PICK t : t = Tail(c.queue)
    OBVIOUS
<1>2. PICK e : e = <<>>
    OBVIOUS
<1>3. t \in Seq(Cmds)
    BY <1>1, StructFields, HeadAndTail
<1>4. e \in Seq(AllIds)
    BY <1>2, EmptySeq, Zenon
<1>5. PICK z : z = 0
    OBVIOUS
<1>6. z \in 0 .. 4
    BY <1>5
<1>7. PICK b : b = [c EXCEPT !.queue = t, !.written = z, !.lines = e]
    OBVIOUS
<1>8. /\ b \in Structs
      /\ b.open = c.open /\ b.queue = t /\ b.written = z /\ b.lines = e
      /\ b.suspended = c.suspended /\ b.next = c.next /\ b.cancelled = c.cancelled
      /\ b.destroyed = c.destroyed /\ b.wakeup_timer = c.wakeup_timer /\ b.timer = c.timer /\ b.strays = c.strays
    BY <1>3, <1>4, <1>7, <1>6 DEF Structs
<1>9. f = IF b.queue = <<>> THEN b ELSE Armed(b)
    BY <1>1, <1>2, <1>7, <1>5 DEF Finished
<1>10. CASE t = <<>>
    <2>1. f = b
        BY <1>8, <1>9, <1>10
    <2> QED BY <1>1, <1>2, <1>8, <1>10, <1>5, <2>1 DEF Pops
<1>11. CASE t # <<>>
    <2>1. PICK a : a = Armed(b)
        OBVIOUS
    <2>2. f = a
        BY <1>8, <1>9, <1>11, <2>1
    <2>3. /\ a \in Structs /\ a.armed
          /\ a.open = b.open /\ a.queue = b.queue /\ a.written = b.written /\ a.lines = b.lines
          /\ a.suspended = b.suspended /\ a.next = b.next /\ a.cancelled = b.cancelled
          /\ a.destroyed = b.destroyed /\ a.wakeup_timer = b.wakeup_timer /\ a.timer = b.timer /\ a.strays = b.strays
        BY <1>8, <2>1 DEF Armed, Structs
    <2> QED BY <1>1, <1>2, <1>8, <1>5, <2>2, <2>3 DEF Pops
<1> QED BY <1>10, <1>11

\* The tail of a queue in order.
LEMMA TailFacts ==
    ASSUME NEW q \in Seq(Cmds), Increasing(q), q # <<>>
    PROVE  LET h == Head(q)
               t == Tail(q)
           IN  /\ h \in Cmds /\ h.id \in AllIds /\ t \in Seq(Cmds) /\ q = <<h>> \o t
               /\ Increasing(t)
               /\ \A k \in 1 .. Len(t) : \E j \in 1 .. Len(q) : t[k] = q[j]
               /\ \A i \in Ids : Has(t, i) <=> Has(q, i) /\ i # h.id
               /\ Has(q, h.id)
               /\ \A n \in Int : WithTimers(q, n) => WithTimers(t, n - 1)
               /\ h.id # WAKEUP => WithTimers(t, 0)
<1>1. PICK h : h = Head(q)
    OBVIOUS
<1>2. PICK t : t = Tail(q)
    OBVIOUS
<1>3. PICK n : n = Len(q)
    OBVIOUS
<1>4. /\ t \in Seq(Cmds) /\ h \in Cmds /\ h = q[1] /\ q = <<h>> \o t
      /\ n \in Nat \ {0} /\ Len(t) = n - 1
      /\ \A i \in 1 .. n - 1 : t[i] = q[i + 1]
    BY <1>1, <1>2, <1>3, HeadAndTail
<1>5. /\ \A k \in 1 .. n : q[k] \in Cmds /\ q[k].id \in AllIds
      /\ \A j, k \in 1 .. n : q[j].id = q[k].id /\ q[j].id # WAKEUP => j = k
      /\ 1 \in 1 .. n
    BY <1>3, <1>4, QueueFacts
<1>6. \A k \in 1 .. n - 1 : k + 1 \in 1 .. n /\ 1 < k + 1 /\ t[k] = q[k + 1]
    BY <1>4
<1>7. \A j, k \in 1 .. n : j < k => q[j].id < q[k].id \/ (q[j].id = WAKEUP /\ q[k].id = WAKEUP)
    BY <1>3 DEF Increasing
<1>8. \A j, k \in 1 .. n - 1 : j < k => j + 1 < k + 1
    BY <1>4
<1>9. Increasing(t)
    BY <1>4, <1>6, <1>7, <1>8 DEF Increasing
<1>10. \A k \in 1 .. n - 1 : h.id # WAKEUP => t[k].id # h.id /\ t[k].id # WAKEUP
    <2> SUFFICES ASSUME NEW k \in 1 .. n - 1, h.id # WAKEUP PROVE t[k].id # h.id /\ t[k].id # WAKEUP
        OBVIOUS
    <2>1. q[1].id < q[k + 1].id
        BY <1>4, <1>5, <1>6, <1>7
    <2>2. q[1].id \in AllIds /\ q[k + 1].id \in AllIds
        BY <1>5, <1>6
    <2> QED BY <1>4, <1>6, <2>1, <2>2, AtChatAssumption DEF AllIds, WAKEUP
<1>11. \A k \in 1 .. n - 1 : \E j \in 1 .. n : t[k] = q[j]
    BY <1>6
<1>12. \A i \in Ids : Has(t, i) <=> Has(q, i) /\ i # h.id
    <2>1. ASSUME NEW i \in Ids, Has(t, i) PROVE Has(q, i) /\ i # h.id
        <3>1. i # WAKEUP
            BY DEF Ids, WAKEUP
        <3> QED BY <1>3, <1>4, <1>10, <1>11, <2>1, <3>1, ZenonT(30) DEF Has
    <2>2. ASSUME NEW i \in Ids, Has(q, i), i # h.id PROVE Has(t, i)
        <3>1. PICK k \in 1 .. n : q[k].id = i
            BY <1>3, <2>2 DEF Has
        <3>2. PICK j : j = k - 1
            OBVIOUS
        <3>3. k # 1
            BY <1>4, <2>2, <3>1
        <3>4. j \in 1 .. n - 1 /\ k = j + 1
            BY <1>4, <3>1, <3>2, <3>3
        <3>5. t[j].id = i
            BY <1>6, <3>1, <3>4
        <3> QED BY <1>4, <3>4, <3>5 DEF Has
    <2> QED BY <2>1, <2>2
<1>13. Has(q, h.id)
    BY <1>3, <1>4, <1>5 DEF Has
<1>14. ASSUME NEW m \in Int, WithTimers(q, m) PROVE WithTimers(t, m - 1)
    <2> SUFFICES ASSUME NEW k \in 1 .. n - 1, t[k].id = WAKEUP PROVE k <= m - 1
        BY <1>4 DEF WithTimers
    <2>1. k + 1 \in 1 .. Len(q) /\ q[k + 1].id = WAKEUP
        BY <1>3, <1>6
    <2>2. k + 1 <= m
        BY <1>14, <2>1 DEF WithTimers
    <2> QED BY <1>4, <2>2
<1>15. h.id # WAKEUP => WithTimers(t, 0)
    BY <1>4, <1>10 DEF WithTimers
<1>16. h.id \in AllIds
    BY <1>4, <1>5
<1> QED BY <1>1, <1>2, <1>3, <1>4, <1>9, <1>11, <1>12, <1>13, <1>14, <1>15, <1>16

LEMMA TimersMore ==
    ASSUME NEW q \in Seq(Cmds), NEW m \in Int, NEW n \in Int, m <= n, WithTimers(q, m)
    PROVE  WithTimers(q, n)
<1>1. Len(q) \in Nat
    BY LenProperties
<1> QED BY <1>1 DEF WithTimers

\* finish_command holds the head of the queue while its callback runs.
LEMMA Popped ==
    ASSUME NEW c, ChatOK(c, {}), c.queue # <<>>,
           NEW f \in Structs, Pops(c, f), WithTimers(f.queue, Running(f))
    PROVE  /\ ChatOK(f, {Head(c.queue).id})
           /\ \A i \in Ids : Settled(c, i) => Settled(f, i)
           /\ ~c.suspended => \A ids : HalfOK(f, ids)
<1>1. PICK q : q = c.queue
    OBVIOUS
<1>2. PICK h : h = Head(q)
    OBVIOUS
<1>3. PICK t : t = Tail(q)
    OBVIOUS
<1>4. c \in Structs /\ QueueOK(c, {}) /\ WriterOK(c)
    BY DEF ChatOK
<1>5. /\ f.open = c.open /\ f.queue = t /\ f.written = 0 /\ f.lines = <<>>
      /\ f.suspended = c.suspended /\ f.next = c.next /\ f.cancelled = c.cancelled
      /\ f.destroyed = c.destroyed /\ f.wakeup_timer = c.wakeup_timer
      /\ t # <<>> => f.armed
    BY <1>1, <1>3 DEF Pops
<1>6. q \in Seq(Cmds) /\ q # <<>> /\ Increasing(q)
    BY <1>1, <1>4, StructFields DEF QueueOK, InOrder
<1>7. /\ h \in Cmds /\ h.id \in AllIds /\ t \in Seq(Cmds)
      /\ Increasing(t)
      /\ \A k \in 1 .. Len(t) : \E j \in 1 .. Len(q) : t[k] = q[j]
      /\ \A i \in Ids : Has(t, i) <=> Has(q, i) /\ i # h.id
      /\ Has(q, h.id)
    <2>1. /\ Head(q) \in Cmds /\ Head(q).id \in AllIds /\ Tail(q) \in Seq(Cmds)
          /\ Increasing(Tail(q))
          /\ \A k \in 1 .. Len(Tail(q)) : \E j \in 1 .. Len(q) : Tail(q)[k] = q[j]
          /\ \A i \in Ids : Has(Tail(q), i) <=> Has(q, i) /\ i # Head(q).id
          /\ Has(q, Head(q).id)
        BY <1>6, TailFacts
    <2> QED BY <1>2, <1>3, <2>1
<1>8. InOrder(q, c.next) /\ Counted(q, c.next, c.destroyed, {}) /\ Callable(q, c.cancelled, c.next)
      /\ (~c.open => q = <<>>)
    BY <1>1, <1>4 DEF QueueOK
<1>9. InOrder(t, c.next)
    BY <1>7, <1>8 DEF InOrder
<1>10. Counted(t, c.next, c.destroyed, {h.id})
    <2> SUFFICES ASSUME NEW i \in Ids
                 PROVE  c.destroyed[i] = IF i < c.next /\ ~Has(t, i) /\ i \notin {h.id} THEN 1 ELSE 0
        BY DEF Counted
    <2>1. c.destroyed[i] = IF i < c.next /\ ~Has(q, i) THEN 1 ELSE 0
        BY <1>8 DEF Counted
    <2>2. ~Has(q, i) <=> ~Has(t, i) /\ i \notin {h.id}
        BY <1>7
    <2> QED BY <2>1, <2>2
<1>11. h.id \in Ids => h.id < c.next /\ ~Has(t, h.id)
    BY <1>7, <1>8 DEF InOrder, Has
<1>12. Callable(t, c.cancelled, c.next)
    BY <1>7, <1>8 DEF Callable
<1>13. QueueOK(f, {h.id})
    BY <1>5, <1>6, <1>8, <1>9, <1>10, <1>11, <1>12 DEF QueueOK
<1>14. WriterOK(f)
    <2>1. 0 <= Length(Head(t)) /\ 0 \notin {1, 3}
        BY DEF Length
    <2> QED BY <1>5, <2>1 DEF WriterOK
<1>15. \A i \in Ids : Settled(c, i) => Settled(f, i)
    BY <1>1, <1>5, <1>7 DEF Settled
<1>16. ASSUME ~c.suspended, NEW ids PROVE HalfOK(f, ids)
    <2>1. \A i \in 1 .. Len(f.lines) : FALSE
        <3>1. Len(f.lines) = 0
            BY <1>5, EmptySeq
        <3> QED BY <3>1
    <2>2. ~(0 > 2) /\ 0 # 2
        OBVIOUS
    <2> QED BY <1>5, <1>16, <2>1, <2>2 DEF HalfOK
<1> QED BY <1>1, <1>2, <1>13, <1>14, <1>15, <1>16 DEF ChatOK

\* ... and destroys it at the end.
LEMMA Unheld ==
    ASSUME NEW c, NEW cmd, ChatOK(c, {cmd.id}), NEW d, d = Destroyed(c, {cmd})
    PROVE  /\ ChatOK(d, {})
           /\ \A i \in Ids : Settled(d, i) <=> Settled(c, i)
           /\ d.open = c.open /\ d.queue = c.queue /\ d.written = c.written
           /\ d.cancelled = c.cancelled /\ d.next = c.next /\ Running(d) = Running(c)
           /\ \A ids : HalfOK(c, ids) => HalfOK(d, ids)
<1>1. c \in Structs /\ QueueOK(c, {cmd.id}) /\ WriterOK(c)
    BY DEF ChatOK
<1>2. /\ d \in Structs
      /\ d.open = c.open /\ d.queue = c.queue /\ d.written = c.written /\ d.armed = c.armed
      /\ d.suspended = c.suspended /\ d.lines = c.lines /\ d.wakeup_timer = c.wakeup_timer
      /\ d.timer = c.timer /\ d.strays = c.strays /\ d.next = c.next /\ d.cancelled = c.cancelled
      /\ \A i \in Ids : d.destroyed[i] = c.destroyed[i] + IF i \in {e.id : e \in {cmd}} THEN 1 ELSE 0
    BY <1>1, DestroyedFields
<1>3. \A i \in Ids : d.destroyed[i] = c.destroyed[i] + IF i = cmd.id THEN 1 ELSE 0
    BY <1>2
<1>4. \A i \in Ids : c.destroyed[i] \in Nat
    BY <1>1, StructFields
<1>5. Counted(d.queue, d.next, d.destroyed, {})
    <2> SUFFICES ASSUME NEW i \in Ids
                 PROVE  d.destroyed[i] = IF i < c.next /\ ~Has(c.queue, i) THEN 1 ELSE 0
        BY <1>2 DEF Counted
    <2>1. c.destroyed[i] = IF i < c.next /\ ~Has(c.queue, i) /\ i \notin {cmd.id} THEN 1 ELSE 0
        BY <1>1 DEF QueueOK, Counted
    <2>2. i = cmd.id => i < c.next /\ ~Has(c.queue, i)
        BY <1>1 DEF QueueOK
    <2>3. CASE i = cmd.id
        BY <1>3, <2>1, <2>2, <2>3
    <2>4. CASE i # cmd.id
        <3>1. d.destroyed[i] = c.destroyed[i]
            <4>1. PICK n \in Nat : n = c.destroyed[i]
                BY <1>4
            <4>2. PICK m : m = d.destroyed[i]
                OBVIOUS
            <4>3. m = n + IF i = cmd.id THEN 1 ELSE 0
                BY <1>3, <4>1, <4>2
            <4>4. m = n
                BY <2>4, <4>1, <4>3
            <4> QED BY <4>1, <4>2, <4>4
        <3> QED BY <2>1, <2>4, <3>1
    <2> QED BY <2>3, <2>4
<1>6. QueueOK(d, {})
    BY <1>1, <1>2, <1>5 DEF QueueOK
<1>7. Running(d) = Running(c)
    BY <1>2 DEF Running
<1>8. WriterOK(d)
    BY <1>1, <1>2, <1>7 DEF WriterOK
<1>9. \A ids : HalfOK(c, ids) => HalfOK(d, ids)
    BY <1>2 DEF HalfOK
<1> QED BY <1>2, <1>6, <1>7, <1>8, <1>9 DEF ChatOK, Settled


-----------------------------------------------------------------------------
(* The steps: each keeps the invariant, and is one of the service or none. *)

LEMMA ServiceWithout == \A q, gone : Service!Without(q, gone) = Without(q, gone)
BY DEF Service!Without, Without

LEMMA ServiceCall ==
    ASSUME NEW v, NEW w, w = Waiting(chat.queue)', Then(v, w)
    PROVE  Service!Call(v)
BY ServiceWithout DEF Then, Service!Call

LEMMA SameService ==
    ASSUME Waiting(chat'.queue) = Waiting(chat.queue), told' = told
    PROVE  [Service!Next]_<<Waiting(chat.queue), told>>
<1>1. Waiting(chat.queue)' = Waiting(chat'.queue)
    BY DEF Waiting, Silent
<1> QED BY <1>1

\* A call of a client, from the main loop.
LEMMA ClientService ==
    ASSUME Then(Waiting(chat.queue), Waiting(chat'.queue)), told' = told
    PROVE  [Service!Next]_<<Waiting(chat.queue), told>>
<1>1. PICK v : v = Waiting(chat.queue)
    OBVIOUS
<1>2. PICK w : w = Waiting(chat'.queue)
    OBVIOUS
<1>3. Waiting(chat.queue)' = w
    BY <1>2 DEF Waiting, Silent
<1>4. Service!Call(v)
    BY <1>1, <1>2, <1>3, ServiceCall
<1>5. Service!Client
    BY <1>1, <1>4 DEF Service!Client, Service!Call
<1> QED BY <1>5 DEF Service!Next

\* The service answers its oldest command.
LEMMA AnswerService ==
    ASSUME NEW i \in Ids, NEW result \in {"ok", "error"}, NEW v \in Seq(AllIds), NEW w,
           Waiting(chat.queue) = <<i>> \o v, told[i] = "none", told' = [told EXCEPT ![i] = result],
           w = Waiting(chat'.queue), Then(v, w)
    PROVE  [Service!Next]_<<Waiting(chat.queue), told>>
<1>1. PICK u : u = Waiting(chat.queue)
    OBVIOUS
<1>2. u # <<>> /\ Head(u) = i /\ Tail(u) = v
    <2>1. i \in AllIds
        BY AtChatAssumption DEF Ids, AllIds
    <2> QED BY <1>1, <2>1, Before
<1>3. Waiting(chat.queue)' = w
    BY DEF Waiting, Silent
<1>4. Service!Call(v)
    BY <1>3, ServiceCall
<1>5. Service!Answer(i, result)
    BY <1>1, <1>2, <1>4 DEF Service!Answer, Service!Call
<1> QED BY <1>5 DEF Service!Next

\* A step that calls nobody back.
LEMMA Quiet ==
    ASSUME Inv, told' = told, heard' = heard, ChatOK(chat', {}),
           ModemType(line', wire', answer', prompted'),
           chat'.open => Awaited(chat', line', wire'),
           \A i \in Ids : Settled(chat, i) => Settled(chat', i),
           slips' \in 0 .. MaxSlips, slips' = 0 => slips = 0,
           slips' = 0 /\ HalfDuplex =>
               /\ HalfOK(chat', prompted')
               /\ chat'.open => ModemOK(chat', line', Rest(wire'), answer', prompted')
               /\ \A i \in Ids : told[i] # "none" => answer'[i] = answer[i]
    PROVE  Inv'
<1>1. IInv'
    BY DEF Inv, IInv, Hears
<1>2. slips' = 0 => HalfDuplex'
    <2> SUFFICES ASSUME slips' = 0 PROVE HalfDuplex'
        OBVIOUS
    <2>1. HalfDuplex
        BY DEF Inv
    <2> QED BY <2>1 DEF HalfDuplex
<1> QED BY <1>1, <1>2 DEF Inv

\* What the invariant says of the struct.
LEMMA InvFields ==
    ASSUME Inv, NEW c, c = chat
    PROVE  /\ ChatOK(c, {}) /\ c \in Structs /\ QueueOK(c, {}) /\ WriterOK(c)
           /\ c.queue \in Seq(Cmds) /\ Increasing(c.queue)
           /\ c.queue # <<>> => /\ Head(c.queue) \in Cmds /\ Head(c.queue).id \in AllIds
                                /\ Head(c.queue).id # WAKEUP => Head(c.queue).id \in Ids
                                /\ Head(c.queue).id = WAKEUP => Length(Head(c.queue)) = 2
                                /\ Has(c.queue, Head(c.queue).id)
           /\ ModemType(line, wire, answer, prompted) /\ Hears(told, c)
           /\ c.open => Awaited(c, line, wire)
           /\ slips \in 0 .. MaxSlips
<1>1. ChatOK(c, {}) /\ c \in Structs /\ QueueOK(c, {}) /\ WriterOK(c)
    BY DEF Inv, IInv, ChatOK
<1>2. c.queue \in Seq(Cmds) /\ Increasing(c.queue)
    BY <1>1, StructFields DEF QueueOK, InOrder
<1>3. ASSUME c.queue # <<>>
      PROVE  /\ Head(c.queue) \in Cmds /\ Head(c.queue).id \in AllIds
             /\ Head(c.queue).id # WAKEUP => Head(c.queue).id \in Ids
             /\ Head(c.queue).id = WAKEUP => Length(Head(c.queue)) = 2
             /\ Has(c.queue, Head(c.queue).id)
    <2>1. PICK q : q = c.queue
        OBVIOUS
    <2>2. PICK h : h = Head(q)
        OBVIOUS
    <2>3. h \in Cmds /\ h = q[1] /\ 1 \in 1 .. Len(q) /\ q[1].id \in AllIds
        BY <1>2, <1>3, <2>1, <2>2, QueueFacts
    <2>4. h.id # WAKEUP => h.id \in Ids
        BY <2>3, AtChatAssumption DEF AllIds, Ids, WAKEUP
    <2>5. h.id = WAKEUP => h = Wakeup
        BY <1>1, <2>1, <2>3 DEF QueueOK, InOrder
    <2>6. Has(q, h.id)
        BY <2>3 DEF Has
    <2> QED BY <2>1, <2>2, <2>3, <2>4, <2>5, <2>6, WakeupFields
<1> QED BY <1>1, <1>2, <1>3 DEF Inv, IInv

\* Nothing has come at a wrong time, and nothing does now.
LEMMA NoSlip ==
    ASSUME Inv, NEW slipped \in BOOLEAN, Slips(slipped)
    PROVE  slips' \in 0 .. MaxSlips /\ (slips' = 0 => slips = 0 /\ ~slipped)
<1>1. slips \in 0 .. MaxSlips
    BY DEF Inv, IInv
<1> QED BY <1>1, AtChatAssumption DEF Slips

\* A head that is not being waited for awaits nothing.
LEMMA IdleAwaits ==
    ASSUME NEW c, NEW parts, NEW msgs, c.written \notin {2, 4}
    PROVE  Awaited(c, parts, msgs)
BY DEF Awaited, Length

\* The end of a command is a part of it.
LEMMA LastIsPart ==
    ASSUME NEW id, NEW parts, NEW msgs, LastOut(id, parts, msgs)
    PROVE  PartOut(id, parts, msgs)
BY DEF LastOut, PartOut

LEMMA MsgFields ==
    ASSUME NEW what, NEW id
    PROVE  Msg(what, id).what = what /\ Msg(what, id).id = id
BY Zenon DEF Msg

\* A wakeup is put first.
LEMMA Pushed ==
    ASSUME NEW c \in Structs, QueueOK(c, {}), c.open,
           NEW d \in Structs, d.queue = <<Wakeup>> \o c.queue, d.next = c.next,
           d.cancelled = c.cancelled, d.destroyed = c.destroyed, d.open = c.open
    PROVE  /\ QueueOK(d, {}) /\ d.queue # <<>> /\ Head(d.queue) = Wakeup
           /\ Waiting(d.queue) = Waiting(c.queue)
           /\ \A i \in Ids : Settled(c, i) => Settled(d, i)
           /\ \A n \in Nat : WithTimers(c.queue, n) => WithTimers(d.queue, n + 1)
<1>1. PICK q : q = c.queue
    OBVIOUS
<1>2. PICK r : r = d.queue
    OBVIOUS
<1>3. q \in Seq(Cmds) /\ r = <<Wakeup>> \o q
    BY <1>1, <1>2, StructFields
<1>4. Wakeup \in Cmds /\ Wakeup.id = WAKEUP
    BY WakeupFields
<1>5. /\ r \in Seq(Cmds) /\ r # <<>> /\ Head(r) = Wakeup /\ r[1] = Wakeup /\ Len(r) = Len(q) + 1
      /\ Len(q) \in Nat /\ \A i \in 1 .. Len(q) : r[i + 1] = q[i]
    BY <1>3, <1>4, Before
<1>6. InOrder(q, c.next) /\ Increasing(q) /\ Counted(q, c.next, c.destroyed, {}) /\ Callable(q, c.cancelled, c.next)
    BY <1>1 DEF QueueOK, InOrder
<1>7. \A k \in 1 .. Len(q) : q[k] \in Cmds /\ q[k].id \in AllIds
    BY <1>3, <1>6, QueueFacts
<1>8. \A k \in 1 .. Len(r) : k = 1 \/ (k - 1 \in 1 .. Len(q) /\ r[k] = q[k - 1])
    <2> SUFFICES ASSUME NEW k \in 1 .. Len(r), k # 1 PROVE k - 1 \in 1 .. Len(q) /\ r[k] = q[k - 1]
        OBVIOUS
    <2>1. PICK j : j = k - 1
        OBVIOUS
    <2>2. j \in 1 .. Len(q) /\ k = j + 1
        BY <1>5, <2>1
    <2> QED BY <1>5, <2>1, <2>2
<1>9. Increasing(r)
    <2> SUFFICES ASSUME NEW j \in 1 .. Len(r), NEW k \in 1 .. Len(r), j < k
                 PROVE  r[j].id < r[k].id \/ (r[j].id = WAKEUP /\ r[k].id = WAKEUP)
        BY DEF Increasing
    <2>1. k # 1 /\ k - 1 \in 1 .. Len(q) /\ r[k] = q[k - 1]
        BY <1>5, <1>8
    <2>2. CASE j = 1
        <3>1. q[k - 1].id \in 0 .. MaxCmds
            BY <1>7, <2>1 DEF AllIds
        <3>2. 0 < q[k - 1].id \/ q[k - 1].id = 0
            BY <3>1, AtChatAssumption
        <3> QED BY <1>4, <1>5, <2>1, <2>2, <3>2 DEF WAKEUP
    <2>3. CASE j # 1
        <3>1. j - 1 \in 1 .. Len(q) /\ r[j] = q[j - 1] /\ j - 1 < k - 1
            BY <1>8, <2>3
        <3> QED BY <1>6, <2>1, <3>1 DEF Increasing
    <2> QED BY <2>2, <2>3
<1>10. \A k \in 1 .. Len(r) : r[k].id < c.next /\ (r[k].id = WAKEUP => r[k] = Wakeup)
    <2> SUFFICES ASSUME NEW k \in 1 .. Len(r)
                 PROVE  r[k].id < c.next /\ (r[k].id = WAKEUP => r[k] = Wakeup)
        OBVIOUS
    <2>1. CASE k = 1
        <3>1. c.next \in 1 .. MaxCmds + 1
            BY StructFields
        <3>2. WAKEUP < c.next
            BY <3>1 DEF WAKEUP
        <3> QED BY <1>4, <1>5, <2>1, <3>2
    <2>2. CASE k # 1
        BY <1>6, <1>8, <2>2 DEF InOrder
    <2> QED BY <2>1, <2>2
<1>11. \A i \in Ids : Has(r, i) <=> Has(q, i)
    <2> SUFFICES ASSUME NEW i \in Ids PROVE Has(r, i) <=> Has(q, i)
        OBVIOUS
    <2>1. i # WAKEUP
        BY DEF Ids, WAKEUP
    <2>2. Has(r, i) => Has(q, i)
        BY <1>4, <1>5, <1>8, <2>1 DEF Has
    <2>3. Has(q, i) => Has(r, i)
        <3> SUFFICES ASSUME Has(q, i) PROVE Has(r, i)
            OBVIOUS
        <3>1. PICK k \in 1 .. Len(q) : q[k].id = i
            BY DEF Has
        <3>2. k + 1 \in 1 .. Len(r) /\ r[k + 1] = q[k]
            BY <1>5
        <3> QED BY <3>1, <3>2 DEF Has
    <2> QED BY <2>2, <2>3
<1>12. Counted(r, c.next, c.destroyed, {})
    BY <1>6, <1>11 DEF Counted
<1>13. Callable(r, c.cancelled, c.next)
    <2>1. WAKEUP \notin c.cancelled
        <3>1. c.cancelled \in SUBSET Ids
            BY StructFields
        <3> QED BY <3>1 DEF Ids, WAKEUP
    <2>2. \A k \in 1 .. Len(r) : r[k].callback => r[k].id \notin c.cancelled
        BY <1>4, <1>5, <1>6, <1>8, <2>1 DEF Callable
    <2> QED BY <1>6, <2>2 DEF Callable
<1>14. QueueOK(d, {})
    BY <1>2, <1>9, <1>10, <1>12, <1>13 DEF QueueOK, InOrder
<1>15. Waiting(r) = Waiting(q)
    BY <1>3, <1>4, WaitingBefore DEF Dead
<1>16. \A i \in Ids : Settled(c, i) => Settled(d, i)
    BY <1>1, <1>2, <1>11 DEF Settled
<1>17. ASSUME NEW n \in Nat, WithTimers(q, n) PROVE WithTimers(r, n + 1)
    <2> SUFFICES ASSUME NEW k \in 1 .. Len(r), r[k].id = WAKEUP PROVE k <= n + 1
        BY DEF WithTimers
    <2>1. CASE k # 1
        <3>1. k - 1 \in 1 .. Len(q) /\ q[k - 1].id = WAKEUP
            BY <1>8, <2>1
        <3>2. k - 1 <= n
            BY <1>17, <3>1 DEF WithTimers
        <3> QED BY <1>17, <3>2
    <2>2. CASE k = 1
        BY <1>17, <2>2
    <2> QED BY <2>1, <2>2
<1> QED BY <1>1, <1>2, <1>5, <1>14, <1>15, <1>16, <1>17

\* The writer may put the wakeup first.
LEMMA PreparedOK ==
    ASSUME NEW c, ChatOK(c, {}), c.open, c.armed, ~NothingToWrite(c),
           NEW p, p = Prepared(c)
    PROVE  /\ ChatOK(p, {}) /\ p.open /\ p.armed /\ p.queue # <<>> /\ p.written = c.written
           /\ p.written < Length(Head(p.queue))
           /\ Waiting(p.queue) = Waiting(c.queue)
           /\ \A i \in Ids : Settled(c, i) => Settled(p, i)
           /\ \A ids : HalfOK(c, ids) => HalfOK(p, ids)
           /\ c.written = 0 \/ p = c
<1>1. c \in Structs /\ QueueOK(c, {}) /\ WriterOK(c)
    BY DEF ChatOK
<1>2. c.queue # <<>> /\ c.written \in 0 .. 4 /\ c.queue \in Seq(Cmds) /\ c.open = TRUE
    BY <1>1, StructFields DEF NothingToWrite
<1>3. Length(Head(c.queue)) \in Nat /\ ~(c.written >= Length(Head(c.queue)))
    BY DEF NothingToWrite, Length
<1>4. c.written < Length(Head(c.queue))
    BY <1>2, <1>3
<1>5. CASE ~WakeupFirst(c)
    <2>1. p = c
        BY <1>5 DEF Prepared
    <2> QED BY <1>1, <1>2, <1>4, <2>1 DEF ChatOK
<1>6. CASE WakeupFirst(c)
    <2>1. c.wakeup_timer \in {"unset", "old"} /\ c.written = 0
        BY <1>6 DEF WakeupFirst
    <2>2. PICK q : q = c.queue
        OBVIOUS
    <2>3. PICK r : r = <<Wakeup>> \o q
        OBVIOUS
    <2>4. PICK t : t = IF c.wakeup_timer = "unset" THEN "fresh" ELSE c.wakeup_timer
        OBVIOUS
    <2>5. PICK s : s = IF c.timer THEN c.strays + 1 ELSE c.strays
        OBVIOUS
    <2>6. p = [c EXCEPT !.queue = r, !.timer = TRUE, !.strays = s, !.wakeup_timer = t]
        BY <1>6, <2>2, <2>3, <2>4, <2>5 DEF Prepared
    <2>7. Wakeup \in Cmds /\ Length(Wakeup) = 2
        BY WakeupFields
    <2>8. r \in Seq(Cmds) /\ t \in {"unset", "fresh", "old"}
        BY <1>2, <2>1, <2>2, <2>3, <2>4, <2>7, Before
    <2>9. s \in Nat /\ Running(c) = s /\ c.strays \in Nat
        BY <1>1, <2>5, StructFields DEF Running
    <2>10. /\ p \in Structs
           /\ p.open = c.open /\ p.queue = r /\ p.written = c.written /\ p.armed = c.armed
           /\ p.suspended = c.suspended /\ p.lines = c.lines
           /\ p.timer = TRUE /\ p.strays = s /\ p.next = c.next /\ p.cancelled = c.cancelled
           /\ p.destroyed = c.destroyed
        BY <1>1, <2>6, <2>8, <2>9 DEF Structs
    <2>11. Running(p) = s + 1
        BY <2>9, <2>10 DEF Running
    <2>12. /\ QueueOK(p, {}) /\ r # <<>> /\ Head(r) = Wakeup
           /\ Waiting(r) = Waiting(q)
           /\ \A i \in Ids : Settled(c, i) => Settled(p, i)
           /\ \A n \in Nat : WithTimers(q, n) => WithTimers(r, n + 1)
        BY ZenonT(30), <1>1, <2>2, <2>3, <2>10, Pushed
    <2>13. WithTimers(r, Running(p))
        BY <1>1, <2>2, <2>9, <2>11, <2>12 DEF WriterOK
    <2>14. WriterOK(p)
        BY <2>1, <2>7, <2>10, <2>12, <2>13 DEF WriterOK
    <2>15. ASSUME NEW ids, HalfOK(c, ids) PROVE HalfOK(p, ids)
        <3>1. ~c.suspended
            BY <2>15 DEF HalfOK
        <3>2. \A i \in 1 .. Len(c.lines) : FALSE
            BY <2>1, <2>15 DEF HalfOK
        <3> QED BY <2>1, <2>10, <3>1, <3>2 DEF HalfOK
    <2>16. p.written < Length(Head(p.queue))
        BY <2>1, <2>7, <2>10, <2>12
    <2> QED BY <1>2, <2>1, <2>2, <2>10, <2>12, <2>14, <2>15, <2>16 DEF ChatOK
<1> QED BY <1>5, <1>6

\* Some of a part is written: the watch stays.
LEMMA WrittenHalf ==
    ASSUME NEW p, ChatOK(p, {}), p.open, p.armed, p.queue # <<>>,
           p.written < Length(Head(p.queue)), p.written % 2 = 0,
           NEW d, d = [p EXCEPT !.written = @ + 1]
    PROVE  /\ ChatOK(d, {}) /\ d.queue = p.queue /\ d.written \in {1, 3}
           /\ \A i \in Ids : Settled(p, i) => Settled(d, i)
           /\ \A ids : HalfOK(p, ids) => HalfOK(d, ids)
<1>1. PICK w : w = p.written + 1
    OBVIOUS
<1>2. PICK L : L = Length(Head(p.queue))
    OBVIOUS
<1>3. p \in Structs /\ QueueOK(p, {}) /\ WriterOK(p)
    BY DEF ChatOK
<1>4. L \in {2, 4} /\ p.written \in 0 .. 4 /\ p.written < L
    BY <1>2, <1>3, StructFields DEF Length
<1>5. w \in {1, 3} /\ w <= L /\ p.written \in {0, 2} /\ w \in 0 .. 4 /\ w > 0
    BY <1>1, <1>4
<1>6. d = [p EXCEPT !.written = w]
    BY <1>1
<1>7. /\ d \in Structs
      /\ d.open = p.open /\ d.queue = p.queue /\ d.written = w /\ d.armed = p.armed
      /\ d.suspended = p.suspended /\ d.lines = p.lines
      /\ d.timer = p.timer /\ d.strays = p.strays /\ d.next = p.next /\ d.cancelled = p.cancelled
      /\ d.destroyed = p.destroyed
    BY <1>3, <1>5, <1>6 DEF Structs
<1>8. QueueOK(d, {}) /\ \A i \in Ids : Settled(p, i) => Settled(d, i)
    BY <1>3, <1>7 DEF QueueOK, Settled
<1>9. Running(d) = Running(p)
    BY <1>7 DEF Running
<1>10. w # 0
    BY <1>5
<1>11. WriterOK(d)
    BY <1>2, <1>3, <1>5, <1>7, <1>9, <1>10 DEF WriterOK
<1>12. ASSUME NEW ids, HalfOK(p, ids) PROVE HalfOK(d, ids)
    <2>1. w > 2 => p.written = 2 /\ L = 4
        BY <1>1, <1>4, <1>5
    <2>2. w > 2 => Head(p.queue).id \in ids
        BY <1>2, <1>12, <2>1 DEF HalfOK
    <2>3. ~p.suspended /\ w # 2
        BY <1>5, <1>12 DEF HalfOK
    <2>4. \A i \in 1 .. Len(p.lines) : p.lines[i] = Head(p.queue).id
        BY <1>12 DEF HalfOK
    <2> QED BY <1>5, <1>7, <2>2, <2>3, <2>4 DEF HalfOK
<1> QED BY <1>5, <1>7, <1>8, <1>11, <1>12 DEF ChatOK

\* ... or the whole part: the watch is removed.
LEMMA WrittenWhole ==
    ASSUME NEW p, ChatOK(p, {}), p.open, p.armed, p.queue # <<>>,
           p.written < Length(Head(p.queue)),
           NEW d, d = [p EXCEPT !.written = 2 * (@ \div 2) + 2, !.armed = FALSE,
                                !.wakeup_timer = IF p.wakeup THEN "fresh" ELSE @]
    PROVE  /\ ChatOK(d, {}) /\ d.queue = p.queue /\ d.written \in {2, 4} /\ ~d.armed
           /\ \A i \in Ids : Settled(p, i) => Settled(d, i)
           /\ \A ids : HalfOK(p, ids) => HalfOK(d, ids)
<1>1. PICK w : w = 2 * (p.written \div 2) + 2
    OBVIOUS
<1>2. PICK L : L = Length(Head(p.queue))
    OBVIOUS
<1>3. PICK t : t = IF p.wakeup THEN "fresh" ELSE p.wakeup_timer
    OBVIOUS
<1>4. p \in Structs /\ QueueOK(p, {}) /\ WriterOK(p)
    BY DEF ChatOK
<1>5. L \in {2, 4} /\ p.written \in 0 .. 4 /\ p.written < L
    BY <1>2, <1>4, StructFields DEF Length
<1>6. w \in {2, 4} /\ w <= L /\ w \in 0 .. 4 /\ w > 0
    BY <1>1, <1>5
<1>7. t \in {"unset", "fresh", "old"}
    BY <1>3, <1>4, StructFields
<1>8. d = [p EXCEPT !.written = w, !.armed = FALSE, !.wakeup_timer = t]
    BY <1>1, <1>3
<1>9. /\ d \in Structs
      /\ d.open = p.open /\ d.queue = p.queue /\ d.written = w /\ d.armed = FALSE
      /\ d.suspended = p.suspended /\ d.lines = p.lines
      /\ d.timer = p.timer /\ d.strays = p.strays /\ d.next = p.next /\ d.cancelled = p.cancelled
      /\ d.destroyed = p.destroyed
    BY <1>4, <1>6, <1>7, <1>8 DEF Structs
<1>10. QueueOK(d, {}) /\ \A i \in Ids : Settled(p, i) => Settled(d, i)
    BY <1>4, <1>9 DEF QueueOK, Settled
<1>11. Running(d) = Running(p)
    BY <1>9 DEF Running
<1>12. w # 0 /\ w \notin {1, 3}
    BY <1>6
<1>13. WriterOK(d)
    BY <1>2, <1>4, <1>6, <1>9, <1>11, <1>12 DEF WriterOK
<1>14. ASSUME NEW ids, HalfOK(p, ids) PROVE HalfOK(d, ids)
    <2>1. w > 2 => p.written \in {2, 3} /\ L = 4
        BY <1>1, <1>5
    <2>2. p.written = 3 => p.written > 2
        OBVIOUS
    <2>3. w > 2 => Head(p.queue).id \in ids
        BY <1>2, <1>14, <2>1, <2>2 DEF HalfOK
    <2>4. ~p.suspended
        BY <1>14 DEF HalfOK
    <2>5. \A i \in 1 .. Len(p.lines) : p.lines[i] = Head(p.queue).id
        BY <1>14 DEF HalfOK
    <2> QED BY <1>6, <1>9, <2>3, <2>4, <2>5 DEF HalfOK
<1> QED BY <1>6, <1>9, <1>10, <1>13, <1>14 DEF ChatOK

\* The watch finds nothing to write and is removed.
LEMMA WatchRemoved ==
    ASSUME NEW c, ChatOK(c, {}), c.open, c.armed, NothingToWrite(c),
           NEW d, d = [c EXCEPT !.armed = FALSE]
    PROVE  /\ ChatOK(d, {}) /\ d.open /\ d.queue = c.queue /\ d.written = c.written /\ ~d.armed
           /\ c.queue # <<>> => c.written = Length(Head(c.queue))
           /\ \A i \in Ids : Settled(c, i) => Settled(d, i)
           /\ \A ids : HalfOK(c, ids) => HalfOK(d, ids)
<1>1. c \in Structs /\ QueueOK(c, {}) /\ WriterOK(c)
    BY DEF ChatOK
<1>2. PICK L : L = Length(Head(c.queue))
    OBVIOUS
<1>3. L \in {2, 4} /\ c.written \in 0 .. 4
    BY <1>1, <1>2, StructFields DEF Length
<1>4. c.queue # <<>> => c.written = L
    <2> SUFFICES ASSUME c.queue # <<>> PROVE c.written = L
        OBVIOUS
    <2>1. c.written >= L /\ c.written <= L
        BY <1>1, <1>2 DEF NothingToWrite, WriterOK
    <2> QED BY <1>3, <2>1
<1>5. c.written \notin {1, 3} /\ (c.queue # <<>> => c.written # 0)
    <2>1. CASE c.queue = <<>>
        BY <1>1, <2>1 DEF WriterOK
    <2>2. CASE c.queue # <<>>
        BY <1>3, <1>4, <2>2
    <2> QED BY <2>1, <2>2
<1>6. /\ d \in Structs
      /\ d.open = c.open /\ d.queue = c.queue /\ d.written = c.written /\ d.armed = FALSE
      /\ d.suspended = c.suspended /\ d.lines = c.lines
      /\ d.timer = c.timer /\ d.strays = c.strays /\ d.next = c.next /\ d.cancelled = c.cancelled
      /\ d.destroyed = c.destroyed
    BY <1>1 DEF Structs
<1>7. QueueOK(d, {}) /\ \A i \in Ids : Settled(c, i) => Settled(d, i)
    BY <1>1, <1>6 DEF QueueOK, Settled
<1>8. Running(d) = Running(c)
    BY <1>6 DEF Running
<1>9. WriterOK(d)
    BY <1>1, <1>5, <1>6, <1>8 DEF WriterOK
<1>10. \A ids : HalfOK(c, ids) => HalfOK(d, ids)
    BY <1>6 DEF HalfOK
<1> QED BY <1>2, <1>4, <1>6, <1>7, <1>9, <1>10 DEF ChatOK

LEMMA HalfFields ==
    ASSUME HalfDuplex, NEW c, c = chat
    PROVE  /\ HalfOK(c, prompted)
           /\ c.open => ModemOK(c, line, Rest(wire), answer, prompted)
BY DEF HalfDuplex

\* The writer starts only when the modem has nothing.
LEMMA WritesAlone ==
    ASSUME HalfDuplex, NEW c, c = chat, c.open, c.armed, ~NothingToWrite(c)
    PROVE  line = <<>> /\ Rest(wire) = <<>>
<1>1. ModemOK(c, line, Rest(wire), answer, prompted)
    BY HalfFields
<1>2. ~(c.written >= Length(Head(c.queue)))
    BY DEF NothingToWrite
<1>3. c.written = Length(Head(c.queue)) => c.written \in Nat
    BY DEF Length
<1>4. c.written # Length(Head(c.queue))
    BY <1>2, <1>3
<1> QED BY <1>1, <1>4 DEF ModemOK, One

\* A part is sent: what waits for it has it, and the modem has one.
LEMMA PartSent ==
    ASSUME NEW d, d.queue # <<>>, ~d.armed, d.written \in {2, 4}, Head(d.queue).id \in AllIds,
           NEW parts \in Seq(Parts), NEW e, NEW last, NEW rest, NEW answers, NEW ids,
           last = (d.written = Length(Head(d.queue))),
           e = [id |-> Head(d.queue).id, last |-> last]
    PROVE  /\ Append(parts, e) \in Seq(Parts)
           /\ \A msgs : Awaited(d, Append(parts, e), msgs)
           /\ parts = <<>> /\ rest = <<>> => ModemOK(d, Append(parts, e), rest, answers, ids)
<1>1. last \in BOOLEAN
    OBVIOUS
<1>2. e \in Parts /\ e.id = Head(d.queue).id /\ e.last = last
    BY <1>1 DEF Parts
<1>3. PICK m : m = Append(parts, e)
    OBVIOUS
<1>4. m \in Seq(Parts) /\ Len(m) = Len(parts) + 1 /\ Len(parts) \in Nat /\ m[Len(m)] = e
    BY <1>2, <1>3, AppendProperties, LenProperties
<1>5. Len(m) \in 1 .. Len(m)
    BY <1>4
<1>6. \A msgs : PartOut(Head(d.queue).id, m, msgs)
    BY <1>2, <1>4, <1>5 DEF PartOut
<1>7. d.written = Length(Head(d.queue)) => e.last
    BY <1>2
<1>8. d.written = Length(Head(d.queue)) => \A msgs : LastOut(Head(d.queue).id, m, msgs)
    BY <1>2, <1>4, <1>5, <1>7 DEF LastOut
<1>9. \A msgs : Awaited(d, m, msgs)
    BY <1>6, <1>8 DEF Awaited
<1>10. ASSUME parts = <<>>, rest = <<>> PROVE ModemOK(d, m, rest, answers, ids)
    <2>1. m = <<e>>
        BY <1>3, <1>10
    <2>2. e.last <=> d.written = Length(Head(d.queue))
        BY <1>2
    <2>3. AskedOne(d, m, rest)
        BY <1>2, <1>10, <2>1, <2>2 DEF AskedOne
    <2> QED BY <2>3 DEF ModemOK, One
<1> QED BY <1>3, <1>4, <1>9, <1>10

LEMMA Writes ==
    ASSUME Inv, can_write_data
    PROVE  Step
<1>1. PICK c : c = chat
    OBVIOUS
<1>2. PICK d : d = chat'
    OBVIOUS
<1>3. /\ ChatOK(c, {}) /\ c.open /\ c.armed /\ c \in Structs /\ WriterOK(c)
      /\ ModemType(line, wire, answer, prompted) /\ Awaited(c, line, wire) /\ slips \in 0 .. MaxSlips
    BY <1>1, InvFields DEF can_write_data
<1>4. UNCHANGED <<wire, answer, prompted, told, heard, slips>>
    BY DEF can_write_data, modem
<1>5. CASE NothingToWrite(c)
    <2>1. d = [c EXCEPT !.armed = FALSE] /\ UNCHANGED line
        BY <1>1, <1>2, <1>5 DEF can_write_data, modem
    <2>2. /\ ChatOK(d, {}) /\ d.open /\ d.queue = c.queue /\ d.written = c.written /\ ~d.armed
          /\ c.queue # <<>> => c.written = Length(Head(c.queue))
          /\ \A i \in Ids : Settled(c, i) => Settled(d, i)
          /\ \A ids : HalfOK(c, ids) => HalfOK(d, ids)
        BY <1>3, <1>5, <2>1, WatchRemoved
    <2>3. Awaited(d, line, wire)
        BY <1>3, <2>2, LastIsPart DEF Awaited
    <2>4. ASSUME HalfDuplex
          PROVE  HalfOK(d, prompted) /\ ModemOK(d, line, Rest(wire), answer, prompted)
        <3>1. HalfOK(c, prompted) /\ ModemOK(c, line, Rest(wire), answer, prompted)
            BY <1>1, <1>3, <2>4, HalfFields
        <3>2. ModemOK(d, line, Rest(wire), answer, prompted)
            BY <2>2, <3>1 DEF ModemOK, One, AskedOne, PromptedOne, AnsweredOne
        <3> QED BY <2>2, <3>1, <3>2
    <2>5. Inv'
        BY <1>1, <1>2, <1>3, <1>4, <2>1, <2>2, <2>3, <2>4, Quiet
    <2>6. Waiting(chat'.queue) = Waiting(chat.queue)
        BY <1>1, <1>2, <2>2
    <2> QED BY <1>4, <2>5, <2>6, SameService DEF Step
<1>6. CASE ~NothingToWrite(c)
    <2>1. PICK p : p = Prepared(c)
        OBVIOUS
    <2>2. /\ ChatOK(p, {}) /\ p.open /\ p.armed /\ p.queue # <<>>
          /\ p.written < Length(Head(p.queue))
          /\ Waiting(p.queue) = Waiting(c.queue)
          /\ \A i \in Ids : Settled(c, i) => Settled(p, i)
          /\ \A ids : HalfOK(c, ids) => HalfOK(p, ids)
        BY <1>3, <1>6, <2>1, PreparedOK
    <2>3. ASSUME HalfDuplex PROVE HalfOK(p, prompted) /\ line = <<>> /\ Rest(wire) = <<>>
        <3>1. HalfOK(c, prompted)
            BY <1>1, <2>3, HalfFields
        <3> QED BY <1>1, <1>3, <1>6, <2>2, <2>3, <3>1, WritesAlone
    <2>4. CASE p.written % 2 = 0 /\ d = [p EXCEPT !.written = @ + 1] /\ UNCHANGED line
        <3>1. /\ ChatOK(d, {}) /\ d.queue = p.queue /\ d.written \in {1, 3}
              /\ \A i \in Ids : Settled(p, i) => Settled(d, i)
              /\ \A ids : HalfOK(p, ids) => HalfOK(d, ids)
            BY <2>2, <2>4, WrittenHalf
        <3>2. Awaited(d, line, wire)
            <4>1. d.written \notin {2, 4}
                BY <3>1
            <4> QED BY <4>1, IdleAwaits
        <3>3. ASSUME HalfDuplex
              PROVE  HalfOK(d, prompted) /\ ModemOK(d, line, Rest(wire), answer, prompted)
            BY <2>3, <3>1, <3>3 DEF ModemOK
        <3>4. Inv'
            BY <1>1, <1>2, <1>3, <1>4, <2>2, <2>4, <3>1, <3>2, <3>3, Quiet
        <3>5. Waiting(chat'.queue) = Waiting(chat.queue)
            BY <1>1, <1>2, <2>2, <3>1
        <3> QED BY <1>4, <3>4, <3>5, SameService DEF Step
    <2>5. CASE /\ d = [p EXCEPT !.written = 2 * (@ \div 2) + 2, !.armed = FALSE,
                                !.wakeup_timer = IF p.wakeup THEN "fresh" ELSE @]
               /\ line' = Append(line, [id |-> Head(p.queue).id,
                                        last |-> d.written = Length(Head(p.queue))])
        <3>1. /\ ChatOK(d, {}) /\ d.queue = p.queue /\ d.written \in {2, 4} /\ ~d.armed
              /\ \A i \in Ids : Settled(p, i) => Settled(d, i)
              /\ \A ids : HalfOK(p, ids) => HalfOK(d, ids)
            BY <2>2, <2>5, WrittenWhole
        <3>2. PICK last : last = (d.written = Length(Head(d.queue)))
            OBVIOUS
        <3>3. PICK e : e = [id |-> Head(d.queue).id, last |-> last]
            OBVIOUS
        <3>4. line' = Append(line, e)
            BY <2>5, <3>1, <3>2, <3>3
        <3>5. Head(d.queue).id \in AllIds
            <4>1. p.queue \in Seq(Cmds)
                BY <2>2, StructFields DEF ChatOK
            <4>2. Head(p.queue) \in Cmds
                BY <2>2, <4>1, HeadAndTail
            <4> QED BY <3>1, <4>2 DEF Cmds
        <3>6. line \in Seq(Parts)
            BY <1>3 DEF ModemType
        <3>7. d.queue # <<>>
            BY <2>2, <3>1
        <3>8. /\ Append(line, e) \in Seq(Parts)
              /\ \A msgs : Awaited(d, Append(line, e), msgs)
              /\ line = <<>> /\ Rest(wire) = <<>> => ModemOK(d, Append(line, e), Rest(wire), answer, prompted)
            BY <3>1, <3>2, <3>3, <3>5, <3>6, <3>7, PartSent
        <3>9. ModemType(line', wire', answer', prompted')
            BY <1>3, <1>4, <3>4, <3>8 DEF ModemType
        <3>10. Awaited(d, line', wire)
            BY <3>4, <3>8
        <3>11. ASSUME HalfDuplex
               PROVE  HalfOK(d, prompted) /\ ModemOK(d, line', Rest(wire), answer, prompted)
            BY <2>3, <3>1, <3>4, <3>8, <3>11
        <3>12. Inv'
            BY <1>1, <1>2, <1>3, <1>4, <2>2, <3>1, <3>9, <3>10, <3>11, Quiet
        <3>13. Waiting(chat'.queue) = Waiting(chat.queue)
            BY <1>1, <1>2, <2>2, <3>1
        <3> QED BY <1>4, <3>12, <3>13, SameService DEF Step
    <2> QED BY <1>1, <1>2, <1>6, <2>1, <2>4, <2>5 DEF can_write_data, modem
<1> QED BY <1>5, <1>6

LEMMA ClientStep ==
    ASSUME Inv, ClientCalls
    PROVE  Step
<1>1. PICK c : c = chat
    OBVIOUS
<1>2. PICK d : d = chat'
    OBVIOUS
<1>3. /\ ChatOK(c, {}) /\ c.open /\ d \in Calls(c)
      /\ ModemType(line, wire, answer, prompted) /\ Awaited(c, line, wire) /\ slips \in 0 .. MaxSlips
    BY <1>1, <1>2, InvFields DEF ClientCalls
<1>4. UNCHANGED <<line, wire, answer, prompted, told, heard, slips>>
    BY DEF ClientCalls, modem
<1>5. Keeps(c, d, {})
    BY <1>3, CallsCalled
<1>6. d.open => Awaited(d, line, wire)
    <2>1. CASE c.written \in {2, 4}
        <3>1. c.written > 0
            BY <2>1
        <3>2. c.queue # <<>>
            BY <1>1, <2>1, InvFields DEF WriterOK
        <3>3. d.open => /\ d.written = c.written /\ d.armed = c.armed
                        /\ Head(d.queue).id = Head(c.queue).id
                        /\ Length(Head(d.queue)) = Length(Head(c.queue))
            BY <1>5, <3>1 DEF Keeps, Length
        <3> QED BY <1>3, <3>2, <3>3 DEF Awaited
    <2>2. CASE c.written \notin {2, 4}
        BY <1>5, <2>2, IdleAwaits DEF Keeps
    <2> QED BY <2>1, <2>2
<1>7. ASSUME HalfDuplex
      PROVE  HalfOK(d, prompted) /\ (d.open => ModemOK(d, line, Rest(wire), answer, prompted))
    <2>1. HalfOK(c, prompted) /\ ModemOK(c, line, Rest(wire), answer, prompted)
        BY <1>1, <1>3, <1>7, HalfFields
    <2>2. ASSUME d.open, c.written \in {2, 4}
          PROVE  /\ d.written = c.written /\ d.armed = c.armed
                 /\ Head(d.queue).id = Head(c.queue).id
                 /\ Length(Head(d.queue)) = Length(Head(c.queue))
        <3>1. c.written > 0
            BY <2>2
        <3> QED BY <1>5, <2>2, <3>1 DEF Keeps, Length
    <2>3. d.open => ModemOK(d, line, Rest(wire), answer, prompted)
        BY <2>1, <2>2 DEF ModemOK, One, AskedOne, PromptedOne, AnsweredOne
    <2> QED BY <1>5, <2>1, <2>3 DEF Keeps
<1>8. Inv'
    BY <1>1, <1>2, <1>3, <1>4, <1>5, <1>6, <1>7, Quiet DEF Keeps
<1>9. Then(Waiting(chat.queue), Waiting(chat'.queue))
    BY <1>1, <1>2, <1>5 DEF Keeps
<1> QED BY <1>4, <1>8, <1>9, ClientService DEF Step

LEMMA Resumes ==
    ASSUME Inv, Resume
    PROVE  Step
<1>1. PICK c : c = chat
    OBVIOUS
<1>2. PICK d : d = chat'
    OBVIOUS
<1>3. /\ ChatOK(c, {}) /\ c \in Structs /\ QueueOK(c, {}) /\ WriterOK(c)
      /\ c.open /\ c.suspended /\ d = at_chat_resume(c)
      /\ ModemType(line, wire, answer, prompted) /\ Awaited(c, line, wire) /\ slips \in 0 .. MaxSlips
    BY <1>1, <1>2, InvFields DEF Resume
<1>4. UNCHANGED <<line, wire, answer, prompted, told, heard, slips>>
    BY DEF Resume, modem
<1>5. PICK a : a = IF c.queue = <<>> THEN c.armed ELSE TRUE
    OBVIOUS
<1>6. a \in BOOLEAN /\ c.armed \in BOOLEAN
    BY <1>3, <1>5, StructFields
<1>7. d = [c EXCEPT !.suspended = FALSE, !.armed = a]
    <2>1. CASE c.queue = <<>>
        <3>1. d = [c EXCEPT !.suspended = FALSE] /\ a = c.armed
            BY <1>3, <1>5, <2>1 DEF at_chat_resume
        <3> QED BY <1>3, <3>1 DEF Structs
    <2>2. CASE c.queue # <<>>
        BY <1>3, <1>5, <2>2 DEF at_chat_resume, Armed
    <2> QED BY <2>1, <2>2
<1>8. /\ d \in Structs
      /\ d.open = c.open /\ d.queue = c.queue /\ d.written = c.written /\ d.armed = a
      /\ d.suspended = FALSE /\ d.lines = c.lines
      /\ d.timer = c.timer /\ d.strays = c.strays /\ d.next = c.next /\ d.cancelled = c.cancelled
      /\ d.destroyed = c.destroyed
    BY <1>3, <1>6, <1>7 DEF Structs
<1>9. QueueOK(d, {}) /\ \A i \in Ids : Settled(c, i) => Settled(d, i)
    BY <1>3, <1>8 DEF QueueOK, Settled
<1>10. Running(d) = Running(c)
    BY <1>8 DEF Running
<1>11. d.queue # <<>> => d.armed
    BY <1>5, <1>8
<1>12. WriterOK(d)
    <2>1. c.armed => d.armed
        BY <1>5, <1>8
    <2> QED BY <1>3, <1>8, <1>10, <1>11, <2>1 DEF WriterOK
<1>13. Awaited(d, line, wire)
    BY <1>3, <1>8, <1>11 DEF Awaited
<1>14. ASSUME HalfDuplex
       PROVE  HalfOK(d, prompted) /\ ModemOK(d, line, Rest(wire), answer, prompted)
    <2>1. HalfOK(c, prompted) /\ ModemOK(c, line, Rest(wire), answer, prompted)
        BY <1>1, <1>3, <1>14, HalfFields
    <2>2. c.written = 0
        BY <1>3, <2>1 DEF HalfOK
    <2>3. line = <<>> /\ Rest(wire) = <<>>
        BY <2>1, <2>2 DEF ModemOK, One
    <2>4. \A i \in 1 .. Len(c.lines) : FALSE
        BY <2>1, <2>2 DEF HalfOK
    <2>5. HalfOK(d, prompted)
        BY <1>8, <2>2, <2>4 DEF HalfOK
    <2> QED BY <2>3, <2>5 DEF ModemOK
<1>15. Inv'
    BY <1>1, <1>2, <1>3, <1>4, <1>8, <1>9, <1>12, <1>13, <1>14, Quiet DEF ChatOK
<1>16. Waiting(chat'.queue) = Waiting(chat.queue)
    BY <1>1, <1>2, <1>8
<1> QED BY <1>4, <1>15, <1>16, SameService DEF Step

LEMMA Passes ==
    ASSUME Inv, TimePasses
    PROVE  Step
<1>1. PICK c : c = chat
    OBVIOUS
<1>2. PICK d : d = chat'
    OBVIOUS
<1>3. /\ ChatOK(c, {}) /\ c \in Structs /\ QueueOK(c, {}) /\ WriterOK(c)
      /\ d = [c EXCEPT !.wakeup_timer = "old"]
      /\ ModemType(line, wire, answer, prompted) /\ (c.open => Awaited(c, line, wire))
      /\ slips \in 0 .. MaxSlips
    BY <1>1, <1>2, InvFields DEF TimePasses
<1>4. UNCHANGED <<line, wire, answer, prompted, told, heard, slips>>
    BY DEF TimePasses, modem
<1>5. /\ d \in Structs
      /\ d.open = c.open /\ d.queue = c.queue /\ d.written = c.written /\ d.armed = c.armed
      /\ d.suspended = c.suspended /\ d.lines = c.lines
      /\ d.timer = c.timer /\ d.strays = c.strays /\ d.next = c.next /\ d.cancelled = c.cancelled
      /\ d.destroyed = c.destroyed
    BY <1>3 DEF Structs
<1>6. QueueOK(d, {}) /\ \A i \in Ids : Settled(c, i) => Settled(d, i)
    BY <1>3, <1>5 DEF QueueOK, Settled
<1>7. Running(d) = Running(c)
    BY <1>5 DEF Running
<1>8. WriterOK(d)
    BY <1>3, <1>5, <1>7 DEF WriterOK
<1>9. d.open => Awaited(d, line, wire)
    BY <1>3, <1>5 DEF Awaited
<1>10. ASSUME HalfDuplex
       PROVE  HalfOK(d, prompted) /\ (d.open => ModemOK(d, line, Rest(wire), answer, prompted))
    <2>1. HalfOK(c, prompted) /\ (c.open => ModemOK(c, line, Rest(wire), answer, prompted))
        BY <1>1, <1>10, HalfFields
    <2>2. HalfOK(d, prompted)
        BY <1>5, <2>1 DEF HalfOK
    <2>3. d.open => ModemOK(d, line, Rest(wire), answer, prompted)
        BY <1>5, <2>1 DEF ModemOK, One, AskedOne, PromptedOne, AnsweredOne
    <2> QED BY <2>2, <2>3
<1>11. Inv'
    BY <1>1, <1>2, <1>3, <1>4, <1>5, <1>6, <1>8, <1>9, <1>10, Quiet DEF ChatOK
<1>12. Waiting(chat'.queue) = Waiting(chat.queue)
    BY <1>1, <1>2, <1>5
<1> QED BY <1>4, <1>11, <1>12, SameService DEF Step

\* What the modem sends now is evidence for whoever it answers.
LEMMA Evidence ==
    ASSUME NEW parts \in Seq(Parts), parts # <<>>, NEW msgs \in Seq(Msgs), NEW w \in Seq(Msgs),
           Len(msgs) <= Len(w), \A k \in 1 .. Len(msgs) : w[k] = msgs[k],
           Head(parts).id # WAKEUP =>
               \E k \in 1 .. Len(w) :
                   /\ w[k].id = Head(parts).id /\ w[k].what \in {"ok", "error", "prompt"}
                   /\ Head(parts).last => w[k].what \in {"ok", "error"},
           NEW c, Awaited(c, parts, msgs)
    PROVE  Awaited(c, Tail(parts), w)
<1>1. PICK t : t = Tail(parts)
    OBVIOUS
<1>2. PICK e : e = Head(parts)
    OBVIOUS
<1>3. /\ Len(parts) \in Nat \ {0} /\ Len(t) = Len(parts) - 1 /\ parts[1] = e
      /\ \A i \in 1 .. Len(parts) - 1 : t[i] = parts[i + 1]
    BY <1>1, <1>2, HeadAndTail
<1>4. Len(msgs) \in Nat /\ Len(w) \in Nat
    BY LenProperties
<1>5. \A k \in 1 .. Len(parts) : k = 1 \/ (k - 1 \in 1 .. Len(t) /\ t[k - 1] = parts[k])
    <2> SUFFICES ASSUME NEW k \in 1 .. Len(parts), k # 1 PROVE k - 1 \in 1 .. Len(t) /\ t[k - 1] = parts[k]
        OBVIOUS
    <2>1. PICK j : j = k - 1
        OBVIOUS
    <2>2. j \in 1 .. Len(parts) - 1 /\ k = j + 1
        BY <1>3, <2>1
    <2> QED BY <1>3, <2>1, <2>2
<1>6. \A k \in 1 .. Len(msgs) : k \in 1 .. Len(w)
    BY <1>4
<1>7. ASSUME NEW x, x # WAKEUP, LastOut(x, parts, msgs) PROVE LastOut(x, t, w)
    <2>1. CASE \E k \in 1 .. Len(parts) : parts[k].id = x /\ parts[k].last
        <3>1. PICK k \in 1 .. Len(parts) : parts[k].id = x /\ parts[k].last
            BY <2>1
        <3>2. CASE k = 1
            <4>1. e.id = x /\ e.last
                BY <1>3, <3>1, <3>2
            <4> QED BY <1>2, <1>7, <4>1 DEF LastOut
        <3>3. CASE k # 1
            BY <1>5, <3>1, <3>3 DEF LastOut
        <3> QED BY <3>2, <3>3
    <2>2. CASE \E k \in 1 .. Len(msgs) : msgs[k].id = x /\ msgs[k].what \in {"ok", "error"}
        BY <1>6, <2>2 DEF LastOut
    <2> QED BY <1>7, <2>1, <2>2 DEF LastOut
<1>8. ASSUME NEW x, x # WAKEUP, PartOut(x, parts, msgs) PROVE PartOut(x, t, w)
    <2>1. CASE \E k \in 1 .. Len(parts) : parts[k].id = x
        <3>1. PICK k \in 1 .. Len(parts) : parts[k].id = x
            BY <2>1
        <3>2. CASE k = 1
            <4>1. e.id = x
                BY <1>3, <3>1, <3>2
            <4> QED BY <1>2, <1>8, <4>1 DEF PartOut
        <3>3. CASE k # 1
            BY <1>5, <3>1, <3>3 DEF PartOut
        <3> QED BY <3>2, <3>3
    <2>2. CASE \E k \in 1 .. Len(msgs) : msgs[k].id = x /\ msgs[k].what \in {"ok", "error", "prompt"}
        BY <1>6, <2>2 DEF PartOut
    <2> QED BY <1>8, <2>1, <2>2 DEF PartOut
<1> QED BY <1>1, <1>7, <1>8 DEF Awaited

LEMMA RestAppend ==
    ASSUME NEW msgs \in Seq(Msgs), NEW m \in Msgs
    PROVE  Rest(Append(msgs, m)) = IF m \in Spurious THEN Rest(msgs) ELSE Append(Rest(msgs), m)
BY WithoutAppend DEF Rest

LEMMA RestEmpty == Rest(<<>>) = <<>>
BY WithoutEmpty DEF Rest

LEMMA NotSpurious ==
    ASSUME NEW what, NEW id, what # "prompt" \/ id # WAKEUP
    PROVE  Msg(what, id) \notin Spurious
BY MsgFields DEF Spurious

LEMMA OneMessage == \A a : Append(<<>>, a) = <<a>>
OBVIOUS

LEMMA TwoMessages == \A a, b : Append(<<a>>, b) = <<a, b>>
<1> SUFFICES ASSUME NEW a, NEW b PROVE Append(<<a>>, b) = <<a, b>>
    OBVIOUS
<1> DEFINE S == {a, b}
<1>1. <<a>> \in Seq(S) /\ b \in S /\ <<a, b>> \in Seq(S)
    OBVIOUS
<1>2. PICK r : r = Append(<<a>>, b)
    OBVIOUS
<1>3. r \in Seq(S) /\ Len(r) = Len(<<a>>) + 1 /\ (\A i \in 1 .. Len(<<a>>) : r[i] = <<a>>[i]) /\ r[Len(<<a>>) + 1] = b
    BY <1>1, <1>2, AppendProperties
<1>4. Len(<<a>>) = 1 /\ <<a>>[1] = a /\ Len(<<a, b>>) = 2 /\ <<a, b>>[1] = a /\ <<a, b>>[2] = b
    OBVIOUS
<1>5. Len(r) = 2 /\ r[1] = a /\ r[2] = b
    BY <1>3, <1>4
<1>6. r = <<a, b>>
    BY <1>1, <1>3, <1>4, <1>5, SeqEqual
<1> QED BY <1>2, <1>6

LEMMA MsgType ==
    ASSUME NEW what \in {"prompt", "line", "ok", "error"}, NEW id \in AllIds
    PROVE  Msg(what, id) \in Msgs
BY DEF Msgs, Msg

\* A message at the end of those the modem has sent.
LEMMA Sends ==
    ASSUME NEW msgs \in Seq(Msgs), NEW m \in Msgs, m \notin Spurious, NEW w, w = Append(msgs, m)
    PROVE  /\ w \in Seq(Msgs) /\ Len(w) = Len(msgs) + 1 /\ Len(msgs) \in Nat
           /\ \A k \in 1 .. Len(msgs) : w[k] = msgs[k]
           /\ w[Len(w)] = m
           /\ Rest(w) = Append(Rest(msgs), m)
<1>1. w \in Seq(Msgs) /\ Len(w) = Len(msgs) + 1 /\ Len(msgs) \in Nat
      /\ (\A k \in 1 .. Len(msgs) : w[k] = msgs[k]) /\ w[Len(msgs) + 1] = m
    BY AppendProperties, LenProperties
<1>2. Rest(w) = Append(Rest(msgs), m)
    BY RestAppend
<1> QED BY <1>1, <1>2

\* A final response m, with a line l before it or alone.
Finals(msgs, w, l, m, alone) ==
    /\ w \in Seq(Msgs) /\ Len(msgs) <= Len(w) /\ \A k \in 1 .. Len(msgs) : w[k] = msgs[k]
    /\ \E k \in 1 .. Len(w) : w[k] = m
    /\ Rest(msgs) = <<>> => Rest(w) = <<m>> \/ (Rest(w) = <<l, m>> /\ ~alone)

LEMMA FinalAlone ==
    ASSUME NEW msgs \in Seq(Msgs), NEW l, NEW m \in Msgs, m \notin Spurious, NEW alone
    PROVE  Finals(msgs, Append(msgs, m), l, m, alone)
<1> DEFINE w == Append(msgs, m)
<1>1. /\ w \in Seq(Msgs) /\ Len(w) = Len(msgs) + 1 /\ Len(msgs) \in Nat
      /\ \A k \in 1 .. Len(msgs) : w[k] = msgs[k]
      /\ w[Len(w)] = m
      /\ Rest(w) = Append(Rest(msgs), m)
    BY Sends
<1> HIDE DEF w
<1>2. Len(w) \in 1 .. Len(w) /\ Len(msgs) <= Len(w)
    BY <1>1
<1>3. Rest(msgs) = <<>> => Rest(w) = <<m>>
    BY <1>1, OneMessage
<1>4. Finals(msgs, w, l, m, alone)
    BY <1>1, <1>2, <1>3 DEF Finals
<1> QED BY <1>4 DEF w

LEMMA FinalAfterLine ==
    ASSUME NEW msgs \in Seq(Msgs), NEW l \in Msgs, l \notin Spurious, NEW m \in Msgs, m \notin Spurious
    PROVE  Finals(msgs, Append(Append(msgs, l), m), l, m, FALSE)
<1> DEFINE v == Append(msgs, l)
           w == Append(v, m)
<1>1. /\ v \in Seq(Msgs) /\ Len(v) = Len(msgs) + 1 /\ Len(msgs) \in Nat
      /\ \A k \in 1 .. Len(msgs) : v[k] = msgs[k]
      /\ v[Len(v)] = l
      /\ Rest(v) = Append(Rest(msgs), l)
    BY Sends
<1> HIDE DEF v
<1>2. /\ w \in Seq(Msgs) /\ Len(w) = Len(v) + 1 /\ Len(v) \in Nat
      /\ \A k \in 1 .. Len(v) : w[k] = v[k]
      /\ w[Len(w)] = m
      /\ Rest(w) = Append(Rest(v), m)
    <2>1. v \in Seq(Msgs)
        BY <1>1
    <2> QED BY <2>1, Sends
<1> HIDE DEF w
<1>3. Len(w) \in 1 .. Len(w) /\ Len(msgs) <= Len(w) /\ \A k \in 1 .. Len(msgs) : k \in 1 .. Len(v)
    BY <1>1, <1>2
<1>4. \A k \in 1 .. Len(msgs) : w[k] = msgs[k]
    BY <1>1, <1>2, <1>3
<1>5. ASSUME Rest(msgs) = <<>> PROVE Rest(w) = <<l, m>>
    <2>1. Rest(v) = <<l>>
        BY <1>1, <1>5, OneMessage
    <2>2. Rest(w) = Append(<<l>>, m)
        BY <1>2, <2>1
    <2> QED BY <2>2, TwoMessages
<1>6. Finals(msgs, w, l, m, FALSE)
    BY <1>2, <1>3, <1>4, <1>5 DEF Finals
<1> QED BY <1>6 DEF v, w

LEMMA FinalConcat ==
    ASSUME NEW msgs \in Seq(Msgs), NEW l \in Msgs, l \notin Spurious, NEW m \in Msgs, m \notin Spurious
    PROVE  /\ \A alone : Finals(msgs, msgs \o <<>> \o <<m>>, l, m, alone)
           /\ Finals(msgs, msgs \o <<l>> \o <<m>>, l, m, FALSE)
<1>1. msgs \o <<>> \o <<m>> = Append(msgs, m)
    <2>1. msgs \o <<>> = msgs
        BY ConcatEmptySeq
    <2> QED BY <2>1, AppendIsConcat
<1>2. msgs \o <<l>> \o <<m>> = Append(Append(msgs, l), m)
    <2>1. Append(msgs, l) = msgs \o <<l>> /\ Append(msgs, l) \in Seq(Msgs)
        BY AppendIsConcat, AppendProperties
    <2>2. Append(Append(msgs, l), m) = Append(msgs, l) \o <<m>>
        BY <2>1, AppendIsConcat
    <2> QED BY <2>1, <2>2
<1>3. \A alone : Finals(msgs, Append(msgs, m), l, m, alone)
    BY FinalAlone
<1>4. Finals(msgs, Append(Append(msgs, l), m), l, m, FALSE)
    BY FinalAfterLine
<1> QED BY <1>1, <1>2, <1>3, <1>4

LEMMA FinalSent ==
    ASSUME NEW msgs \in Seq(Msgs), NEW what \in {"ok", "error"}, NEW id \in AllIds,
           NEW before \in {<<>>, <<Msg("line", id)>>},
           NEW w, w = msgs \o before \o <<Msg(what, id)>>
    PROVE  Finals(msgs, w, Msg("line", id), Msg(what, id), before = <<>>)
<1>1. Msg(what, id) \in Msgs /\ Msg(what, id) \notin Spurious
    <2>1. what \in {"prompt", "line", "ok", "error"} /\ what # "prompt"
        OBVIOUS
    <2> QED BY <2>1, MsgType, NotSpurious
<1>2. Msg("line", id) \in Msgs /\ Msg("line", id) \notin Spurious
    <2>1. "line" \in {"prompt", "line", "ok", "error"} /\ "line" # "prompt"
        OBVIOUS
    <2> QED BY <2>1, MsgType, NotSpurious
<1>3. /\ \A alone : Finals(msgs, msgs \o <<>> \o <<Msg(what, id)>>, Msg("line", id), Msg(what, id), alone)
      /\ Finals(msgs, msgs \o <<Msg("line", id)>> \o <<Msg(what, id)>>, Msg("line", id), Msg(what, id), FALSE)
    BY <1>1, <1>2, FinalConcat
<1>4. CASE before = <<>>
    BY <1>3, <1>4
<1>5. CASE before = <<Msg("line", id)>>
    <2>1. (before = <<>>) = FALSE
        BY <1>5
    <2>2. Finals(msgs, w, Msg("line", id), Msg(what, id), FALSE)
        BY <1>3, <1>5
    <2> QED BY <2>1, <2>2
<1> QED BY <1>4, <1>5

LEMMA Prompts ==
    ASSUME Inv, ModemPrompts
    PROVE  Step
<1>1. PICK c : c = chat
    OBVIOUS
<1>2. /\ ChatOK(c, {}) /\ c.open
      /\ ModemType(line, wire, answer, prompted) /\ Awaited(c, line, wire) /\ slips \in 0 .. MaxSlips
    BY <1>1, InvFields DEF ModemPrompts
<1>3. UNCHANGED <<chat, line, answer, prompted, told, heard, slips>>
    BY DEF ModemPrompts, modem
<1>4. PICK m : m = Msg("prompt", WAKEUP)
    OBVIOUS
<1>5. wire = <<>> /\ wire' = <<m>>
    BY <1>4 DEF ModemPrompts
<1>6. m \in Msgs /\ m \in Spurious
    BY <1>4, AtChatAssumption DEF Msgs, Msg, WAKEUP, AllIds, Spurious
<1>7. wire' = Append(wire, m) /\ wire' \in Seq(Msgs)
    BY <1>5, <1>6, OneMessage
<1>8. Rest(wire') = Rest(wire)
    <2>1. wire \in Seq(Msgs)
        BY <1>2 DEF ModemType
    <2> QED BY <1>6, <1>7, <2>1, RestAppend
<1>9. Awaited(c, line, wire')
    <2>1. Len(wire) = 0
        BY <1>5
    <2>2. \A x : LastOut(x, line, wire) => LastOut(x, line, wire')
        BY <2>1 DEF LastOut
    <2>3. \A x : PartOut(x, line, wire) => PartOut(x, line, wire')
        BY <2>1 DEF PartOut
    <2> QED BY <1>2, <2>2, <2>3 DEF Awaited
<1>10. ModemType(line', wire', answer', prompted')
    BY <1>2, <1>3, <1>7 DEF ModemType
<1>11. ASSUME HalfDuplex
       PROVE  HalfOK(c, prompted) /\ ModemOK(c, line, Rest(wire'), answer, prompted)
    BY <1>1, <1>2, <1>8, <1>11, HalfFields
<1>12. Inv'
    BY <1>1, <1>2, <1>3, <1>9, <1>10, <1>11, Quiet
<1> QED BY <1>3, <1>12, SameService DEF Step

\* The modem has the part it answers from the head of the queue.
LEMMA AskedHead ==
    ASSUME Inv, HalfDuplex, NEW c, c = chat, c.open, line # <<>>
    PROVE  /\ c.queue # <<>> /\ line = <<Head(line)>> /\ Tail(line) = <<>> /\ Rest(wire) = <<>>
           /\ Head(line).id = Head(c.queue).id /\ (Head(line).last <=> c.written = Length(Head(c.queue)))
           /\ c.written \in {2, 4} /\ (c.armed => c.written = Length(Head(c.queue)))
           /\ c.written # Length(Head(c.queue)) => c.written = 2 /\ Length(Head(c.queue)) = 4
           /\ Head(line).id \in Ids => told[Head(line).id] = "none"
           /\ HalfOK(c, prompted)
<1>1. HalfOK(c, prompted) /\ ModemOK(c, line, Rest(wire), answer, prompted)
    BY HalfFields
<1>2. c.written \in {2, 4} /\ (c.armed => c.written = Length(Head(c.queue))) /\ AskedOne(c, line, Rest(wire))
    BY <1>1 DEF ModemOK, One, PromptedOne, AnsweredOne
<1>3. PICK e \in Parts : line = <<e>> /\ e.id = Head(c.queue).id /\ (e.last <=> c.written = Length(Head(c.queue)))
    BY <1>2 DEF AskedOne
<1>4. Head(<<e>>) = e /\ Tail(<<e>>) = <<>>
    OBVIOUS
<1>5. WriterOK(c) /\ Hears(told, c)
    BY InvFields
<1>6. c.queue # <<>>
    BY <1>2, <1>5 DEF WriterOK
<1>7. Has(c.queue, Head(c.queue).id)
    BY <1>6, InvFields
<1>8. e.id \in Ids => told[e.id] = "none"
    BY <1>3, <1>5, <1>7 DEF Hears, Settled
<1>9. c.written # Length(Head(c.queue)) => c.written = 2 /\ Length(Head(c.queue)) = 4
    <2>1. c.written <= Length(Head(c.queue)) /\ Length(Head(c.queue)) \in {2, 4}
        BY <1>5, <1>6 DEF WriterOK, Length
    <2> QED BY <1>2, <2>1
<1>10. Rest(wire) = <<>>
    BY <1>2 DEF AskedOne
<1> QED BY <1>1, <1>2, <1>3, <1>4, <1>6, <1>8, <1>9, <1>10

LEMMA Answers ==
    ASSUME Inv, ModemAnswers
    PROVE  Step
<1>1. PICK c : c = chat
    OBVIOUS
<1>2. /\ ChatOK(c, {}) /\ c.open /\ line # <<>> /\ line' = Tail(line)
      /\ ModemType(line, wire, answer, prompted) /\ Awaited(c, line, wire) /\ slips \in 0 .. MaxSlips
    BY <1>1, InvFields DEF ModemAnswers
<1>3. UNCHANGED <<chat, told, heard, slips>>
    BY DEF ModemAnswers
<1>4. line \in Seq(Parts) /\ wire \in Seq(Msgs) /\ answer \in Results /\ prompted \subseteq Ids
    BY <1>2 DEF ModemType
<1>5. PICK e : e = Head(line)
    OBVIOUS
<1>6. PICK id : id = e.id
    OBVIOUS
<1>7. e \in Parts /\ id \in AllIds /\ line' \in Seq(Parts)
    <2>1. e \in Parts /\ line' \in Seq(Parts)
        BY <1>2, <1>4, <1>5, HeadAndTail
    <2> QED BY <1>6, <2>1 DEF Parts
<1>8. id # WAKEUP => id \in Ids
    BY <1>7, AtChatAssumption DEF AllIds, Ids, WAKEUP
<1>9. PICK w : w = wire'
    OBVIOUS
\* What any answer comes down to.
<1>10. ASSUME w \in Seq(Msgs), Len(wire) <= Len(w), \A k \in 1 .. Len(wire) : w[k] = wire[k],
              id # WAKEUP => \E k \in 1 .. Len(w) : /\ w[k].id = id /\ w[k].what \in {"ok", "error", "prompt"}
                                                    /\ e.last => w[k].what \in {"ok", "error"},
              answer' \in Results, prompted' \subseteq Ids, prompted \subseteq prompted',
              HalfDuplex => /\ ModemOK(c, <<>>, Rest(w), answer', prompted')
                            /\ \A i \in Ids : told[i] # "none" => answer'[i] = answer[i]
       PROVE  Step
    <2>1. Awaited(c, Tail(line), w)
        BY <1>2, <1>4, <1>5, <1>6, <1>10, Evidence
    <2>2. ModemType(line', wire', answer', prompted')
        BY <1>7, <1>9, <1>10 DEF ModemType
    <2>3. ASSUME HalfDuplex
          PROVE  HalfOK(c, prompted') /\ ModemOK(c, line', Rest(wire'), answer', prompted')
        <3>1. HalfOK(c, prompted) /\ line' = <<>>
            BY <1>1, <1>2, <2>3, AskedHead
        <3>2. HalfOK(c, prompted')
            BY <1>10, <3>1 DEF HalfOK
        <3> QED BY <1>9, <1>10, <2>3, <3>1, <3>2
    <2>4. Inv'
        BY <1>1, <1>2, <1>3, <1>9, <1>10, <2>1, <2>2, <2>3, Quiet
    <2> QED BY <1>3, <2>4, SameService DEF Step
\* A final response to anybody.
<1>11. ASSUME NEW what \in {"ok", "error"}, NEW before \in {<<>>, <<Msg("line", id)>>},
              Final(id, what, before), id # WAKEUP \/ before = <<>>
       PROVE  Step
    <2>1. w = wire \o before \o <<Msg(what, id)>>
        BY <1>9, <1>11 DEF Final
    <2>2. Finals(wire, w, Msg("line", id), Msg(what, id), before = <<>>)
        BY <1>4, <1>7, <2>1, FinalSent
    <2>3. PICK k \in 1 .. Len(w) : w[k] = Msg(what, id)
        BY <2>2 DEF Finals
    <2>4. w[k].id = id /\ w[k].what = what
        BY <2>3, MsgFields
    <2>5. prompted' = prompted /\ answer' = IF id = WAKEUP THEN answer ELSE [answer EXCEPT ![id] = what]
        BY <1>11 DEF Final
    <2>6. answer' \in Results /\ (id # WAKEUP => answer'[id] = what)
          /\ \A i \in Ids : i # id => answer'[i] = answer[i]
        <3>1. CASE id = WAKEUP
            BY <1>4, <2>5, <3>1
        <3>2. CASE id # WAKEUP
            BY <1>4, <1>8, <2>5, <3>2 DEF Results
        <3> QED BY <3>1, <3>2
    <2>7. ASSUME HalfDuplex
          PROVE  /\ ModemOK(c, <<>>, Rest(w), answer', prompted')
                 /\ \A i \in Ids : told[i] # "none" => answer'[i] = answer[i]
        <3>1. /\ Rest(wire) = <<>> /\ id = Head(c.queue).id
              /\ c.written \in {2, 4} /\ (c.armed => c.written = Length(Head(c.queue)))
              /\ id \in Ids => told[id] = "none"
            BY <1>1, <1>2, <1>5, <1>6, <2>7, AskedHead
        <3>2. \/ Rest(w) = <<Msg(what, id)>>
              \/ Rest(w) = <<Msg("line", id), Msg(what, id)>> /\ before # <<>>
            BY <2>2, <3>1 DEF Finals
        <3>3. AnsweredOne(c, <<>>, Rest(w), answer')
            BY <1>11, <2>6, <3>1, <3>2 DEF AnsweredOne
        <3> QED BY <2>6, <3>1, <3>3 DEF ModemOK, One
    <2>8. w \in Seq(Msgs) /\ Len(wire) <= Len(w) /\ \A j \in 1 .. Len(wire) : w[j] = wire[j]
        BY <2>2 DEF Finals
    <2>9. prompted' \subseteq Ids /\ prompted \subseteq prompted'
        BY <1>4, <2>5
    <2> QED BY <1>10, <2>3, <2>4, <2>6, <2>7, <2>8, <2>9
<1>12. ASSUME id # WAKEUP, ~e.last, w = Append(wire, Msg("prompt", id)),
              prompted' = prompted \cup {id}, answer' = answer
       PROVE  Step
    <2>1. Msg("prompt", id) \in Msgs /\ Msg("prompt", id) \notin Spurious
        <3>1. "prompt" \in {"prompt", "line", "ok", "error"}
            OBVIOUS
        <3> QED BY <1>7, <1>12, <3>1, MsgType, NotSpurious
    <2>2. Finals(wire, w, <<>>, Msg("prompt", id), TRUE)
        BY <1>4, <1>12, <2>1, FinalAlone
    <2>3. PICK k \in 1 .. Len(w) : w[k] = Msg("prompt", id)
        BY <2>2 DEF Finals
    <2>4. w[k].id = id /\ w[k].what = "prompt"
        BY <2>3, MsgFields
    <2>5. ASSUME HalfDuplex
          PROVE  /\ ModemOK(c, <<>>, Rest(w), answer', prompted')
                 /\ \A i \in Ids : told[i] # "none" => answer'[i] = answer[i]
        <3>1. /\ Rest(wire) = <<>> /\ id = Head(c.queue).id
              /\ c.written \in {2, 4} /\ (c.armed => c.written = Length(Head(c.queue)))
              /\ e.last <=> c.written = Length(Head(c.queue))
              /\ c.written # Length(Head(c.queue)) => c.written = 2 /\ Length(Head(c.queue)) = 4
            BY <1>1, <1>2, <1>5, <1>6, <2>5, AskedHead
        <3>2. Rest(w) = <<Msg("prompt", id)>>
            BY <2>2, <3>1 DEF Finals
        <3>3. id \in prompted'
            BY <1>12
        <3>4. PromptedOne(c, <<>>, Rest(w), prompted')
            BY <1>12, <3>1, <3>2, <3>3 DEF PromptedOne
        <3> QED BY <1>12, <3>1, <3>4 DEF ModemOK, One
    <2>6. w \in Seq(Msgs) /\ Len(wire) <= Len(w) /\ \A j \in 1 .. Len(wire) : w[j] = wire[j]
        BY <2>2 DEF Finals
    <2>7. prompted' \subseteq Ids /\ prompted \subseteq prompted' /\ answer' \in Results
        BY <1>4, <1>8, <1>12
    <2> QED BY <1>10, <1>12, <2>3, <2>4, <2>5, <2>6, <2>7
<1>13. ASSUME id = WAKEUP, UNCHANGED <<wire, answer, prompted>> PROVE Step
    <2>1. w = wire
        BY <1>9, <1>13
    <2>2. HalfDuplex => ModemOK(c, <<>>, Rest(w), answer', prompted')
        <3>1. HalfDuplex => Rest(w) = <<>>
            BY <1>1, <1>2, <2>1, AskedHead
        <3> QED BY <3>1 DEF ModemOK
    <2>3. Len(wire) <= Len(w)
        <3>1. Len(wire) \in Nat
            BY <1>4, LenProperties
        <3> QED BY <2>1, <3>1
    <2> QED BY <1>4, <1>10, <1>13, <2>1, <2>2, <2>3
<1>14. CASE id # WAKEUP
    <2>1. \/ \E before \in {<<>>, <<Msg("line", id)>>} : Final(id, "error", before)
          \/ \E before \in {<<>>, <<Msg("line", id)>>} : Final(id, "ok", before)
          \/ /\ ~e.last /\ wire' = Append(wire, Msg("prompt", id))
             /\ prompted' = prompted \cup {id} /\ UNCHANGED answer
        BY <1>5, <1>6, <1>14 DEF ModemAnswers
    <2> QED BY <1>9, <1>11, <1>12, <1>14, <2>1
<1>15. CASE id = WAKEUP
    <2>1. \/ Final(id, "ok", <<>>) \/ Final(id, "error", <<>>)
          \/ UNCHANGED <<wire, answer, prompted>>
        BY <1>5, <1>6, <1>15 DEF ModemAnswers
    <2>2. <<>> \in {<<>>, <<Msg("line", id)>>}
        OBVIOUS
    <2> QED BY <1>11, <1>13, <1>15, <2>1, <2>2
<1> QED BY <1>14, <1>15

\* Nobody is answered, or the oldest command is and its callback makes a call.
Answered(v, w) ==
    \/ w = v /\ told' = told
    \/ \E i \in Ids, result \in {"ok", "error"}, u \in Seq(AllIds) :
          /\ v = <<i>> \o u /\ told[i] = "none" /\ told' = [told EXCEPT ![i] = result]
          /\ Then(u, w)

LEMMA AnsweredService ==
    ASSUME NEW v, v = Waiting(chat.queue), NEW w, w = Waiting(chat'.queue), Answered(v, w)
    PROVE  [Service!Next]_<<Waiting(chat.queue), told>>
<1>1. CASE w = v /\ told' = told
    BY <1>1, SameService
<1>2. CASE \E i \in Ids, result \in {"ok", "error"}, u \in Seq(AllIds) :
              /\ v = <<i>> \o u /\ told[i] = "none" /\ told' = [told EXCEPT ![i] = result]
              /\ Then(u, w)
    <2>1. PICK i \in Ids, result \in {"ok", "error"}, u \in Seq(AllIds) :
              /\ v = <<i>> \o u /\ told[i] = "none" /\ told' = [told EXCEPT ![i] = result]
              /\ Then(u, w)
        BY <1>2
    <2>2. Waiting(chat.queue) = <<i>> \o u
        BY <2>1
    <2> QED BY <2>1, <2>2, AnswerService
<1> QED BY <1>1, <1>2 DEF Answered

\* What finish_command leaves, whoever calls it.
Finishes(c, d, ok) ==
    /\ ChatOK(d, {})
    /\ d.open => d.written = 0
    /\ \A i \in Ids : Settled(c, i) => Settled(d, i)
    /\ d.open /\ ~ok => /\ Running(d) = Running(c)
                        /\ \A n \in Nat : WithTimers(c.queue, n + 1) => WithTimers(d.queue, n)
    /\ ~c.suspended => \A ids : HalfOK(d, ids)

\* The head has a callback, which makes a call.
ByCallback(c, h, r, d) ==
    /\ ChatOK(c, {}) /\ c.open /\ c.queue # <<>> /\ h = Head(c.queue) /\ h.id # WAKEUP /\ h.callback
    /\ r \in Reactions(Finished(c)) /\ d = Destroyed(r, {h})

\* The head is a wakeup, or has no callback any more.
InSilence(c, h, ok, g, d) ==
    /\ ChatOK(c, {}) /\ c.open /\ c.queue # <<>> /\ h = Head(c.queue)
    /\ h.id = WAKEUP \/ ~h.callback
    /\ g = IF h.id = WAKEUP THEN wakeup_cb(Finished(c), ok) ELSE Finished(c)
    /\ d = Destroyed(g, {h})

LEMMA FinishCalled ==
    ASSUME NEW c, NEW h, NEW r, NEW d, NEW ok, ByCallback(c, h, r, d)
    PROVE  /\ Finishes(c, d, ok)
           /\ h.id \in Ids /\ Settled(d, h.id) /\ ~Settled(c, h.id)
           /\ \E u \in Seq(AllIds) : Waiting(c.queue) = <<h.id>> \o u /\ Then(u, Waiting(d.queue))
<1> USE DEF ByCallback
<1>1. c \in Structs /\ QueueOK(c, {}) /\ WriterOK(c) /\ c.queue \in Seq(Cmds) /\ c.open = TRUE
    BY StructFields DEF ChatOK
<1>2. PICK q : q = c.queue
    OBVIOUS
<1>3. PICK t : t = Tail(q)
    OBVIOUS
<1>4. q \in Seq(Cmds) /\ q # <<>> /\ Increasing(q) /\ h = Head(q)
    BY <1>1, <1>2 DEF QueueOK, InOrder
<1>5. /\ h \in Cmds /\ h.id \in AllIds /\ t \in Seq(Cmds) /\ q = <<h>> \o t
      /\ \A i \in Ids : Has(t, i) <=> Has(q, i) /\ i # h.id
      /\ Has(q, h.id)
      /\ \A n \in Int : WithTimers(q, n) => WithTimers(t, n - 1)
      /\ h.id # WAKEUP => WithTimers(t, 0)
    BY <1>3, <1>4, TailFacts
<1>6. PICK f : f = Finished(c)
    OBVIOUS
<1>7. f \in Structs /\ Pops(c, f) /\ f.timer = c.timer /\ f.strays = c.strays
    BY <1>1, <1>6, FinishedFields
<1>8. f.open /\ f.queue = t /\ f.written = 0 /\ f.next = c.next /\ f.cancelled = c.cancelled
      /\ Running(f) = Running(c)
    BY <1>1, <1>2, <1>3, <1>7 DEF Pops, Running
<1>9. Running(f) \in Nat
    BY <1>7, StructFields
<1>10. WithTimers(f.queue, 0) /\ WithTimers(f.queue, Running(f))
    <2>1. WithTimers(t, 0)
        BY <1>5
    <2>2. 0 \in Int /\ Running(f) \in Int /\ 0 <= Running(f)
        BY <1>9
    <2>3. WithTimers(t, Running(f))
        BY <1>5, <2>1, <2>2, TimersMore
    <2> QED BY <1>8, <2>1, <2>3
<1>11. /\ ChatOK(f, {h.id})
       /\ \A i \in Ids : Settled(c, i) => Settled(f, i)
       /\ ~c.suspended => \A ids : HalfOK(f, ids)
    BY <1>2, <1>4, <1>7, <1>10, Popped
<1>12. Keeps(f, r, {h.id})
    BY <1>6, <1>8, <1>10, <1>11, ReactionsCalled
<1>13. ChatOK(r, {h.id})
    BY <1>12 DEF Keeps
<1>14. /\ ChatOK(d, {}) /\ (\A i \in Ids : Settled(d, i) <=> Settled(r, i))
       /\ d.open = r.open /\ d.queue = r.queue /\ d.written = r.written /\ Running(d) = Running(r)
       /\ \A ids : HalfOK(r, ids) => HalfOK(d, ids)
    BY <1>13, Unheld
<1>15. \A i \in Ids : Settled(c, i) => Settled(d, i)
    BY <1>11, <1>12, <1>14 DEF Keeps
<1>16. d.open => d.written = 0 /\ Running(d) = Running(c)
    BY <1>8, <1>12, <1>14 DEF Keeps
<1>17. ASSUME NEW n \in Nat, WithTimers(c.queue, n + 1) PROVE WithTimers(d.queue, n)
    <2>1. PICK m : m = n + 1
        OBVIOUS
    <2>2. m \in Int /\ m - 1 = n
        BY <2>1
    <2>3. WithTimers(q, m)
        BY <1>2, <1>17, <2>1
    <2>4. WithTimers(t, m - 1)
        BY <1>5, <2>2, <2>3
    <2>5. WithTimers(f.queue, n)
        BY <1>8, <2>2, <2>4
    <2> QED BY <1>12, <1>14, <2>5 DEF Keeps
<1>18. ~c.suspended => \A ids : HalfOK(d, ids)
    BY <1>11, <1>12, <1>14 DEF Keeps
<1>19. h.id \in Ids
    BY <1>5, AtChatAssumption DEF AllIds, Ids, WAKEUP
<1>20. ~Settled(c, h.id)
    BY <1>2, <1>5 DEF Settled
<1>21. h.id < c.next /\ h.id \notin c.cancelled
    <2>1. h = q[1] /\ 1 \in 1 .. Len(q)
        BY <1>4, QueueFacts
    <2> QED BY <1>1, <1>2, <2>1 DEF QueueOK, InOrder, Callable
<1>22. Settled(d, h.id)
    <2>1. ~Has(t, h.id)
        BY <1>5, <1>19
    <2>2. Settled(f, h.id)
        BY <1>8, <1>21, <2>1 DEF Settled
    <2> QED BY <1>12, <1>14, <1>19, <2>2 DEF Keeps
<1>23. Waiting(q) = <<h.id>> \o Waiting(t) /\ Waiting(t) \in Seq(AllIds)
    <2>1. h \notin Dead
        BY DEF Dead
    <2> QED BY <1>5, <2>1, WaitingBefore, WaitingIs
<1>24. Then(Waiting(t), Waiting(d.queue))
    BY <1>8, <1>12, <1>14 DEF Keeps
<1> QED BY <1>2, <1>14, <1>15, <1>16, <1>17, <1>18, <1>19, <1>20, <1>22, <1>23, <1>24 DEF Finishes

LEMMA FinishSilent ==
    ASSUME NEW c, NEW h, NEW ok \in BOOLEAN, NEW g, NEW d, InSilence(c, h, ok, g, d)
    PROVE  Finishes(c, d, ok) /\ Waiting(d.queue) = Waiting(c.queue)
<1> USE DEF InSilence
<1>1. c \in Structs /\ QueueOK(c, {}) /\ WriterOK(c) /\ c.queue \in Seq(Cmds) /\ c.open = TRUE
    BY StructFields DEF ChatOK
<1>2. PICK q : q = c.queue
    OBVIOUS
<1>3. PICK t : t = Tail(q)
    OBVIOUS
<1>4. q \in Seq(Cmds) /\ q # <<>> /\ Increasing(q) /\ h = Head(q)
    BY <1>1, <1>2 DEF QueueOK, InOrder
<1>5. /\ h \in Cmds /\ h.id \in AllIds /\ t \in Seq(Cmds) /\ q = <<h>> \o t
      /\ \A n \in Int : WithTimers(q, n) => WithTimers(t, n - 1)
      /\ h.id # WAKEUP => WithTimers(t, 0)
    BY <1>3, <1>4, TailFacts
<1>6. PICK f : f = Finished(c)
    OBVIOUS
<1>7. f \in Structs /\ Pops(c, f) /\ f.timer = c.timer /\ f.strays = c.strays
    BY <1>1, <1>6, FinishedFields
<1>8. Running(f) = Running(c) /\ Running(c) \in Nat
    BY <1>1, <1>7, StructFields DEF Running
<1>9. g \in Structs /\ Pops(c, g) /\ Running(g) \in Nat
      /\ (g = f \/ (h.id = WAKEUP /\ ok /\ Running(g) >= Running(f) - 1))
    <2>1. CASE h.id = WAKEUP /\ ok
        <3>1. g = [f EXCEPT !.timer = FALSE]
            BY <1>6, <2>1 DEF wakeup_cb
        <3>2. /\ g \in Structs /\ g.timer = FALSE /\ g.armed = f.armed /\ g.strays = f.strays
              /\ g.open = f.open /\ g.queue = f.queue /\ g.written = f.written /\ g.lines = f.lines
              /\ g.suspended = f.suspended /\ g.next = f.next /\ g.cancelled = f.cancelled
              /\ g.destroyed = f.destroyed /\ g.wakeup_timer = f.wakeup_timer
            BY <1>7, <3>1 DEF Structs
        <3>3. Pops(c, g)
            BY <1>7, <3>2 DEF Pops
        <3>4. Running(g) = f.strays
            BY <3>2, StructFields
        <3>5. Running(f) = f.strays \/ Running(f) = f.strays + 1
            BY <1>7, StructFields
        <3>6. f.strays \in Nat
            BY <1>7, StructFields
        <3>7. Running(g) \in Nat /\ Running(g) >= Running(f) - 1
            BY <3>4, <3>5, <3>6
        <3>8. h.id = WAKEUP /\ ok
            BY <2>1
        <3> QED BY <3>2, <3>3, <3>7, <3>8, Zenon
    <2>2. CASE h.id = WAKEUP /\ ~ok
        <3>1. g = f
            BY <1>6, <2>2 DEF wakeup_cb
        <3> QED BY <1>7, <1>8, <3>1
    <2>3. CASE h.id # WAKEUP
        <3>1. g = f
            BY <1>6, <2>3
        <3> QED BY <1>7, <1>8, <3>1
    <2> QED BY <2>1, <2>2, <2>3
<1>10. g.open = c.open /\ g.queue = t /\ g.written = 0
    BY <1>2, <1>3, <1>9 DEF Pops
<1>11. WithTimers(g.queue, Running(g))
    <2>1. CASE h.id = WAKEUP
        <3>1. PICK m : m = Running(c) - 1
            OBVIOUS
        <3>2. PICK n : n = Running(g)
            OBVIOUS
        <3>3. m \in Int /\ n \in Int /\ m <= n /\ Running(c) \in Int
            <4>1. Running(g) = Running(f) \/ Running(g) >= Running(f) - 1
                BY <1>9
            <4> QED BY <1>8, <1>9, <3>1, <3>2, <4>1
        <3>4. WithTimers(q, Running(c))
            BY <1>1, <1>2 DEF WriterOK
        <3>5. WithTimers(t, m)
            BY <1>5, <3>1, <3>3, <3>4
        <3>6. WithTimers(t, n)
            BY <1>5, <3>3, <3>5, TimersMore
        <3> QED BY <1>10, <3>2, <3>6
    <2>2. CASE h.id # WAKEUP
        <3>1. PICK n : n = Running(g)
            OBVIOUS
        <3>2. 0 \in Int /\ n \in Int /\ 0 <= n
            BY <1>9, <3>1
        <3>3. WithTimers(t, n)
            BY <1>5, <2>2, <3>2, TimersMore
        <3> QED BY <1>10, <3>1, <3>3
    <2> QED BY <2>1, <2>2
<1>12. /\ ChatOK(g, {h.id})
       /\ \A i \in Ids : Settled(c, i) => Settled(g, i)
       /\ ~c.suspended => \A ids : HalfOK(g, ids)
    BY <1>2, <1>4, <1>9, <1>11, Popped
<1>13. /\ ChatOK(d, {}) /\ (\A i \in Ids : Settled(d, i) <=> Settled(g, i))
       /\ d.open = g.open /\ d.queue = g.queue /\ d.written = g.written /\ Running(d) = Running(g)
       /\ \A ids : HalfOK(g, ids) => HalfOK(d, ids)
    BY <1>12, Unheld
<1>14. ~ok => Running(d) = Running(c)
    BY <1>8, <1>9, <1>13
<1>15. ASSUME NEW n \in Nat, WithTimers(c.queue, n + 1) PROVE WithTimers(d.queue, n)
    <2>1. PICK m : m = n + 1
        OBVIOUS
    <2>2. m \in Int /\ m - 1 = n
        BY <2>1
    <2>3. WithTimers(q, m)
        BY <1>2, <1>15, <2>1
    <2>4. WithTimers(t, m - 1)
        BY <1>5, <2>2, <2>3
    <2> QED BY <1>10, <1>13, <2>2, <2>4
<1>16. Finishes(c, d, ok)
    BY <1>10, <1>12, <1>13, <1>14, <1>15 DEF Finishes
<1>17. Waiting(q) = Waiting(t)
    <2>1. h \in Dead
        BY <1>5 DEF Dead
    <2> QED BY <1>5, <2>1, WaitingBefore
<1> QED BY <1>2, <1>10, <1>13, <1>16, <1>17

\* finish_command in a state of the channel, and what comes of it.
Finishing(c, h, d, ok) ==
    /\ c = chat /\ c.open /\ c.queue # <<>> /\ h = Head(c.queue)
    /\ d \in FinishedBy(ok) /\ Tells(ok)

CalledWith(c, h, d, ok) ==
    /\ Finishes(c, d, ok) /\ Hears(told', d)
    /\ Answered(Waiting(c.queue), Waiting(d.queue))
    /\ \/ told' = told /\ heard' = heard
       \/ /\ Called(h) /\ h.id \in Ids
          /\ told' = [told EXCEPT ![h.id] = IF ok THEN "ok" ELSE "error"]
          /\ \A p \in heard' : p \in heard \/ \E i \in 1 .. Len(c.lines) : p = <<h.id, c.lines[i]>>

LEMMA FinishOK ==
    ASSUME Inv, NEW c, NEW h, NEW d, NEW ok \in BOOLEAN, Finishing(c, h, d, ok)
    PROVE  CalledWith(c, h, d, ok)
<1> USE DEF Finishing
<1>1. /\ ChatOK(c, {}) /\ c \in Structs /\ Hears(told, c) /\ c.queue \in Seq(Cmds) /\ h.id \in AllIds
    BY InvFields
<1>2. told \in Results /\ \A i \in Ids : told[i] # "none" => Settled(c, i)
    BY <1>1 DEF Hears
<1>3. CASE h.callback /\ h.id # WAKEUP
    <2>1. /\ told' = [told EXCEPT ![h.id] = IF ok THEN "ok" ELSE "error"]
          /\ heard' = heard \cup {<<h.id, c.lines[i]>> : i \in DOMAIN c.lines}
        BY <1>3 DEF Tells, Called
    <2>2. \E r \in Reactions(Finished(c)) : d = Destroyed(r, {h})
        BY <1>3 DEF FinishedBy, Called
    <2>3. PICK r \in Reactions(Finished(c)) : d = Destroyed(r, {h})
        BY <2>2
    <2>4. /\ Finishes(c, d, ok)
          /\ h.id \in Ids /\ Settled(d, h.id) /\ ~Settled(c, h.id)
          /\ \E u \in Seq(AllIds) : Waiting(c.queue) = <<h.id>> \o u /\ Then(u, Waiting(d.queue))
        <3>1. ByCallback(c, h, r, d)
            BY <1>1, <1>3, <2>3 DEF ByCallback
        <3> QED BY <3>1, FinishCalled
    <2>5. told[h.id] = "none"
        BY <1>2, <2>4
    <2>6. PICK result \in {"ok", "error"} : result = IF ok THEN "ok" ELSE "error"
        OBVIOUS
    <2>7. told' = [told EXCEPT ![h.id] = result]
        BY <2>1, <2>6
    <2>8. Hears(told', d)
        <3>1. told' \in Results
            BY <1>2, <2>4, <2>7 DEF Results
        <3>2. ASSUME NEW i \in Ids, told'[i] # "none" PROVE Settled(d, i)
            <4>1. CASE i = h.id
                BY <2>4, <4>1
            <4>2. CASE i # h.id
                <5>1. told'[i] = told[i]
                    BY <1>2, <2>7, <4>2 DEF Results
                <5> QED BY <1>2, <2>4, <3>2, <5>1 DEF Finishes
            <4> QED BY <4>1, <4>2
        <3> QED BY <3>1, <3>2 DEF Hears
    <2>9. PICK u \in Seq(AllIds) : Waiting(c.queue) = <<h.id>> \o u /\ Then(u, Waiting(d.queue))
        BY <2>4
    <2>10. Answered(Waiting(c.queue), Waiting(d.queue))
        BY <2>4, <2>5, <2>7, <2>9 DEF Answered
    <2>11. \A p \in heard' : p \in heard \/ \E i \in 1 .. Len(c.lines) : p = <<h.id, c.lines[i]>>
        <3>1. DOMAIN c.lines = 1 .. Len(c.lines)
            <4>1. c.lines \in Seq(AllIds)
                BY <1>1, StructFields
            <4> QED BY <4>1, LenProperties
        <3> QED BY <2>1, <3>1
    <2>12. Called(h)
        BY <1>3 DEF Called
    <2> QED BY <2>1, <2>4, <2>8, <2>10, <2>11, <2>12 DEF CalledWith
<1>4. CASE h.id = WAKEUP \/ ~h.callback
    <2>1. PICK g : g = IF h.id = WAKEUP THEN wakeup_cb(Finished(c), ok) ELSE Finished(c)
        OBVIOUS
    <2>2. told' = told /\ heard' = heard
        BY <1>4 DEF Tells, Called
    <2>3. d = Destroyed(g, {h})
        BY <1>4, <2>1 DEF FinishedBy, Called
    <2>4. Finishes(c, d, ok) /\ Waiting(d.queue) = Waiting(c.queue)
        <3>1. InSilence(c, h, ok, g, d)
            BY <1>1, <1>4, <2>1, <2>3 DEF InSilence
        <3> QED BY <3>1, FinishSilent
    <2>5. Hears(told', d)
        BY <1>2, <2>2, <2>4 DEF Hears, Finishes
    <2> QED BY <2>2, <2>4, <2>5 DEF Answered, CalledWith
<1> QED BY <1>3, <1>4

\* A message is taken off the wire.
LEMMA Taken ==
    ASSUME NEW msgs \in Seq(Msgs), msgs # <<>>, NEW parts
    PROVE  /\ Tail(msgs) \in Seq(Msgs) /\ Head(msgs) \in Msgs
           /\ Head(msgs).what \in {"prompt", "line"} =>
                 \A x : LastOut(x, parts, msgs) => LastOut(x, parts, Tail(msgs))
           /\ Head(msgs).what = "line" =>
                 \A x : PartOut(x, parts, msgs) => PartOut(x, parts, Tail(msgs))
<1>1. PICK t : t = Tail(msgs)
    OBVIOUS
<1>2. PICK m : m = Head(msgs)
    OBVIOUS
<1>3. /\ t \in Seq(Msgs) /\ m \in Msgs /\ msgs[1] = m
      /\ Len(msgs) \in Nat \ {0} /\ Len(t) = Len(msgs) - 1
      /\ \A i \in 1 .. Len(msgs) - 1 : t[i] = msgs[i + 1]
    BY <1>1, <1>2, HeadAndTail
<1>4. \A k \in 1 .. Len(msgs) : k = 1 \/ (k - 1 \in 1 .. Len(t) /\ t[k - 1] = msgs[k])
    <2> SUFFICES ASSUME NEW k \in 1 .. Len(msgs), k # 1 PROVE k - 1 \in 1 .. Len(t) /\ t[k - 1] = msgs[k]
        OBVIOUS
    <2>1. PICK j : j = k - 1
        OBVIOUS
    <2>2. j \in 1 .. Len(msgs) - 1 /\ k = j + 1
        BY <1>3, <2>1
    <2> QED BY <1>3, <2>1, <2>2
<1>5. ASSUME m.what \in {"prompt", "line"}, NEW x, LastOut(x, parts, msgs) PROVE LastOut(x, parts, t)
    <2>1. CASE \E k \in 1 .. Len(parts) : parts[k].id = x /\ parts[k].last
        BY <2>1 DEF LastOut
    <2>2. CASE \E k \in 1 .. Len(msgs) : msgs[k].id = x /\ msgs[k].what \in {"ok", "error"}
        <3>1. PICK k \in 1 .. Len(msgs) : msgs[k].id = x /\ msgs[k].what \in {"ok", "error"}
            BY <2>2
        <3>2. k # 1
            BY <1>3, <1>5, <3>1
        <3> QED BY <1>4, <3>1, <3>2 DEF LastOut
    <2> QED BY <1>5, <2>1, <2>2 DEF LastOut
<1>6. ASSUME m.what = "line", NEW x, PartOut(x, parts, msgs) PROVE PartOut(x, parts, t)
    <2>1. CASE \E k \in 1 .. Len(parts) : parts[k].id = x
        BY <2>1 DEF PartOut
    <2>2. CASE \E k \in 1 .. Len(msgs) : msgs[k].id = x /\ msgs[k].what \in {"ok", "error", "prompt"}
        <3>1. PICK k \in 1 .. Len(msgs) : msgs[k].id = x /\ msgs[k].what \in {"ok", "error", "prompt"}
            BY <2>2
        <3>2. k # 1
            BY <1>3, <1>6, <3>1
        <3> QED BY <1>4, <3>1, <3>2 DEF PartOut
    <2> QED BY <1>6, <2>1, <2>2 DEF PartOut
<1> QED BY <1>1, <1>2, <1>3, <1>5, <1>6

LEMMA RestTail ==
    ASSUME NEW msgs \in Seq(Msgs), msgs # <<>>
    PROVE  /\ Head(msgs) \in Spurious => Rest(Tail(msgs)) = Rest(msgs)
           /\ Head(msgs) \notin Spurious => /\ Rest(msgs) # <<>> /\ Head(Rest(msgs)) = Head(msgs)
                                            /\ Tail(Rest(msgs)) = Rest(Tail(msgs))
<1>1. PICK t : t = Tail(msgs)
    OBVIOUS
<1>2. PICK m : m = Head(msgs)
    OBVIOUS
<1>3. t \in Seq(Msgs) /\ m \in Msgs /\ msgs = <<m>> \o t
    BY <1>1, <1>2, HeadAndTail
<1>4. m \in Spurious => Rest(msgs) = Rest(t)
    BY <1>3, WithoutBefore DEF Rest
<1>5. m \notin Spurious => Rest(msgs) = <<m>> \o Rest(t)
    BY <1>3, WithoutBefore DEF Rest
<1>6. Rest(t) \in Seq(Msgs)
    BY <1>3, WithoutKeeps DEF Rest
<1>7. <<m>> \o Rest(t) # <<>> /\ Head(<<m>> \o Rest(t)) = m /\ Tail(<<m>> \o Rest(t)) = Rest(t)
    BY <1>3, <1>6, Before
<1> QED BY <1>1, <1>2, <1>4, <1>5, <1>7

\* While nothing has come at a wrong time, what arrives is for the head of the queue.
LEMMA Arrival ==
    ASSUME Inv, HalfDuplex, NEW c, c = chat, c.open, wire # <<>>, NEW m, m = Head(wire), m \notin Spurious,
           NEW id, id = Head(c.queue).id
    PROVE  /\ line = <<>> /\ c.queue # <<>> /\ Submitted(c) /\ m.id = id
           /\ c.written \in {2, 4} /\ (c.armed => c.written = Length(Head(c.queue)))
           /\ \/ m.what = "prompt" /\ id \in prompted /\ Rest(Tail(wire)) = <<>>
              \/ /\ m.what \in {"ok", "error"} /\ Rest(Tail(wire)) = <<>>
                 /\ id # WAKEUP => answer[id] = m.what
              \/ /\ m.what = "line" /\ id # WAKEUP
                 /\ \E what \in {"ok", "error"} : Rest(Tail(wire)) = <<Msg(what, id)>> /\ answer[id] = what
<1>1. ModemOK(c, line, Rest(wire), answer, prompted) /\ WriterOK(c) /\ wire \in Seq(Msgs)
    BY HalfFields, InvFields DEF ModemType
<1>2. PICK r : r = Rest(wire)
    OBVIOUS
<1>3. r # <<>> /\ Head(r) = m /\ Tail(r) = Rest(Tail(wire))
    BY <1>1, <1>2, RestTail
<1>4. /\ c.written \in {2, 4} /\ (c.armed => c.written = Length(Head(c.queue)))
      /\ PromptedOne(c, line, r, prompted) \/ AnsweredOne(c, line, r, answer)
    BY <1>1, <1>2, <1>3 DEF ModemOK, One, AskedOne
<1>5. c.queue # <<>>
    BY <1>1, <1>4 DEF WriterOK
<1>6. Submitted(c)
    <2>1. c.written > 0 /\ c.written % 2 = 0
        BY <1>4
    <2> QED BY <1>5, <2>1 DEF Submitted
<1>7. \A what, e : Msg(what, e).what = what /\ Msg(what, e).id = e
    BY MsgFields
<1>8. (\A a : Head(<<a>>) = a /\ Tail(<<a>>) = <<>>) /\ \A a, b : Head(<<a, b>>) = a /\ Tail(<<a, b>>) = <<b>>
    OBVIOUS
<1>9. CASE PromptedOne(c, line, r, prompted)
    <2>1. line = <<>> /\ r = <<Msg("prompt", id)>> /\ id \in prompted
        BY <1>9 DEF PromptedOne
    <2>2. m = Msg("prompt", id) /\ Tail(r) = <<>>
        BY <1>3, <1>8, <2>1
    <2> QED BY <1>3, <1>4, <1>5, <1>6, <1>7, <2>1, <2>2
<1>10. CASE AnsweredOne(c, line, r, answer)
    <2>1. PICK what \in {"ok", "error"} :
            \/ r = <<Msg(what, id)>> /\ (id # WAKEUP => answer[id] = what)
            \/ r = <<Msg("line", id), Msg(what, id)>> /\ id # WAKEUP /\ answer[id] = what
        BY <1>10 DEF AnsweredOne
    <2>2. line = <<>>
        BY <1>10 DEF AnsweredOne
    <2>3. CASE r = <<Msg(what, id)>> /\ (id # WAKEUP => answer[id] = what)
        <3>1. m = Msg(what, id) /\ Tail(r) = <<>>
            BY <1>3, <1>8, <2>3
        <3>2. m.what = what /\ m.id = id
            BY <1>7, <3>1
        <3> QED BY <1>3, <1>4, <1>5, <1>6, <2>2, <2>3, <3>1, <3>2
    <2>4. CASE r = <<Msg("line", id), Msg(what, id)>> /\ id # WAKEUP /\ answer[id] = what
        <3>1. m = Msg("line", id) /\ Tail(r) = <<Msg(what, id)>>
            BY <1>3, <1>8, <2>4
        <3>2. m.what = "line" /\ m.id = id
            BY <1>7, <3>1
        <3> QED BY <1>3, <1>4, <1>5, <1>6, <2>2, <2>4, <3>1, <3>2
    <2> QED BY <2>1, <2>3, <2>4
<1> QED BY <1>4, <1>9, <1>10

\* What is under way is for the head of the queue.
Lines == {Msg("line", id) : id \in Ids}

LEMMA IdsAre ==
    ASSUME NEW S, NEW q \in Seq(S), \A e \in S : e.id \in AllIds
    PROVE  IdsOf(q) \in Seq(AllIds) /\ Len(IdsOf(q)) = Len(q) /\ Len(q) \in Nat
<1>1. q \in [1 .. Len(q) -> S] /\ Len(q) \in Nat
    BY LenProperties
<1>2. IdsOf(q) \in [1 .. Len(q) -> AllIds]
    BY <1>1 DEF IdsOf
<1>3. PICK w : w = IdsOf(q)
    OBVIOUS
<1>4. PICK n : n = Len(q)
    OBVIOUS
<1>5. w \in [1 .. n -> AllIds] /\ n \in Nat
    BY <1>1, <1>2, <1>3, <1>4
<1>6. w \in Seq(AllIds) /\ DOMAIN w = 1 .. n
    BY <1>5, IsASeq
<1>7. Len(w) \in Nat /\ DOMAIN w = 1 .. Len(w)
    BY <1>6, LenProperties
<1>8. Len(w) = n
    BY <1>5, <1>6, <1>7
<1> QED BY <1>1, <1>3, <1>4, <1>6, <1>8

LEMMA IdsOfOne == \A e : IdsOf(<<e>>) = <<e.id>>
<1> SUFFICES ASSUME NEW e PROVE IdsOf(<<e>>) = <<e.id>>
    OBVIOUS
<1>1. Len(<<e>>) = 1 /\ <<e>>[1] = e
    OBVIOUS
<1>2. IdsOf(<<e>>) = [i \in 1 .. 1 |-> <<e>>[i].id]
    BY <1>1 DEF IdsOf
<1>3. [i \in 1 .. 1 |-> <<e>>[i].id] = [i \in 1 .. 1 |-> e.id]
    BY <1>1
<1>4. [i \in 1 .. 1 |-> e.id] = <<e.id>>
    OBVIOUS
<1> QED BY <1>2, <1>3, <1>4

LEMMA WithoutOne ==
    ASSUME NEW m, NEW gone, m \notin gone
    PROVE  Without(<<m>>, gone) = <<m>>
<1> DEFINE S == {m}
<1>1. <<>> \in Seq(S) /\ m \in S /\ Append(<<>>, m) = <<m>>
    OBVIOUS
<1>2. Without(Append(<<>>, m), gone) = Append(Without(<<>>, gone), m)
    BY <1>1, WithoutAppend
<1> QED BY <1>1, <1>2, WithoutEmpty

LEMMA WithoutTwo ==
    ASSUME NEW l, NEW m, NEW gone, l \in gone, m \notin gone
    PROVE  Without(<<l, m>>, gone) = <<m>>
<1> DEFINE S == {l, m}
<1>1. <<>> \in Seq(S) /\ l \in S /\ m \in S /\ <<l>> \in Seq(S)
    OBVIOUS
<1>2. Append(<<>>, l) = <<l>> /\ Append(<<>>, m) = <<m>> /\ Append(<<l>>, m) = <<l, m>>
    BY OneMessage, TwoMessages
<1>3. Without(Append(<<>>, l), gone) = Without(<<>>, gone)
    BY <1>1, WithoutAppend
<1>4. Without(Append(<<l>>, m), gone) = Append(Without(<<l>>, gone), m)
    BY <1>1, WithoutAppend
<1> QED BY <1>2, <1>3, <1>4, WithoutEmpty

LEMMA UnderIs ==
    ASSUME Inv
    PROVE  \E a \in Seq(Msgs) :
              /\ Under = IdsOf(line) \o IdsOf(a) /\ a = Without(Rest(wire), Lines)
              /\ \A k \in 1 .. Len(wire) :
                    wire[k].id # WAKEUP /\ wire[k].what # "line" => Len(a) \in Nat \ {0}
<1>1. wire \in Seq(Msgs)
    BY InvFields DEF ModemType
<1>2. PICK gone : gone = Lines \cup Spurious
    OBVIOUS
<1>3. PICK a : a = Without(wire, gone)
    OBVIOUS
<1>4. Under = IdsOf(line) \o IdsOf(a)
    BY <1>2, <1>3 DEF Under, IdsOf, Lines, Spurious
<1>5. a = Without(Rest(wire), Lines)
    <2>1. Without(Without(wire, Spurious), Lines) = Without(wire, Spurious \cup Lines)
        BY <1>1, WithoutTwice
    <2>2. Spurious \cup Lines = gone
        BY <1>2
    <2> QED BY <1>3, <2>1, <2>2 DEF Rest
<1>6. /\ a \in Seq(Msgs) /\ Len(a) \in Nat
      /\ \A j \in 1 .. Len(wire) : wire[j] \notin gone => \E k \in 1 .. Len(a) : a[k] = wire[j]
    BY <1>1, <1>3, WithoutKeeps
<1>7. \A what, e : Msg(what, e).what = what /\ Msg(what, e).id = e
    BY MsgFields
<1>8. \A m : m.id # WAKEUP /\ m.what # "line" => m \notin gone
    BY <1>2, <1>7 DEF Lines, Spurious
<1>9. ASSUME NEW k \in 1 .. Len(wire), wire[k].id # WAKEUP, wire[k].what # "line"
      PROVE  Len(a) \in Nat \ {0}
    <2>1. \E j \in 1 .. Len(a) : a[j] = wire[k]
        BY <1>6, <1>8, <1>9
    <2> QED BY <1>6, <2>1
<1> QED BY <1>4, <1>5, <1>6, <1>9

\* Nothing under way when the modem has nothing.
LEMMA UnderIdle ==
    ASSUME Inv, line = <<>>, Rest(wire) = <<>>
    PROVE  Under = <<>>
<1>1. Under = IdsOf(<<>>) \o IdsOf(Without(<<>>, Lines))
    BY UnderIs
<1>2. <<>> \o <<>> = <<>>
    OBVIOUS
<1> QED BY <1>1, <1>2, IdsOfEmpty, WithoutEmpty

LEMMA UnderOne ==
    ASSUME Inv, NEW c, c = chat, One(c, line, Rest(wire), answer, prompted)
    PROVE  Under = <<Head(c.queue).id>> /\ Under # <<>> /\ c.queue # <<>>
<1>1. PICK id : id = Head(c.queue).id
    OBVIOUS
<1>2. PICK r : r = Rest(wire)
    OBVIOUS
<1>3. Under = IdsOf(line) \o IdsOf(Without(r, Lines))
    BY <1>2, UnderIs
<1>4. \A what, e : Msg(what, e).what = what /\ Msg(what, e).id = e
    BY MsgFields
<1>5. \A what, e : what # "line" => Msg(what, e) \notin Lines
    BY <1>4 DEF Lines
<1>6. IdsOf(<<>>) = <<>> /\ Without(<<>>, Lines) = <<>> /\ \A e : IdsOf(<<e>>) = <<e.id>>
    BY IdsOfEmpty, WithoutEmpty, IdsOfOne
<1>7. \A a : <<a>> \o <<>> = <<a>> /\ <<>> \o <<a>> = <<a>>
    OBVIOUS
<1>8. /\ c.written \in {2, 4}
      /\ AskedOne(c, line, r) \/ PromptedOne(c, line, r, prompted) \/ AnsweredOne(c, line, r, answer)
    BY <1>2 DEF One
<1>9. c.queue # <<>>
    BY <1>8, InvFields DEF WriterOK
<1>10. id \in AllIds /\ (id # WAKEUP => id \in Ids)
    BY <1>1, <1>9, InvFields
<1>11. ASSUME NEW m, m.id = id, line = <<>>, Without(r, Lines) = <<m>> PROVE Under = <<id>>
    BY <1>3, <1>6, <1>7, <1>11
<1>12. CASE AskedOne(c, line, r)
    <2>1. PICK e \in Parts : line = <<e>> /\ e.id = id
        BY <1>1, <1>12 DEF AskedOne
    <2>2. r = <<>>
        BY <1>12 DEF AskedOne
    <2>3. Under = <<id>>
        BY <1>3, <1>6, <1>7, <2>1, <2>2
    <2> QED BY <1>1, <1>9, <2>3
<1>13. CASE PromptedOne(c, line, r, prompted)
    <2>1. line = <<>> /\ r = <<Msg("prompt", id)>>
        BY <1>1, <1>13 DEF PromptedOne
    <2>2. Without(r, Lines) = <<Msg("prompt", id)>>
        BY <1>5, <2>1, WithoutOne
    <2>3. Under = <<id>>
        BY <1>4, <1>11, <2>1, <2>2
    <2> QED BY <1>1, <1>9, <2>3
<1>14. CASE AnsweredOne(c, line, r, answer)
    <2>1. PICK what \in {"ok", "error"} :
            r = <<Msg(what, id)>> \/ (r = <<Msg("line", id), Msg(what, id)>> /\ id # WAKEUP)
        BY <1>1, <1>14 DEF AnsweredOne
    <2>2. line = <<>>
        BY <1>14 DEF AnsweredOne
    <2>3. Msg(what, id) \notin Lines
        BY <1>5
    <2>4. Without(r, Lines) = <<Msg(what, id)>>
        <3>1. CASE r = <<Msg(what, id)>>
            BY <2>3, <3>1, WithoutOne
        <3>2. CASE r = <<Msg("line", id), Msg(what, id)>> /\ id # WAKEUP
            <4>1. Msg("line", id) \in Lines
                BY <1>10, <3>2 DEF Lines
            <4> QED BY <2>3, <3>2, <4>1, WithoutTwo
        <3> QED BY <2>1, <3>1, <3>2
    <2>5. Under = <<id>>
        BY <1>4, <1>11, <2>2, <2>4
    <2> QED BY <1>1, <1>9, <2>5
<1> QED BY <1>8, <1>12, <1>13, <1>14

\* What a client's command waits for is under way.
LEMMA UnderPart ==
    ASSUME Inv, NEW x, x # WAKEUP, PartOut(x, line, wire)
    PROVE  Under # <<>>
<1>1. PICK a \in Seq(Msgs) :
        /\ Under = IdsOf(line) \o IdsOf(a)
        /\ \A k \in 1 .. Len(wire) :
              wire[k].id # WAKEUP /\ wire[k].what # "line" => Len(a) \in Nat \ {0}
    BY UnderIs
<1>2. line \in Seq(Parts)
    BY InvFields DEF ModemType
<1>3. IdsOf(line) \in Seq(AllIds) /\ Len(IdsOf(line)) = Len(line) /\ Len(line) \in Nat
    <2>1. \A e \in Parts : e.id \in AllIds
        BY DEF Parts
    <2> QED BY <1>2, <2>1, IdsAre
<1>4. IdsOf(a) \in Seq(AllIds) /\ Len(IdsOf(a)) = Len(a) /\ Len(a) \in Nat
    <2>1. \A m \in Msgs : m.id \in AllIds
        BY DEF Msgs
    <2> QED BY <2>1, IdsAre
<1>5. Len(Under) = Len(line) + Len(a)
    <2>1. Len(IdsOf(line) \o IdsOf(a)) = Len(IdsOf(line)) + Len(IdsOf(a))
        BY <1>3, <1>4, ConcatProperties
    <2> QED BY <1>1, <1>3, <1>4, <2>1
<1>6. Len(line) # 0 \/ Len(a) # 0
    <2>1. CASE \E k \in 1 .. Len(line) : line[k].id = x
        BY <1>3, <2>1
    <2>2. CASE \E k \in 1 .. Len(wire) : wire[k].id = x /\ wire[k].what \in {"ok", "error", "prompt"}
        BY <1>1, <2>2
    <2> QED BY <2>1, <2>2 DEF PartOut
<1>7. Len(Under) # 0
    BY <1>3, <1>4, <1>5, <1>6
<1> QED BY <1>7, EmptySeq

\* A step that may call somebody back.
LEMMA CalledBack ==
    ASSUME Inv, ChatOK(chat', {}),
           ModemType(line', wire', answer', prompted'),
           chat'.open => Awaited(chat', line', wire'),
           Hears(told', chat'),
           slips' \in 0 .. MaxSlips, slips' = 0 => slips = 0,
           slips' = 0 /\ HalfDuplex =>
               /\ HalfOK(chat', prompted')
               /\ chat'.open => ModemOK(chat', line', Rest(wire'), answer', prompted')
               /\ \A i \in Ids : told'[i] # "none" => told'[i] = answer'[i]
               /\ \A p \in heard' : p[1] = p[2]
    PROVE  Inv'
<1>1. IInv'
    BY DEF IInv
<1>2. slips' = 0 => HalfDuplex'
    <2> SUFFICES ASSUME slips' = 0 PROVE HalfDuplex'
        OBVIOUS
    <2>1. HalfDuplex
        BY DEF Inv
    <2> QED BY <2>1 DEF HalfDuplex
<1> QED BY <1>1, <1>2 DEF Inv

\* What every message read leaves alone.
LEMMA ReadFields ==
    ASSUME Inv, new_bytes, NEW c, c = chat, NEW m, m = Head(wire)
    PROVE  /\ c.open /\ ~c.suspended /\ ChatOK(c, {}) /\ c \in Structs /\ QueueOK(c, {}) /\ WriterOK(c)
           /\ Awaited(c, line, wire) /\ Hears(told, c)
           /\ wire \in Seq(Msgs) /\ wire # <<>> /\ m \in Msgs
           /\ UNCHANGED <<line, answer, prompted>> /\ wire' = Tail(wire)
           /\ ModemType(line', wire', answer', prompted')
           /\ slips' \in 0 .. MaxSlips
           /\ slips' = 0 => slips = 0 /\ ~(m.what = "prompt" /\ SlippedPrompt(m.id))
<1>1. /\ c.open /\ ~c.suspended /\ wire # <<>> /\ wire' = Tail(wire)
      /\ UNCHANGED <<line, answer, prompted>>
      /\ Slips(m.what = "prompt" /\ SlippedPrompt(m.id))
    BY DEF new_bytes
<1>2. /\ ChatOK(c, {}) /\ c \in Structs /\ QueueOK(c, {}) /\ WriterOK(c) /\ Hears(told, c)
      /\ ModemType(line, wire, answer, prompted) /\ (c.open => Awaited(c, line, wire))
    BY InvFields
<1>3. wire \in Seq(Msgs) /\ m \in Msgs /\ Tail(wire) \in Seq(Msgs)
    BY <1>1, <1>2, HeadAndTail DEF ModemType
<1>4. ModemType(line', wire', answer', prompted')
    BY <1>1, <1>2, <1>3 DEF ModemType
<1>5. (m.what = "prompt" /\ SlippedPrompt(m.id)) \in BOOLEAN
    OBVIOUS
<1>6. slips' \in 0 .. MaxSlips /\ (slips' = 0 => slips = 0 /\ ~(m.what = "prompt" /\ SlippedPrompt(m.id)))
    BY <1>1, <1>5, NoSlip
<1> QED BY <1>1, <1>2, <1>3, <1>4, <1>6

\* A message nobody reads.
LEMMA NoiseArrives ==
    ASSUME Inv, new_bytes, Head(wire).what # "prompt", ~Submitted(chat),
           UNCHANGED <<chat, told, heard>>
    PROVE  Step
<1>1. PICK c : c = chat
    OBVIOUS
<1>2. PICK m : m = Head(wire)
    OBVIOUS
<1>3. /\ c.open /\ ~c.suspended /\ ChatOK(c, {}) /\ c \in Structs /\ WriterOK(c)
      /\ wire \in Seq(Msgs) /\ wire # <<>> /\ m \in Msgs
      /\ UNCHANGED <<line, answer, prompted>> /\ wire' = Tail(wire)
      /\ ModemType(line', wire', answer', prompted')
      /\ slips' \in 0 .. MaxSlips /\ (slips' = 0 => slips = 0)
    BY <1>1, <1>2, ReadFields
<1>4. m \notin Spurious
    BY <1>2, MsgFields DEF Spurious
<1>5. ~HalfDuplex
    BY <1>1, <1>2, <1>3, <1>4, Arrival
<1>6. Awaited(c, line, Tail(wire))
    <2>1. CASE c.queue = <<>>
        BY <2>1 DEF Awaited
    <2>2. CASE c.queue # <<>>
        <3>1. ~(c.written > 0 /\ c.written % 2 = 0)
            BY <1>1, <2>2 DEF Submitted
        <3>2. c.written \notin {2, 4}
            BY <3>1
        <3> QED BY <3>2, IdleAwaits
    <2> QED BY <2>1, <2>2
<1>7. Inv'
    BY <1>1, <1>3, <1>5, <1>6, Quiet
<1> QED BY <1>7, SameService DEF Step

\* The writer is started.
LEMMA ArmedFields ==
    ASSUME NEW c, ChatOK(c, {}), NEW d, d = Armed(c)
    PROVE  /\ ChatOK(d, {}) /\ d.open = c.open /\ d.queue = c.queue /\ d.written = c.written
           /\ d.armed = TRUE /\ d.suspended = c.suspended /\ d.lines = c.lines
           /\ \A i \in Ids : Settled(c, i) => Settled(d, i)
<1>1. c \in Structs /\ QueueOK(c, {}) /\ WriterOK(c)
    BY DEF ChatOK
<1>2. /\ d \in Structs
      /\ d.open = c.open /\ d.queue = c.queue /\ d.written = c.written /\ d.armed = TRUE
      /\ d.suspended = c.suspended /\ d.lines = c.lines
      /\ d.timer = c.timer /\ d.strays = c.strays /\ d.next = c.next /\ d.cancelled = c.cancelled
      /\ d.destroyed = c.destroyed
    BY <1>1 DEF Structs, Armed
<1>3. QueueOK(d, {}) /\ \A i \in Ids : Settled(c, i) => Settled(d, i)
    BY <1>1, <1>2 DEF QueueOK, Settled
<1>4. Running(d) = Running(c)
    BY <1>2 DEF Running
<1>5. WriterOK(d)
    BY <1>1, <1>2, <1>4 DEF WriterOK
<1> QED BY <1>2, <1>3, <1>5 DEF ChatOK

\* A prompt for the head of the queue, or one that finds nothing to start too early.
LEMMA PromptStarts ==
    ASSUME Inv, HalfDuplex, new_bytes, slips' = 0, Head(wire).what = "prompt",
           NEW c, c = chat, NEW d, d = Armed(c)
    PROVE  HalfOK(d, prompted) /\ ModemOK(d, line, Rest(Tail(wire)), answer, prompted)
<1>1. PICK m : m = Head(wire)
    OBVIOUS
<1>2. /\ c.open /\ ~c.suspended /\ ChatOK(c, {}) /\ c \in Structs /\ WriterOK(c)
      /\ Awaited(c, line, wire)
      /\ wire \in Seq(Msgs) /\ wire # <<>> /\ ~SlippedPrompt(m.id)
    BY <1>1, ReadFields
<1>3. HalfOK(c, prompted) /\ ModemOK(c, line, Rest(wire), answer, prompted)
    BY <1>2, HalfFields
<1>4. /\ d.open = c.open /\ d.queue = c.queue /\ d.written = c.written
      /\ d.armed = TRUE /\ d.suspended = c.suspended /\ d.lines = c.lines
    BY <1>2, ArmedFields
<1>5. ASSUME c.written = 2 /\ Length(Head(c.queue)) = 4 => Head(c.queue).id \in prompted
      PROVE  HalfOK(d, prompted)
    <2>1. ~d.suspended
        BY <1>2, <1>4
    <2> QED BY <1>3, <1>4, <1>5, <2>1 DEF HalfOK
<1>6. CASE m \notin Spurious
    <2>1. line = <<>> /\ Head(c.queue).id \in prompted /\ Rest(Tail(wire)) = <<>>
        BY <1>1, <1>2, <1>6, Arrival
    <2> QED BY <1>5, <2>1 DEF ModemOK
<1>7. CASE m \in Spurious
    <2>1. m.id = WAKEUP
        BY <1>7, MsgFields DEF Spurious
    <2>2. Rest(Tail(wire)) = Rest(wire)
        BY <1>1, <1>2, <1>7, RestTail
    \* The head does not wait for its prompt while the modem has something of it.
    <2>3. ASSUME c.written = 2, Length(Head(c.queue)) = 4
          PROVE  ~One(c, line, Rest(wire), answer, prompted)
        <3> SUFFICES ASSUME One(c, line, Rest(wire), answer, prompted) PROVE FALSE
            OBVIOUS
        <3>1. Under # <<>> /\ c.queue # <<>>
            BY UnderOne
        <3>2. Head(c.queue).id # WAKEUP
            BY <2>3, <3>1, InvFields
        <3>3. Head(c.queue).kind = "prompt"
            BY <2>3 DEF Length
        <3>4. SlippedPrompt(m.id)
            BY <2>1, <2>3, <3>1, <3>2, <3>3 DEF SlippedPrompt
        <3> QED BY <1>2, <3>4
    <2>4. c.written = 2 /\ Length(Head(c.queue)) = 4 => Head(c.queue).id \in prompted
        <3> SUFFICES ASSUME c.written = 2, Length(Head(c.queue)) = 4
                     PROVE  Head(c.queue).id \in prompted
            OBVIOUS
        <3>1. line = <<>> /\ Rest(wire) = <<>>
            BY <1>3, <2>3 DEF ModemOK
        <3>2. Under = <<>>
            BY <3>1, UnderIdle
        <3>3. c.queue # <<>>
            BY <1>2 DEF WriterOK
        <3>4. Head(c.queue).id # WAKEUP
            BY <3>3, InvFields
        <3>5. ~PartOut(Head(c.queue).id, line, wire)
            BY <3>2, <3>4, UnderPart
        <3>6. c.armed
            BY <1>2, <3>3, <3>4, <3>5 DEF Awaited
        <3> QED BY <1>3, <3>6 DEF HalfOK
    <2>5. ModemOK(d, line, Rest(wire), answer, prompted)
        <3>1. CASE line = <<>> /\ Rest(wire) = <<>>
            BY <3>1 DEF ModemOK
        <3>2. CASE One(c, line, Rest(wire), answer, prompted)
            <4>1. c.queue # <<>>
                BY <3>2, UnderOne
            <4>2. c.written <= Length(Head(c.queue)) /\ Length(Head(c.queue)) \in {2, 4}
                BY <1>2, <4>1 DEF WriterOK, Length
            <4>3. c.written \in {2, 4}
                BY <3>2 DEF One
            <4>4. c.written = Length(Head(c.queue))
                BY <2>3, <3>2, <4>2, <4>3
            <4>5. One(d, line, Rest(wire), answer, prompted)
                BY <1>4, <3>2, <4>4 DEF One, AskedOne, PromptedOne, AnsweredOne
            <4> QED BY <4>5 DEF ModemOK
        <3> QED BY <1>3, <3>1, <3>2 DEF ModemOK
    <2> QED BY <1>5, <2>2, <2>4, <2>5
<1> QED BY <1>6, <1>7

LEMMA PromptArrives ==
    ASSUME Inv, new_bytes, Head(wire).what = "prompt",
           chat' = Armed(chat), UNCHANGED <<told, heard>>
    PROVE  Step
<1>1. PICK c : c = chat
    OBVIOUS
<1>2. PICK d : d = chat'
    OBVIOUS
<1>3. /\ c.open /\ ~c.suspended /\ ChatOK(c, {}) /\ c \in Structs /\ WriterOK(c)
      /\ Awaited(c, line, wire)
      /\ wire \in Seq(Msgs) /\ wire # <<>>
      /\ UNCHANGED <<line, answer, prompted>> /\ wire' = Tail(wire)
      /\ ModemType(line', wire', answer', prompted')
      /\ slips' \in 0 .. MaxSlips /\ (slips' = 0 => slips = 0)
    BY <1>1, ReadFields
<1>4. /\ ChatOK(d, {}) /\ d.open = c.open /\ d.queue = c.queue /\ d.written = c.written
      /\ d.armed = TRUE /\ \A i \in Ids : Settled(c, i) => Settled(d, i)
    BY <1>1, <1>2, <1>3, ArmedFields
<1>5. Awaited(d, line, Tail(wire))
    <2>1. \A x : LastOut(x, line, wire) => LastOut(x, line, Tail(wire))
        BY <1>3, Taken
    <2> QED BY <1>3, <1>4, <2>1 DEF Awaited
<1>6. ASSUME slips' = 0, HalfDuplex
      PROVE  HalfOK(d, prompted) /\ ModemOK(d, line, Rest(Tail(wire)), answer, prompted)
    BY <1>1, <1>2, <1>6, PromptStarts
<1>7. Inv'
    BY <1>1, <1>2, <1>3, <1>4, <1>5, <1>6, Quiet
<1>8. Waiting(chat'.queue) = Waiting(chat.queue)
    BY <1>1, <1>2, <1>4
<1> QED BY <1>7, <1>8, SameService DEF Step

\* A line is kept, or the listing callback is called.
LEMMA LineTaken ==
    ASSUME Inv, NEW c, c = chat, ChatOK(c, {}), NEW d, d = chat', NEW m \in Msgs, Submitted(c), TakeLine(m)
    PROVE  /\ ChatOK(d, {}) /\ d.open = c.open /\ d.queue = c.queue /\ d.written = c.written
           /\ d.armed = c.armed /\ told' = told
           /\ \A i \in Ids : Settled(c, i) => Settled(d, i)
           /\ \A p \in heard' : p \in heard \/ p = <<Head(c.queue).id, m.id>>
           /\ \A ids : HalfOK(c, ids) /\ m.id = Head(c.queue).id => HalfOK(d, ids)
<1>1. c \in Structs /\ QueueOK(c, {}) /\ WriterOK(c)
    BY DEF ChatOK
<1>2. /\ told' = told
      /\ \A p \in heard' : p \in heard \/ p = <<Head(c.queue).id, m.id>>
      /\ d = c \/ d = [c EXCEPT !.lines = Append(@, m.id)]
    BY DEF TakeLine
<1>3. c.written > 0
    BY DEF Submitted
<1>4. CASE d = c
    BY <1>1, <1>2, <1>4 DEF ChatOK
<1>5. CASE d = [c EXCEPT !.lines = Append(@, m.id)]
    <2>1. PICK l : l = Append(c.lines, m.id)
        OBVIOUS
    <2>2. m.id \in AllIds /\ c.lines \in Seq(AllIds)
        BY <1>1, StructFields DEF Msgs
    <2>3. /\ l \in Seq(AllIds) /\ Len(l) = Len(c.lines) + 1 /\ Len(c.lines) \in Nat
          /\ l[Len(c.lines) + 1] = m.id /\ \A i \in 1 .. Len(c.lines) : l[i] = c.lines[i]
        BY <2>1, <2>2, AppendProperties, LenProperties
    <2>4. /\ d \in Structs
          /\ d.open = c.open /\ d.queue = c.queue /\ d.written = c.written /\ d.armed = c.armed
          /\ d.suspended = c.suspended /\ d.lines = l
          /\ d.timer = c.timer /\ d.strays = c.strays /\ d.next = c.next /\ d.cancelled = c.cancelled
          /\ d.destroyed = c.destroyed
        BY <1>1, <1>5, <2>1, <2>3 DEF Structs
    <2>5. QueueOK(d, {}) /\ \A i \in Ids : Settled(c, i) => Settled(d, i)
        BY <1>1, <2>4 DEF QueueOK, Settled
    <2>6. Running(d) = Running(c)
        BY <2>4 DEF Running
    <2>7. WriterOK(d)
        BY <1>1, <2>4, <2>6 DEF WriterOK
    <2>8. ASSUME NEW ids, HalfOK(c, ids), m.id = Head(c.queue).id PROVE HalfOK(d, ids)
        <3>1. \A i \in 1 .. Len(l) : l[i] = Head(c.queue).id
            <4> SUFFICES ASSUME NEW i \in 1 .. Len(l) PROVE l[i] = Head(c.queue).id
                OBVIOUS
            <4>1. i = Len(c.lines) + 1 \/ i \in 1 .. Len(c.lines)
                BY <2>3
            <4> QED BY <2>3, <2>8, <4>1 DEF HalfOK
        <3> QED BY <1>3, <2>4, <2>8, <3>1 DEF HalfOK
    <2> QED BY <1>2, <2>4, <2>5, <2>7, <2>8 DEF ChatOK
<1> QED BY <1>2, <1>4, <1>5

LEMMA LineArrives ==
    ASSUME Inv, new_bytes, Head(wire).what = "line", Submitted(chat), TakeLine(Head(wire))
    PROVE  Step
<1>1. PICK c : c = chat
    OBVIOUS
<1>2. PICK d : d = chat'
    OBVIOUS
<1>3. PICK m : m = Head(wire)
    OBVIOUS
<1>4. /\ c.open /\ ~c.suspended /\ ChatOK(c, {}) /\ Awaited(c, line, wire) /\ Hears(told, c)
      /\ wire \in Seq(Msgs) /\ wire # <<>> /\ m \in Msgs
      /\ UNCHANGED <<line, answer, prompted>> /\ wire' = Tail(wire)
      /\ ModemType(line', wire', answer', prompted')
      /\ slips' \in 0 .. MaxSlips /\ (slips' = 0 => slips = 0)
    BY <1>1, <1>3, ReadFields
<1>5. Submitted(c) /\ TakeLine(m)
    BY <1>1, <1>3
<1>6. /\ ChatOK(d, {}) /\ d.open = c.open /\ d.queue = c.queue /\ d.written = c.written
      /\ d.armed = c.armed /\ told' = told
      /\ \A i \in Ids : Settled(c, i) => Settled(d, i)
      /\ \A p \in heard' : p \in heard \/ p = <<Head(c.queue).id, m.id>>
      /\ \A ids : HalfOK(c, ids) /\ m.id = Head(c.queue).id => HalfOK(d, ids)
    BY <1>1, <1>2, <1>4, <1>5, LineTaken
<1>7. Awaited(d, line, Tail(wire))
    <2>1. /\ \A x : LastOut(x, line, wire) => LastOut(x, line, Tail(wire))
          /\ \A x : PartOut(x, line, wire) => PartOut(x, line, Tail(wire))
        BY <1>3, <1>4, Taken
    <2> QED BY <1>4, <1>6, <2>1 DEF Awaited
<1>8. Hears(told', d)
    BY <1>4, <1>6 DEF Hears
<1>9. ASSUME HalfDuplex
      PROVE  /\ HalfOK(d, prompted) /\ ModemOK(d, line, Rest(Tail(wire)), answer, prompted)
             /\ \A i \in Ids : told'[i] # "none" => told'[i] = answer[i]
             /\ \A p \in heard' : p[1] = p[2]
    <2>1. m \notin Spurious
        BY <1>3, MsgFields DEF Spurious
    <2>2. /\ line = <<>> /\ m.id = Head(c.queue).id
          /\ c.written \in {2, 4} /\ (c.armed => c.written = Length(Head(c.queue)))
          /\ Head(c.queue).id # WAKEUP
          /\ \E what \in {"ok", "error"} : /\ Rest(Tail(wire)) = <<Msg(what, Head(c.queue).id)>>
                                           /\ answer[Head(c.queue).id] = what
        BY <1>1, <1>3, <1>4, <1>9, <2>1, Arrival
    <2>3. AnsweredOne(d, line, Rest(Tail(wire)), answer)
        BY <1>6, <2>2 DEF AnsweredOne
    <2>4. ModemOK(d, line, Rest(Tail(wire)), answer, prompted)
        BY <1>6, <2>2, <2>3 DEF ModemOK, One
    <2>5. HalfOK(d, prompted)
        <3>1. HalfOK(c, prompted)
            BY <1>1, <1>9, HalfFields
        <3> QED BY <1>6, <2>2, <3>1
    <2>6. \A i \in Ids : told'[i] # "none" => told'[i] = answer[i]
        BY <1>6, <1>9 DEF HalfDuplex
    <2>7. \A p \in heard' : p[1] = p[2]
        BY <1>6, <1>9, <2>2 DEF HalfDuplex
    <2> QED BY <2>4, <2>5, <2>6, <2>7
<1>10. Inv'
    BY <1>2, <1>4, <1>6, <1>7, <1>8, <1>9, CalledBack
<1>11. Waiting(chat'.queue) = Waiting(chat.queue)
    BY <1>1, <1>2, <1>6
<1> QED BY <1>6, <1>10, <1>11, SameService DEF Step

LEMMA ResponseArrives ==
    ASSUME Inv, new_bytes, NEW what \in {"ok", "error"}, Head(wire).what = what, Submitted(chat),
           NEW ok \in BOOLEAN, ok = (what = "ok"), finish_command(ok)
    PROVE  Step
<1>1. PICK c : c = chat
    OBVIOUS
<1>2. PICK d : d = chat'
    OBVIOUS
<1>3. PICK m : m = Head(wire)
    OBVIOUS
<1>4. PICK h : h = Head(c.queue)
    OBVIOUS
<1>5. /\ c.open /\ ~c.suspended /\ ChatOK(c, {}) /\ Hears(told, c)
      /\ wire \in Seq(Msgs) /\ wire # <<>> /\ m \in Msgs
      /\ UNCHANGED <<line, answer, prompted>> /\ wire' = Tail(wire)
      /\ ModemType(line', wire', answer', prompted')
      /\ slips' \in 0 .. MaxSlips /\ (slips' = 0 => slips = 0)
    BY <1>1, <1>3, ReadFields
<1>6. c.queue # <<>> /\ d \in FinishedBy(ok) /\ Tells(ok)
    BY <1>1, <1>2 DEF Submitted, finish_command
<1>7. /\ Finishes(c, d, ok) /\ Hears(told', d)
      /\ Answered(Waiting(c.queue), Waiting(d.queue))
      /\ \/ told' = told /\ heard' = heard
         \/ /\ h.id \in Ids /\ h.id # WAKEUP
            /\ told' = [told EXCEPT ![h.id] = IF ok THEN "ok" ELSE "error"]
            /\ \A p \in heard' : p \in heard \/ \E i \in 1 .. Len(c.lines) : p = <<h.id, c.lines[i]>>
    <2>1. Finishing(c, h, d, ok)
        BY <1>1, <1>4, <1>5, <1>6 DEF Finishing
    <2>2. CalledWith(c, h, d, ok)
        BY <2>1, FinishOK
    <2> QED BY <2>2 DEF CalledWith, Called
<1>8. ChatOK(d, {}) /\ (d.open => d.written = 0) /\ \A ids : HalfOK(d, ids)
    BY <1>5, <1>7 DEF Finishes
<1>9. d.open => Awaited(d, line, Tail(wire))
    <2>1. d.open => d.written \notin {2, 4}
        BY <1>8
    <2> QED BY <2>1, IdleAwaits
<1>10. ASSUME HalfDuplex
       PROVE  /\ ModemOK(d, line, Rest(Tail(wire)), answer, prompted)
              /\ \A i \in Ids : told'[i] # "none" => told'[i] = answer[i]
              /\ \A p \in heard' : p[1] = p[2]
    <2>1. m \notin Spurious
        BY <1>3, MsgFields DEF Spurious
    <2>2. line = <<>> /\ Rest(Tail(wire)) = <<>> /\ (h.id # WAKEUP => answer[h.id] = what)
        BY <1>1, <1>3, <1>4, <1>5, <1>10, <2>1, Arrival
    <2>3. /\ \A i \in Ids : told[i] # "none" => told[i] = answer[i]
          /\ \A p \in heard : p[1] = p[2]
          /\ \A i \in 1 .. Len(c.lines) : c.lines[i] = h.id
        BY <1>1, <1>4, <1>10 DEF HalfDuplex, HalfOK
    <2>4. CASE told' = told /\ heard' = heard
        BY <2>2, <2>3, <2>4 DEF ModemOK
    <2>5. CASE /\ h.id \in Ids /\ h.id # WAKEUP
               /\ told' = [told EXCEPT ![h.id] = IF ok THEN "ok" ELSE "error"]
               /\ \A p \in heard' : p \in heard \/ \E i \in 1 .. Len(c.lines) : p = <<h.id, c.lines[i]>>
        <3>1. told' = [told EXCEPT ![h.id] = what]
            BY <2>5
        <3>2. \A i \in Ids : told'[i] # "none" => told'[i] = answer[i]
            BY <1>5, <2>2, <2>3, <2>5, <3>1 DEF Hears, Results
        <3>3. \A p \in heard' : p[1] = p[2]
            BY <2>3, <2>5
        <3> QED BY <2>2, <3>2, <3>3 DEF ModemOK
    <2> QED BY <1>7, <2>4, <2>5
<1>11. Inv'
    BY <1>2, <1>5, <1>7, <1>8, <1>9, <1>10, CalledBack
<1>12. [Service!Next]_<<Waiting(chat.queue), told>>
    BY <1>1, <1>2, <1>7, AnsweredService
<1> QED BY <1>11, <1>12 DEF Step

LEMMA Reads ==
    ASSUME Inv, new_bytes
    PROVE  Step
<1>1. PICK m : m = Head(wire)
    OBVIOUS
<1>2. \/ m.what = "prompt" /\ chat' = Armed(chat) /\ UNCHANGED <<told, heard>>
      \/ m.what \in {"ok", "error"} /\ Submitted(chat) /\ finish_command(m.what = "ok")
      \/ m.what = "line" /\ Submitted(chat) /\ TakeLine(m)
      \/ m.what # "prompt" /\ ~Submitted(chat) /\ UNCHANGED <<chat, told, heard>>
    BY <1>1 DEF new_bytes
<1>3. CASE m.what = "prompt" /\ chat' = Armed(chat) /\ UNCHANGED <<told, heard>>
    BY <1>1, <1>3, PromptArrives
<1>4. CASE m.what \in {"ok", "error"} /\ Submitted(chat) /\ finish_command(m.what = "ok")
    <2>1. PICK ok \in BOOLEAN : ok = (m.what = "ok")
        OBVIOUS
    <2>2. finish_command(ok)
        BY <1>4, <2>1
    <2> QED BY <1>1, <1>4, <2>1, <2>2, ResponseArrives
<1>5. CASE m.what = "line" /\ Submitted(chat) /\ TakeLine(m)
    BY <1>1, <1>5, LineArrives
<1>6. CASE m.what # "prompt" /\ ~Submitted(chat) /\ UNCHANGED <<chat, told, heard>>
    BY <1>1, <1>6, NoiseArrives
<1> QED BY <1>2, <1>3, <1>4, <1>5, <1>6

\* The timer goes off with nothing in the queue.
LEMMA TimerEnds ==
    ASSUME NEW c, ChatOK(c, {}), c.queue = <<>>,
           NEW d, \/ d = [c EXCEPT !.timer = FALSE]
                  \/ c.strays > 0 /\ d = [c EXCEPT !.strays = @ - 1]
    PROVE  /\ ChatOK(d, {}) /\ d.open = c.open /\ d.queue = c.queue /\ d.written = c.written
           /\ d.armed = c.armed
           /\ \A i \in Ids : Settled(c, i) => Settled(d, i)
           /\ \A ids : HalfOK(c, ids) => HalfOK(d, ids)
<1>1. c \in Structs /\ QueueOK(c, {}) /\ WriterOK(c)
    BY DEF ChatOK
<1>2. c.strays \in Nat /\ (c.strays > 0 => c.strays - 1 \in Nat)
    BY <1>1, StructFields
<1>3. /\ d \in Structs
      /\ d.open = c.open /\ d.queue = c.queue /\ d.written = c.written /\ d.armed = c.armed
      /\ d.suspended = c.suspended /\ d.lines = c.lines
      /\ d.next = c.next /\ d.cancelled = c.cancelled /\ d.destroyed = c.destroyed
    <2>1. CASE d = [c EXCEPT !.timer = FALSE]
        BY <1>1, <2>1 DEF Structs
    <2>2. CASE c.strays > 0 /\ d = [c EXCEPT !.strays = @ - 1]
        <3>1. PICK s : s = c.strays - 1
            OBVIOUS
        <3>2. s \in Nat /\ d = [c EXCEPT !.strays = s]
            BY <1>2, <2>2, <3>1
        <3> QED BY <1>1, <3>2 DEF Structs
    <2> QED BY <2>1, <2>2
<1>4. QueueOK(d, {}) /\ \A i \in Ids : Settled(c, i) => Settled(d, i)
    BY <1>1, <1>3 DEF QueueOK, Settled
<1>5. d.written = 0 /\ d.queue = <<>>
    BY <1>1, <1>3 DEF WriterOK
<1>6. WithTimers(d.queue, Running(d))
    <2>1. Len(<<>>) = 0
        BY EmptySeq
    <2> QED BY <1>5, <2>1 DEF WithTimers
<1>7. WriterOK(d)
    BY <1>5, <1>6 DEF WriterOK
<1>8. \A ids : HalfOK(c, ids) => HalfOK(d, ids)
    BY <1>3 DEF HalfOK
<1> QED BY <1>3, <1>4, <1>7, <1>8 DEF ChatOK

\* The wakeup is put first once more.
LEMMA AgainOK ==
    ASSUME NEW c, WriterOK(c), Running(c) \in Nat, Running(c) > 0,
           NEW e, Finishes(c, e, FALSE), NEW d, d = Again(e)
    PROVE  /\ ChatOK(d, {}) /\ (d.open => d.written = 0)
           /\ Waiting(d.queue) = Waiting(e.queue)
           /\ \A i \in Ids : Settled(e, i) => Settled(d, i)
           /\ ~e.suspended => \A ids : HalfOK(e, ids) => HalfOK(d, ids)
<1>1. ChatOK(e, {}) /\ e \in Structs /\ QueueOK(e, {}) /\ WriterOK(e) /\ (e.open => e.written = 0)
    BY DEF Finishes, ChatOK
<1>2. CASE ~e.open
    <2>1. d = e
        BY <1>2 DEF Again
    <2> QED BY <1>1, <1>2, <2>1
<1>3. CASE e.open
    <2>1. PICK r : r = <<Wakeup>> \o e.queue
        OBVIOUS
    <2>2. r \in Seq(Cmds)
        <3>1. e.queue \in Seq(Cmds) /\ Wakeup \in Cmds
            BY <1>1, StructFields, WakeupFields
        <3> QED BY <2>1, <3>1, Before
    <2>3. d = [e EXCEPT !.queue = r]
        BY <1>3, <2>1 DEF Again
    <2>4. /\ d \in Structs
          /\ d.open = e.open /\ d.queue = r /\ d.written = e.written /\ d.armed = e.armed
          /\ d.suspended = e.suspended /\ d.lines = e.lines
          /\ d.timer = e.timer /\ d.strays = e.strays /\ d.next = e.next /\ d.cancelled = e.cancelled
          /\ d.destroyed = e.destroyed
        BY <1>1, <2>2, <2>3 DEF Structs
    <2>5. /\ QueueOK(d, {}) /\ d.queue # <<>> /\ Head(d.queue) = Wakeup
          /\ Waiting(d.queue) = Waiting(e.queue)
          /\ \A i \in Ids : Settled(e, i) => Settled(d, i)
          /\ \A n \in Nat : WithTimers(e.queue, n) => WithTimers(d.queue, n + 1)
        <3>1. d.queue = <<Wakeup>> \o e.queue
            BY <2>1, <2>4
        <3> QED BY <1>1, <1>3, <2>4, <3>1, Pushed
    <2>6. Running(d) = Running(c)
        <3>1. Running(d) = Running(e)
            BY <2>4 DEF Running
        <3> QED BY <1>3, <3>1 DEF Finishes
    <2>7. PICK n : n = Running(c) - 1
        OBVIOUS
    <2>8. n \in Nat /\ n + 1 = Running(c)
        BY <2>7
    <2>9. WithTimers(c.queue, n + 1)
        BY <2>8 DEF WriterOK
    <2>10. WithTimers(e.queue, n)
        BY <1>3, <2>8, <2>9 DEF Finishes
    <2>11. WithTimers(d.queue, Running(d))
        BY <2>5, <2>6, <2>8, <2>10
    <2>12. d.written = 0
        BY <1>1, <1>3, <2>4
    <2>13. WriterOK(d)
        <3>1. 0 <= Length(Head(d.queue))
            BY DEF Length
        <3>2. Running(d) > 0
            BY <2>6
        <3> QED BY <2>5, <2>11, <2>12, <3>1, <3>2 DEF WriterOK
    <2>14. ASSUME ~e.suspended, NEW ids, HalfOK(e, ids) PROVE HalfOK(d, ids)
        <3>1. \A i \in 1 .. Len(d.lines) : FALSE
            BY <2>4, <2>12, <2>14 DEF HalfOK
        <3> QED BY <2>4, <2>12, <2>14, <3>1 DEF HalfOK
    <2> QED BY <2>4, <2>5, <2>12, <2>13, <2>14 DEF ChatOK
<1> QED BY <1>2, <1>3

\* At the right time there is only a wakeup to finish.
LEMMA TimelyWakeup ==
    ASSUME Inv, HalfDuplex, NEW c, c = chat, c.open, c.queue # <<>>, ~SlippedTimer,
           NEW h, h = Head(c.queue)
    PROVE  h.id = WAKEUP /\ ~c.suspended /\ line = <<>> /\ Rest(wire) = <<>>
<1>1. h.id = WAKEUP /\ Under = <<>>
    BY DEF SlippedTimer
<1>2. HalfOK(c, prompted) /\ ModemOK(c, line, Rest(wire), answer, prompted)
    BY HalfFields
<1>3. ~One(c, line, Rest(wire), answer, prompted)
    BY <1>1, UnderOne
<1> QED BY <1>1, <1>2, <1>3 DEF HalfOK, ModemOK

\* A wakeup has nobody to call back who might suspend the channel.
LEMMA WakeupFinished ==
    ASSUME NEW c, c = chat, c \in Structs, c.queue # <<>>, Head(c.queue).id = WAKEUP,
           NEW e \in FinishedBy(FALSE)
    PROVE  e.suspended = c.suspended
<1>1. PICK f : f = Finished(c)
    OBVIOUS
<1>2. f \in Structs /\ Pops(c, f)
    BY <1>1, FinishedFields
<1>3. e = Destroyed(f, {Head(c.queue)})
    BY <1>1 DEF FinishedBy, Called, wakeup_cb
<1>4. e.suspended = f.suspended
    BY <1>2, <1>3 DEF Destroyed, Structs
<1> QED BY <1>2, <1>4 DEF Pops

LEMMA Retries ==
    ASSUME Inv, wakeup_no_response
    PROVE  Step
<1>1. PICK c : c = chat
    OBVIOUS
<1>2. PICK d : d = chat'
    OBVIOUS
<1>3. /\ ChatOK(c, {}) /\ c.open /\ c \in Structs /\ WriterOK(c) /\ Running(c) > 0
      /\ ModemType(line, wire, answer, prompted) /\ Awaited(c, line, wire) /\ Hears(told, c)
    BY <1>1, InvFields DEF wakeup_no_response
<1>4. UNCHANGED <<line, wire, answer, prompted>>
    BY DEF wakeup_no_response, modem
<1>5. slips' \in 0 .. MaxSlips /\ (slips' = 0 => slips = 0 /\ ~SlippedTimer)
    <2>1. SlippedTimer \in BOOLEAN /\ Slips(SlippedTimer)
        BY DEF SlippedTimer, wakeup_no_response
    <2>2. PICK slipped \in BOOLEAN : slipped = SlippedTimer
        BY <2>1
    <2>3. Slips(slipped)
        BY <2>1, <2>2
    <2> QED BY <2>2, <2>3, NoSlip
<1>6. ModemType(line', wire', answer', prompted')
    BY <1>3, <1>4
<1>7. CASE c.queue = <<>>
    <2>1. /\ \/ d = [c EXCEPT !.timer = FALSE]
             \/ c.strays > 0 /\ d = [c EXCEPT !.strays = @ - 1]
          /\ UNCHANGED <<told, heard>>
        BY <1>1, <1>2, <1>7 DEF wakeup_no_response
    <2>2. /\ ChatOK(d, {}) /\ d.open = c.open /\ d.queue = c.queue /\ d.written = c.written
          /\ d.armed = c.armed
          /\ \A i \in Ids : Settled(c, i) => Settled(d, i)
          /\ \A ids : HalfOK(c, ids) => HalfOK(d, ids)
        BY <1>3, <1>7, <2>1, TimerEnds
    <2>3. Awaited(d, line, wire)
        BY <1>7, <2>2 DEF Awaited
    <2>4. ASSUME HalfDuplex
          PROVE  HalfOK(d, prompted) /\ ModemOK(d, line, Rest(wire), answer, prompted)
        <3>1. HalfOK(c, prompted) /\ ModemOK(c, line, Rest(wire), answer, prompted)
            BY <1>1, <1>3, <2>4, HalfFields
        <3>2. ModemOK(d, line, Rest(wire), answer, prompted)
            BY <2>2, <3>1 DEF ModemOK, One, AskedOne, PromptedOne, AnsweredOne
        <3> QED BY <2>2, <3>1, <3>2
    <2>5. Inv'
        BY <1>1, <1>2, <1>4, <1>5, <1>6, <2>1, <2>2, <2>3, <2>4, Quiet
    <2>6. Waiting(chat'.queue) = Waiting(chat.queue)
        BY <1>1, <1>2, <2>2
    <2> QED BY <2>1, <2>5, <2>6, SameService DEF Step
<1>8. CASE c.queue # <<>>
    <2>1. PICK h : h = Head(c.queue)
        OBVIOUS
    <2>2. \E e \in FinishedBy(FALSE) : d = Again(e)
        BY <1>1, <1>2, <1>8 DEF wakeup_no_response
    <2>3. PICK e \in FinishedBy(FALSE) : d = Again(e)
        BY <2>2
    <2>4. Tells(FALSE)
        BY <1>1, <1>8 DEF wakeup_no_response
    <2>5. CalledWith(c, h, e, FALSE)
        <3>1. Finishing(c, h, e, FALSE)
            BY <1>1, <1>3, <1>8, <2>1, <2>3, <2>4 DEF Finishing
        <3>2. FALSE \in BOOLEAN
            OBVIOUS
        <3> QED BY <3>1, <3>2, FinishOK
    <2>6. Finishes(c, e, FALSE) /\ Hears(told', e) /\ Answered(Waiting(c.queue), Waiting(e.queue))
        BY <2>5 DEF CalledWith
    <2>7. /\ ChatOK(d, {}) /\ (d.open => d.written = 0)
          /\ Waiting(d.queue) = Waiting(e.queue)
          /\ \A i \in Ids : Settled(e, i) => Settled(d, i)
          /\ ~e.suspended => \A ids : HalfOK(e, ids) => HalfOK(d, ids)
        <3>1. Running(c) \in Nat
            BY <1>3, StructFields
        <3> QED BY <1>3, <2>3, <2>6, <3>1, AgainOK
    <2>8. d.open => Awaited(d, line, wire)
        <3>1. d.open => d.written \notin {2, 4}
            BY <2>7
        <3> QED BY <3>1, IdleAwaits
    <2>9. Hears(told', d)
        BY <2>6, <2>7 DEF Hears
    <2>10. ASSUME slips' = 0, HalfDuplex
           PROVE  /\ HalfOK(d, prompted) /\ ModemOK(d, line, Rest(wire), answer, prompted)
                  /\ \A i \in Ids : told'[i] # "none" => told'[i] = answer[i]
                  /\ \A p \in heard' : p[1] = p[2]
        <3>1. h.id = WAKEUP /\ ~c.suspended /\ line = <<>> /\ Rest(wire) = <<>>
            BY <1>1, <1>3, <1>5, <1>8, <2>1, <2>10, TimelyWakeup
        <3>2. told' = told /\ heard' = heard
            BY <2>5, <3>1 DEF CalledWith, Called
        <3>3. ~e.suspended
            BY <1>1, <1>3, <1>8, <2>1, <2>3, <3>1, WakeupFinished
        <3>4. HalfOK(e, prompted)
            BY <2>6, <3>1 DEF Finishes
        <3>5. HalfOK(d, prompted)
            BY <2>7, <3>3, <3>4
        <3>6. \A i \in Ids : told'[i] # "none" => told'[i] = answer[i]
            BY <2>10, <3>2 DEF HalfDuplex
        <3>7. \A p \in heard' : p[1] = p[2]
            BY <2>10, <3>2 DEF HalfDuplex
        <3> QED BY <3>1, <3>5, <3>6, <3>7 DEF ModemOK
    <2>11. Inv'
        BY <1>2, <1>4, <1>5, <1>6, <2>7, <2>8, <2>9, <2>10, CalledBack
    <2>12. [Service!Next]_<<Waiting(chat.queue), told>>
        BY <1>1, <1>2, <2>6, <2>7, AnsweredService
    <2> QED BY <2>11, <2>12 DEF Step
<1> QED BY <1>7, <1>8

LEMMA InitOK == Init => Inv
<1> SUFFICES ASSUME Init PROVE Inv
    OBVIOUS
<1>1. PICK c : c = chat
    OBVIOUS
<1>2. PICK w \in Wakeups :
          c = [open |-> TRUE, queue |-> <<>>, written |-> 0, armed |-> FALSE,
               suspended |-> FALSE, lines |-> <<>>, wakeup |-> w,
               wakeup_timer |-> "unset", timer |-> FALSE, strays |-> 0, next |-> 1,
               cancelled |-> {}, destroyed |-> [i \in Ids |-> 0], suspends |-> 0]
    BY <1>1 DEF Init
<1>3. /\ line = <<>> /\ wire = <<>> /\ answer = [i \in Ids |-> "none"] /\ prompted = {}
      /\ told = [i \in Ids |-> "none"] /\ heard = {} /\ slips = 0
    BY DEF Init
<1>4. /\ c.open = TRUE /\ c.queue = <<>> /\ c.written = 0 /\ c.armed = FALSE
      /\ c.suspended = FALSE /\ c.lines = <<>> /\ c.next = 1
      /\ c.cancelled = {} /\ c.destroyed = [i \in Ids |-> 0]
    BY <1>2
<1>5. c \in Structs
    <2>1. PICK t, f : t = TRUE /\ f = FALSE
        OBVIOUS
    <2>2. PICK e : e = <<>>
        OBVIOUS
    <2>3. PICK m : m = [i \in Ids |-> 0]
        OBVIOUS
    <2>4. t \in BOOLEAN /\ f \in BOOLEAN /\ w \in BOOLEAN /\ m \in [Ids -> Nat] /\ {} \in SUBSET Ids
        BY <2>1, <2>3, AtChatAssumption
    <2>5. e \in Seq(Cmds) /\ e \in Seq(AllIds)
        BY <2>2, EmptySeq, Zenon
    <2>6. 1 \in 1 .. MaxCmds + 1 /\ 0 \in Nat
        BY AtChatAssumption
    <2>7. c = [open |-> t, queue |-> e, written |-> 0, armed |-> f,
               suspended |-> f, lines |-> e, wakeup |-> w,
               wakeup_timer |-> "unset", timer |-> f, strays |-> 0, next |-> 1,
               cancelled |-> {}, destroyed |-> m, suspends |-> 0]
        BY <1>2, <2>1, <2>2, <2>3
    <2> QED BY <2>4, <2>5, <2>6, <2>7 DEF Structs
<1>6. Len(<<>>) = 0
    BY EmptySeq
<1>7. \A i : ~Has(<<>>, i)
    BY <1>6 DEF Has
<1>8. InOrder(<<>>, 1) /\ Callable(<<>>, {}, 1)
    BY <1>6 DEF InOrder, Increasing, Callable
<1>9. Counted(<<>>, 1, [i \in Ids |-> 0], {})
    BY DEF Counted, Ids
<1>10. QueueOK(c, {})
    BY <1>4, <1>8, <1>9 DEF QueueOK
<1>11. WriterOK(c)
    <2>1. WithTimers(<<>>, Running(c))
        BY <1>6 DEF WithTimers
    <2> QED BY <1>4, <2>1 DEF WriterOK
<1>12. ModemType(line, wire, answer, prompted) /\ Hears(told, c)
    <2>1. line \in Seq(Parts) /\ wire \in Seq(Msgs)
        BY <1>3, EmptySeq
    <2>2. answer \in Results /\ told \in Results
        BY <1>3 DEF Results
    <2>3. \A i \in Ids : told[i] = "none"
        BY <1>3
    <2> QED BY <1>3, <2>1, <2>2, <2>3 DEF ModemType, Hears
<1>13. Awaited(c, line, wire)
    BY <1>4 DEF Awaited
<1>14. slips \in 0 .. MaxSlips
    BY <1>3, AtChatAssumption
<1>15. IInv
    BY <1>1, <1>5, <1>10, <1>11, <1>12, <1>13, <1>14 DEF IInv, ChatOK
<1>16. HalfOK(c, prompted)
    BY <1>4, <1>6 DEF HalfOK
<1>17. ModemOK(c, line, Rest(wire), answer, prompted)
    BY <1>3, RestEmpty DEF ModemOK
<1>18. HalfDuplex
    BY <1>1, <1>3, <1>16, <1>17 DEF HalfDuplex
<1> QED BY <1>15, <1>18 DEF Inv

LEMMA NextOK ==
    Inv /\ [Next]_vars => Inv' /\ [Service!Next]_<<Waiting(chat.queue), told>>
<1> SUFFICES ASSUME Inv, [Next]_vars
             PROVE  Step
    BY DEF Step
<1>1. CASE can_write_data
    BY <1>1, Writes
<1>2. CASE new_bytes
    BY <1>2, Reads
<1>3. CASE wakeup_no_response
    BY <1>3, Retries
<1>4. CASE ClientCalls
    BY <1>4, ClientStep
<1>5. CASE Resume
    BY <1>5, Resumes
<1>6. CASE ModemAnswers
    BY <1>6, Answers
<1>7. CASE ModemPrompts
    BY <1>7, Prompts
<1>8. CASE TimePasses
    BY <1>8, Passes
<1>9. CASE UNCHANGED vars
    <2>1. UNCHANGED <<chat, line, wire, answer, prompted, told, heard, slips>>
        BY <1>9 DEF vars, modem
    <2>2. IInv'
        BY <2>1 DEF Inv, IInv
    <2>3. slips' = 0 => HalfDuplex'
        BY <2>1 DEF Inv, HalfDuplex
    <2> QED BY <2>1, <2>2, <2>3, SameService DEF Inv, Step
<1> QED BY <1>1, <1>2, <1>3, <1>4, <1>5, <1>6, <1>7, <1>8, <1>9 DEF Next

-----------------------------------------------------------------------------
(* What the invariant says of the properties the runs check.               *)

LEMMA TypeIs == Inv => TypeOK
<1> SUFFICES ASSUME Inv PROVE TypeOK
    OBVIOUS
<1>1. PICK q : q = chat.queue
    OBVIOUS
<1>2. chat \in Structs /\ q \in Seq(Cmds) /\ Increasing(q)
    BY <1>1, InvFields
<1>3. chat.written \in 0 .. 4 /\ chat.next \in 1 .. MaxCmds + 1 /\ chat.strays \in Nat
    BY <1>2, StructFields
<1>4. Len(q) \in Nat /\ DOMAIN q = 1 .. Len(q) /\ \A k \in 1 .. Len(q) : q[k].id \in 0 .. MaxCmds
    BY <1>2, QueueFacts DEF AllIds
<1>5. ASSUME NEW k \in 1 .. Len(q), q[k].id = WAKEUP, NEW j \in 1 .. k PROVE q[j].id = WAKEUP
    <2>1. CASE j = k
        BY <1>5, <2>1
    <2>2. CASE j # k
        <3>1. j \in 1 .. Len(q) /\ j < k
            BY <1>4, <1>5, <2>2
        <3>2. q[j].id < q[k].id \/ q[j].id = WAKEUP
            BY <1>2, <3>1 DEF Increasing
        <3>3. q[j].id \in 0 .. MaxCmds
            BY <1>4, <3>1
        <3> QED BY <1>5, <3>2, <3>3, AtChatAssumption DEF WAKEUP
    <2> QED BY <2>1, <2>2
<1>6. \A i \in Ids : told[i] \in {"none", "ok", "error"}
    <2>1. told \in Results
        BY InvFields DEF Hears
    <2> QED BY <2>1 DEF Results
<1>7. slips \in 0 .. MaxSlips
    BY InvFields
<1> QED BY <1>1, <1>3, <1>4, <1>5, <1>6, <1>7 DEF TypeOK

LEMMA ChannelIs == Inv => ChannelInvariant
<1> SUFFICES ASSUME Inv PROVE ChannelInvariant
    OBVIOUS
<1>1. PICK c : c = chat
    OBVIOUS
<1>2. /\ c \in Structs /\ WriterOK(c) /\ c.queue \in Seq(Cmds)
      /\ c.open => Awaited(c, line, wire)
    BY <1>1, InvFields
<1>3. c.written \in 0 .. 4 /\ Running(c) \in Nat
    BY <1>2, StructFields
<1>4. NoLostWakeup
    <2> SUFFICES ASSUME c.open, ~c.suspended, c.queue # <<>>, ~c.armed, ~(Running(c) > 0)
                 PROVE  Under # <<>>
        BY <1>1 DEF NoLostWakeup
    <2>1. c.written \in {2, 4}
        <3>1. c.written # 0 /\ c.written \notin {1, 3}
            BY <1>2 DEF WriterOK
        <3> QED BY <1>3, <3>1
    <2>2. Head(c.queue).id # WAKEUP
        <3>1. Running(c) = 0
            BY <1>3
        <3>2. Len(c.queue) \in Nat \ {0} /\ Head(c.queue) = c.queue[1]
            BY <1>2, HeadAndTail
        <3>3. 1 \in 1 .. Len(c.queue) /\ ~(1 <= 0)
            BY <3>2
        <3>4. c.queue[1].id # WAKEUP
            BY <1>2, <3>1, <3>3 DEF WriterOK, WithTimers
        <3> QED BY <3>2, <3>4
    <2>3. c.written = Length(Head(c.queue)) \/ c.written = 2
        <3>1. c.written <= Length(Head(c.queue)) /\ Length(Head(c.queue)) \in {2, 4}
            BY <1>2 DEF WriterOK, Length
        <3> QED BY <2>1, <3>1
    <2>4. PartOut(Head(c.queue).id, line, wire)
        BY <1>2, <2>2, <2>3, LastIsPart DEF Awaited
    <2> QED BY <2>2, <2>4, UnderPart
<1>5. WakeupsAreTimed
    <2>1. DOMAIN c.queue = 1 .. Len(c.queue)
        BY <1>2, LenProperties
    <2> QED BY <1>1, <1>2, <2>1 DEF WakeupsAreTimed, WriterOK, WithTimers
<1>6. ASSUME slips = 0 PROVE OneCommandOut /\ PromptFirst
    <2>1. HalfOK(c, prompted) /\ (c.open => ModemOK(c, line, Rest(wire), answer, prompted))
        BY <1>1, <1>6, HalfFields DEF Inv
    <2>2. OneCommandOut
        <3> SUFFICES ASSUME c.open
                     PROVE  /\ Len(Under) <= 1
                            /\ Under # <<>> => /\ c.queue # <<>> /\ Under[1] = Head(c.queue).id
                                               /\ c.written \in {2, 4}
            BY <1>1 DEF OneCommandOut
        <3>1. CASE line = <<>> /\ Rest(wire) = <<>>
            <4>1. Under = <<>>
                BY <3>1, UnderIdle
            <4>2. Len(Under) = 0
                BY <4>1, EmptySeq
            <4> QED BY <4>1, <4>2
        <3>2. CASE One(c, line, Rest(wire), answer, prompted)
            <4>1. Under = <<Head(c.queue).id>> /\ c.queue # <<>>
                BY <1>1, <3>2, UnderOne
            <4>2. \A a : Len(<<a>>) = 1 /\ <<a>>[1] = a
                OBVIOUS
            <4>3. Len(Under) = 1 /\ Under[1] = Head(c.queue).id
                BY <4>1, <4>2
            <4>4. c.written \in {2, 4}
                BY <3>2 DEF One
            <4> QED BY <4>1, <4>3, <4>4
        <3> QED BY <2>1, <3>1, <3>2 DEF ModemOK
    <2>3. PromptFirst
        BY <1>1, <2>1 DEF HalfOK, PromptFirst
    <2> QED BY <2>2, <2>3
<1> QED BY <1>4, <1>5, <1>6, TypeIs DEF ChannelInvariant

LEMMA HearsIs == Inv => EachHearsItsOwn
<1> SUFFICES ASSUME Inv PROVE EachHearsItsOwn
    OBVIOUS
<1>1. chat \in Structs /\ QueueOK(chat, {}) /\ Hears(told, chat)
    BY InvFields
<1>2. ASSUME slips = 0 PROVE OwnAnswer
    <2>1. HalfDuplex
        BY <1>2 DEF Inv
    <2>2. \A i \in Ids : told[i] # "none" => told[i] = answer[i]
        BY <2>1 DEF HalfDuplex
    <2> QED BY <2>1, <2>2 DEF HalfDuplex, OwnAnswer
<1>3. CancelledIsSilent
    <2>1. chat.cancelled \in SUBSET Ids
        BY <1>1, StructFields
    <2> QED BY <1>1, <2>1 DEF Hears, Settled, CancelledIsSilent
<1>4. DestroyedOnce
    <2> SUFFICES ASSUME NEW i \in Ids, i < chat.next
                 PROVE  chat.destroyed[i] + (IF \E cmd \in Queued(chat) : cmd.id = i THEN 1 ELSE 0) = 1
        BY DEF DestroyedOnce
    <2>1. chat.queue \in Seq(Cmds)
        BY <1>1, StructFields
    <2>2. DOMAIN chat.queue = 1 .. Len(chat.queue)
        BY <2>1, LenProperties
    <2>3. (\E cmd \in Queued(chat) : cmd.id = i) <=> Has(chat.queue, i)
        BY <2>2 DEF Queued, Has
    <2>4. chat.destroyed[i] = IF Has(chat.queue, i) THEN 0 ELSE 1
        BY <1>1 DEF QueueOK, Counted
    <2> QED BY <2>3, <2>4
<1> QED BY <1>2, <1>3, <1>4 DEF EachHearsItsOwn

\* The inductive invariant holds in every state of the channel, with
\* wakeup_no_response free to go off whenever its source runs and the modem free
\* to refuse wakeups and to prompt unasked.
THEOREM Invariant == Spec => []Inv
<1>1. Inv /\ [Next]_vars => Inv'
    BY NextOK
<1> QED BY <1>1, InitOK, PTL DEF Spec

\* Whenever timers go off and prompts come, the channel is not asleep with work
\* to do and each wakeup has a timer running (wakeup_no_response, wakeup_cb); as
\* long as none came at a wrong time, one part of one command is out at most, it
\* is the head's, and no second part goes out before its prompt (can_write_data,
\* new_bytes).
THEOREM ChannelHolds == Spec => []ChannelInvariant
BY ChannelIs, Invariant, PTL

\* Whenever timers go off and prompts come, a client that cancelled is not called
\* back and its destroy function is called exactly once; as long as none came at a
\* wrong time, it hears its own command's result and lines (finish_command,
\* wakeup_no_response, at_chat_cancel, at_chat_cancel_group, chat_cleanup).
THEOREM EachHears == Spec => []EachHearsItsOwn
BY HearsIs, Invariant, PTL

\* The channel is the FIFO service: commands are called back in the order they were
\* sent, each once, and none after it was cancelled or the channel closed, whenever
\* timers go off.
THEOREM ServiceImplemented == Spec => ImplementsService
<1>1. Init => Service!Init
    <2> SUFFICES ASSUME Init PROVE Service!Init
        OBVIOUS
    <2>1. chat.queue = <<>> /\ told = [i \in Ids |-> "none"]
        BY DEF Init
    <2> QED BY <2>1, WaitingEmpty DEF Service!Init
<1>2. Inv /\ [Next]_vars => [Service!Next]_<<Waiting(chat.queue), told>>
    BY NextOK
<1> QED BY <1>1, <1>2, Invariant, PTL DEF Spec, ImplementsService, Service!Spec
=============================================================================
