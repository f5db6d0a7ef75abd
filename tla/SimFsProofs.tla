----------------------------- MODULE SimFsProofs -----------------------------
(***************************************************************************)
(* Theorems about the SIM file system (SimFs) for any number of clients,   *)
(* requests, changes and restarts and any sizes of blocks and files: the   *)
(* queue is always being served, the cache says what the card holds, and   *)
(* the clients see SimFiles.                                               *)
(***************************************************************************)
EXTENDS SimFs, TLAPS, WellFoundedInduction, SequenceTheorems, FiniteSetTheorems

-----------------------------------------------------------------------------
(* The inductive invariant.                                                *)

Ops == [id : Nat, client : Clients, req : Requests, cb : BOOLEAN, current : Nat,
        buffer : Buffers, since : Numbers]

Untouched(o) == o.current = 0 /\ o.buffer = <<>>

\* The queue q after n requests: in their order, and only the first is begun.
QueueOK(q, n, known) ==
    /\ q \in Seq(Ops)
    /\ \A i \in 1 .. Len(q) : q[i].id \in 1 .. n /\ q[i].since <= known[FileOf(q[i].req)]
    /\ \A i, j \in 1 .. Len(q) : i < j => q[i].id < q[j].id
    /\ \A i \in 2 .. Len(q) : Untouched(q[i])

InBlocks == {"whole", "bytes", "read"}

\* The bytes of the buffer that were read: no older than what was announced
\* when the request was made.
BufferOK(buffer) ==
    /\ buffer \in [0 .. NumBytes - 1 -> Bytes]
    /\ \A i \in 0 .. NumBytes - 1 :
          buffer[i].at >= 0 => buffer[i].version \in op.since .. card[file]

\* What the next step and the driver's call have to do with the first operation.
StepFits ==
    op_q # <<>> =>
        /\ op.current \in 0 .. LastBlock
        /\ op_source = "next" \/ call.what \in {"info", "write"} => op.current = 0
        /\ op_source = "record" \/ call.what = "record" => op.req = "records"
        /\ op_source = "block" \/ call.what = "block" => op.req \in InBlocks
        /\ call.what = "write" => op.req = "write"
        /\ call.what = "info" => op.req # "write"
        /\ call.what = "block" \/ (op_source = "block" /\ op.current > 0) => BufferOK(op.buffer)

StepOK ==
    /\ op_source \in {"none", "next", "block", "record"}
    /\ call \in [what : {"none", "info", "block", "record", "write"},
                 served : {"no", "ok", "error"}, version : Numbers]
    /\ op_q # <<>> <=> (op_source # "none" \/ call.what # "none")
    /\ op_source = "none" \/ call.what = "none"
    /\ call.what = "none" => call = NoCall
    /\ StepFits

\* A file on disk, and one that was removed while it is open.
FileOK(c, from, to) ==
    \/ c = NoFile
    \/ /\ IsFile(c)
       /\ c = [there |-> TRUE, header |-> c.header, bits |-> c.bits, data |-> c.data]
       /\ c.header \in from .. to
       /\ \A b \in DOMAIN c.data : c.data[b] \in from .. to

CacheOK ==
    /\ cache = [f \in Cached |-> cache[f]]
    /\ \A f \in Cached : FileOK(cache[f], announced[f], card[f])

OpenOK ==
    /\ \/ fd = Closed
       \/ /\ fd = Linked
          /\ op_q # <<>> /\ file \in Cached /\ cache[file].there
       \/ /\ fd = [state |-> "orphan", file |-> fd.file]
          /\ op_q # <<>> /\ file \in Cached
          /\ IsFile(fd.file)
          /\ \A b \in DOMAIN fd.file.data : fd.file.data[b] \in op.since .. card[file]

\* What the card has answered is what it holds, or it will announce a change.
AnswerOK ==
    call.served = "ok" /\ call.what \in {"info", "block", "record"} =>
        /\ call.version \in announced[file] .. card[file]
        /\ call.version = card[file] \/ file \in notices

CardOK ==
    /\ imsi \in BOOLEAN /\ asked \in 0 .. MaxRequests /\ restarts \in 0 .. MaxRestarts
    /\ changes \in Numbers
    /\ card \in [Files -> Numbers] /\ announced \in [Files -> Numbers]
    /\ \A f \in Files : announced[f] <= card[f] /\ card[f] <= changes
    /\ notices \subseteq Cached /\ missed \subseteq Cached

IInv ==
    /\ CardOK /\ QueueOK(op_q, asked, announced) /\ StepOK
    /\ CacheOK /\ OpenOK /\ AnswerOK
    /\ CacheTruth /\ ReadInPlace

-----------------------------------------------------------------------------
(* What is left of a queue when elements are removed.                      *)

\* f is the recursive function of Without.
Leaves(f, q, gone) ==
    f = [i \in 0 .. Len(q) |->
            IF i = 0 THEN <<>>
            ELSE IF q[i] \in gone THEN f[i - 1]
            ELSE Append(f[i - 1], q[i])]

\* It exists.
LEMMA KeptFunction ==
    ASSUME NEW S, NEW q \in Seq(S), NEW gone
    PROVE  \E f : Leaves(f, q, gone)
<1> DEFINE Rule(g, i) == IF i = 0 THEN <<>>
                         ELSE IF q[i] \in gone THEN g[i - 1] ELSE Append(g[i - 1], q[i])
           Upto(k) == \E f \in [0 .. k -> Seq(S)] : \A i \in 0 .. k : f[i] = Rule(f, i)
           Bad == {k \in Nat : k <= Len(q) /\ ~Upto(k)}
<1>0. Len(q) \in Nat /\ \A i \in 1 .. Len(q) : q[i] \in S
    BY ElementOfSeq, LenProperties
<1>1. Bad = {}
    <2> SUFFICES ASSUME Bad # {} PROVE FALSE
        OBVIOUS
    <2>1. PICK k \in Bad : \A j \in Bad : ~(<<j, k>> \in OpToRel(<, Nat))
        BY NatLessThanWellFounded, WFMin, Bad \subseteq Nat
    <2>2. \A j \in Bad : ~(j < k)
        BY <2>1 DEF OpToRel
    <2>3. k \in Nat /\ k <= Len(q) /\ ~Upto(k)
        BY <2>1
    <2>4. CASE k = 0
        <3> DEFINE z == [i \in 0 .. 0 |-> <<>>]
        <3>1. z \in [0 .. 0 -> Seq(S)]
            BY EmptySeq
        <3>2. \A i \in 0 .. 0 : z[i] = Rule(z, i)
            OBVIOUS
        <3> HIDE DEF z, Next
        <3> QED BY <2>3, <2>4, <3>1, <3>2
    <2>5. CASE k # 0
        <3>1. k - 1 \in Nat /\ k - 1 < k /\ k - 1 <= Len(q)
            BY <2>3, <2>5, <1>0
        <3>2. Upto(k - 1)
            BY <2>2, <3>1
        <3>3. PICK f \in [0 .. k - 1 -> Seq(S)] : \A i \in 0 .. k - 1 : f[i] = Rule(f, i)
            BY <3>2
        <3> DEFINE last == IF q[k] \in gone THEN f[k - 1] ELSE Append(f[k - 1], q[k])
                   g == [i \in 0 .. k |-> IF i = k THEN last ELSE f[i]]
        <3>4. last \in Seq(S)
            BY <1>0, <2>3, <3>1, AppendProperties, q[k] \in S, f[k - 1] \in Seq(S)
        <3> HIDE DEF last
        <3>5. g \in [0 .. k -> Seq(S)]
            BY <3>1, <3>4
        <3>6. g[k] = last /\ \A i \in 0 .. k - 1 : g[i] = f[i]
            BY <3>1
        <3> HIDE DEF g
        <3>7. \A i \in 0 .. k : g[i] = Rule(g, i)
            <4> SUFFICES ASSUME NEW i \in 0 .. k PROVE g[i] = Rule(g, i)
                BY Zenon
            <4>1. CASE i = k
                BY <2>5, <3>1, <3>6, <4>1 DEF last
            <4>2. CASE i # k /\ i # 0
                <5>1. i \in 0 .. k - 1 /\ i - 1 \in 0 .. k - 1
                    BY <3>1, <4>2
                <5> QED BY <3>3, <3>6, <4>2, <5>1
            <4>3. CASE i = 0
                BY <2>5, <3>1, <3>3, <3>6, <4>3
            <4> QED BY <4>1, <4>2, <4>3
        <3> HIDE DEF Next
        <3> QED BY <2>3, <3>5, <3>7
    <2> QED BY <2>4, <2>5
<1>2. Upto(Len(q))
    BY <1>0, <1>1
<1>3. PICK f \in [0 .. Len(q) -> Seq(S)] : \A i \in 0 .. Len(q) : f[i] = Rule(f, i)
    BY <1>2
<1>4. f = [i \in 0 .. Len(q) |-> Rule(f, i)]
    BY <1>3
<1> QED BY <1>4 DEF Leaves

\* pos are the positions in the first k of q that have the elements of w, in
\* their order, and all that are not gone.
Kept(w, q, gone, pos, k) ==
    /\ Len(w) <= k /\ pos \in [1 .. Len(w) -> 1 .. k]
    /\ \A i \in 1 .. Len(w) : w[i] = q[pos[i]] /\ q[pos[i]] \notin gone
    /\ \A i, j \in 1 .. Len(w) : i < j => pos[i] < pos[j]
    /\ \A j \in 1 .. k : q[j] \notin gone => \E i \in 1 .. Len(w) : pos[i] = j

LEMMA KeptGone ==
    ASSUME NEW S, NEW q \in Seq(S), NEW gone, NEW v \in Seq(S), NEW k \in 1 .. Len(q),
           NEW pos, Kept(v, q, gone, pos, k - 1), q[k] \in gone
    PROVE  Kept(v, q, gone, pos, k)
<1>1. Len(v) \in Nat /\ Len(q) \in Nat
    BY LenProperties
<1>2. \A i \in 1 .. Len(v) : pos[i] \in 1 .. k
    BY <1>1 DEF Kept
<1>3. pos \in [1 .. Len(v) -> 1 .. k]
    BY <1>2 DEF Kept
<1>4. \A j \in 1 .. k : q[j] \notin gone => j \in 1 .. k - 1
    BY <1>1
<1>5. Len(v) <= k
    BY <1>1 DEF Kept
<1> QED BY <1>3, <1>4, <1>5 DEF Kept

LEMMA KeptOne ==
    ASSUME NEW S, NEW q \in Seq(S), NEW gone, NEW v \in Seq(S), NEW k \in 1 .. Len(q),
           NEW pos, Kept(v, q, gone, pos, k - 1), q[k] \notin gone
    PROVE  Kept(Append(v, q[k]), q, gone, [i \in 1 .. Len(v) + 1 |-> IF i = Len(v) + 1 THEN k ELSE pos[i]], k)
<1> DEFINE l == Len(v)
           w == Append(v, q[k])
           p == [i \in 1 .. l + 1 |-> IF i = l + 1 THEN k ELSE pos[i]]
<1>1. l \in Nat /\ Len(q) \in Nat /\ k \in Int
    BY LenProperties
<1>2. q[k] \in S
    BY ElementOfSeq
<1>3. Len(w) = l + 1 /\ w[l + 1] = q[k] /\ \A i \in 1 .. l : w[i] = v[i]
    BY <1>2, AppendProperties
<1>4. p[l + 1] = k /\ \A i \in 1 .. l : p[i] = pos[i]
    BY <1>1
<1>5. \A i \in 1 .. l : pos[i] \in 1 .. k - 1 /\ pos[i] \in 1 .. k
    BY <1>1 DEF Kept
<1>6. \A i \in 1 .. l + 1 : i = l + 1 \/ i \in 1 .. l
    BY <1>1
<1>7. p \in [1 .. l + 1 -> 1 .. k]
    BY <1>1, <1>5, <1>6
<1> HIDE DEF w, p
<1>8. \A i \in 1 .. l + 1 : w[i] = q[p[i]] /\ q[p[i]] \notin gone
    BY <1>3, <1>4, <1>6 DEF Kept
<1>9. ASSUME NEW i \in 1 .. l + 1, NEW j \in 1 .. l + 1, i < j PROVE p[i] < p[j]
    <2>1. i \in 1 .. l
        BY <1>1, <1>9
    <2>2. CASE j = l + 1
        BY <1>1, <1>4, <1>5, <2>1, <2>2
    <2>3. CASE j \in 1 .. l
        BY <1>4, <1>9, <2>1, <2>3 DEF Kept
    <2> QED BY <1>6, <2>2, <2>3
<1>10. ASSUME NEW j \in 1 .. k, q[j] \notin gone PROVE \E i \in 1 .. l + 1 : p[i] = j
    <2>1. CASE j = k
        BY <1>1, <1>4, <2>1
    <2>2. CASE j # k
        <3>1. j \in 1 .. k - 1
            BY <1>1, <2>2
        <3>2. PICK i \in 1 .. l : pos[i] = j
            BY <1>10, <3>1 DEF Kept
        <3>3. i \in 1 .. l + 1
            BY <1>1
        <3> QED BY <1>4, <3>2, <3>3
    <2> QED BY <2>1, <2>2
<1>11. Kept(w, q, gone, p, k)
    <2>1. l + 1 <= k
        BY <1>1 DEF Kept
    <2> QED BY <1>3, <1>7, <1>8, <1>9, <1>10, <2>1 DEF Kept
<1> QED BY <1>11 DEF w, p

\* Without leaves a sequence of what is not gone, in the order of q.
LEMMA WithoutKeeps ==
    ASSUME NEW S, NEW q \in Seq(S), NEW gone
    PROVE  /\ Without(q, gone) \in Seq(S)
           /\ \E pos : Kept(Without(q, gone), q, gone, pos, Len(q))
<1> DEFINE n == Len(q)
           left == CHOOSE f : f = [i \in 0 .. Len(q) |->
                      IF i = 0 THEN <<>>
                      ELSE IF q[i] \in gone THEN f[i - 1]
                      ELSE Append(f[i - 1], q[i])]
           Good(k) == left[k] \in Seq(S) /\ \E pos : Kept(left[k], q, gone, pos, k)
           Bad == {k \in Nat : k <= n /\ ~Good(k)}
<1>0. n \in Nat /\ \A i \in 1 .. n : q[i] \in S
    BY ElementOfSeq, LenProperties
<1>1. Without(q, gone) = left[n]
    BY DEF Without
<1>2. left = [i \in 0 .. Len(q) |->
                 IF i = 0 THEN <<>>
                 ELSE IF q[i] \in gone THEN left[i - 1]
                 ELSE Append(left[i - 1], q[i])]
    <2>1. \E f : Leaves(f, q, gone)
        BY KeptFunction
    <2>2. left = CHOOSE f : Leaves(f, q, gone)
        BY DEF Leaves
    <2> HIDE DEF left
    <2>3. Leaves(left, q, gone)
        BY <2>1, <2>2
    <2> QED BY <2>3 DEF Leaves
<1> HIDE DEF left
<1>3. \A i \in 0 .. n : left[i] = IF i = 0 THEN <<>>
                      ELSE IF q[i] \in gone THEN left[i - 1]
                      ELSE Append(left[i - 1], q[i])
    BY <1>2, Zenon
<1>4. Good(0)
    <2>1. left[0] = <<>>
        BY <1>0, <1>3
    <2>2. Kept(<<>>, q, gone, [i \in 1 .. 0 |-> 0], 0)
        BY EmptySeq DEF Kept
    <2> QED BY <2>1, <2>2, EmptySeq
<1>5. ASSUME NEW k \in 1 .. n, Good(k - 1) PROVE Good(k)
    <2>1. PICK pos : Kept(left[k - 1], q, gone, pos, k - 1)
        BY <1>5
    <2>2. left[k - 1] \in Seq(S)
        BY <1>5
    <2>3. left[k] = IF q[k] \in gone THEN left[k - 1] ELSE Append(left[k - 1], q[k])
        BY <1>0, <1>3
    <2>4. CASE q[k] \in gone
        BY <2>1, <2>2, <2>3, <2>4, KeptGone
    <2>5. CASE q[k] \notin gone
        <3>1. left[k] \in Seq(S)
            BY <1>0, <2>2, <2>3, <2>5, AppendProperties
        <3>2. \E p : Kept(Append(left[k - 1], q[k]), q, gone, p, k)
            BY <2>1, <2>2, <2>5, KeptOne
        <3> QED BY <2>3, <2>5, <3>1, <3>2
    <2> QED BY <2>4, <2>5
<1> HIDE DEF Good
<1>6. Bad = {}
    <2> SUFFICES ASSUME Bad # {} PROVE FALSE
        OBVIOUS
    <2>1. PICK k \in Bad : \A j \in Bad : ~(<<j, k>> \in OpToRel(<, Nat))
        BY NatLessThanWellFounded, WFMin, Bad \subseteq Nat
    <2>2. \A j \in Bad : ~(j < k)
        BY <2>1 DEF OpToRel
    <2>3. k \in Nat /\ k <= n /\ ~Good(k)
        BY <2>1
    <2>4. k # 0
        BY <1>4, <2>3
    <2>5. k - 1 \in Nat /\ k - 1 < k /\ k - 1 <= n /\ k \in 1 .. n
        BY <1>0, <2>3, <2>4
    <2>6. Good(k - 1)
        BY <2>2, <2>5
    <2> QED BY <1>5, <2>3, <2>5, <2>6
<1>7. Good(n)
    BY <1>0, <1>6
<1> QED BY <1>1, <1>7 DEF Good

-----------------------------------------------------------------------------
(* The queue of operations.                                                *)

LEMMA FileOfRequest ==
    \A req : FileOf(req) \in Files
BY DEF FileOf, Files, Cached

\* An element before a queue.
LEMMA Before ==
    ASSUME NEW S, NEW o \in S, NEW w \in Seq(S)
    PROVE  /\ <<o>> \o w \in Seq(S) /\ Len(<<o>> \o w) = Len(w) + 1 /\ (<<o>> \o w)[1] = o
           /\ \A i \in 2 .. Len(w) + 1 : (<<o>> \o w)[i] = w[i - 1]
<1> DEFINE s == <<o>>
<1>1. s \in Seq(S) /\ Len(s) = 1 /\ s[1] = o /\ Len(w) \in Nat
    BY LenProperties
<1> HIDE DEF s
<1>2. /\ s \o w \in Seq(S) /\ Len(s \o w) = Len(s) + Len(w)
      /\ \A i \in 1 .. Len(s) + Len(w) : (s \o w)[i] = IF i <= Len(s) THEN s[i] ELSE w[i - Len(s)]
    BY <1>1, ConcatProperties
<1> DEFINE r == s \o w
<1>3. /\ r \in Seq(S) /\ Len(r) = Len(s) + Len(w)
      /\ \A i \in 1 .. Len(s) + Len(w) : r[i] = IF i <= Len(s) THEN s[i] ELSE w[i - Len(s)]
    BY <1>2
<1> HIDE DEF r
<1>4. Len(r) = Len(w) + 1 /\ r[1] = o
    BY <1>1, <1>3
<1>5. \A i \in 2 .. Len(w) + 1 : r[i] = w[i - 1]
    BY <1>1, <1>3
<1> QED BY <1>3, <1>4, <1>5 DEF r, s

\* Facts about a queue and its elements that the provers need in small pieces.
LEMMA QueueFacts ==
    ASSUME NEW q, NEW n \in Nat, NEW known, QueueOK(q, n, known)
    PROVE  /\ q \in Seq(Ops) /\ Len(q) \in Nat /\ DOMAIN q = 1 .. Len(q)
           /\ \A i \in 1 .. Len(q) : q[i] \in Ops
           /\ q = <<>> <=> Len(q) = 0
           /\ q # <<>> => Head(q) = q[1] /\ Head(q) \in Ops /\ 1 \in 1 .. Len(q)
<1>1. q \in Seq(Ops)
    BY DEF QueueOK
<1> HIDE DEF Ops
<1>2. Len(q) \in Nat /\ DOMAIN q = 1 .. Len(q) /\ \A i \in 1 .. Len(q) : q[i] \in Ops
    BY <1>1, LenProperties, ElementOfSeq
<1>3. q = <<>> <=> Len(q) = 0
    BY <1>1, EmptySeq
<1> QED BY <1>1, <1>2, <1>3

LEMMA QueueAppend ==
    ASSUME NEW q, NEW n \in Nat, NEW known, QueueOK(q, n, known),
           NEW o \in Ops, o.id = n + 1, o.since <= known[FileOf(o.req)], Untouched(o)
    PROVE  /\ QueueOK(Append(q, o), n + 1, known)
           /\ Append(q, o) # <<>>
           /\ Len(Append(q, o)) = Len(q) + 1
           /\ q # <<>> => Head(Append(q, o)) = Head(q)
           /\ q = <<>> => Head(Append(q, o)) = o
<1> DEFINE r == Append(q, o)
<1>1. /\ q \in Seq(Ops) /\ Len(q) \in Nat
      /\ q = <<>> <=> Len(q) = 0
      /\ q # <<>> => Head(q) = q[1] /\ 1 \in 1 .. Len(q)
    BY QueueFacts
<1>2. /\ r \in Seq(Ops) /\ r # <<>> /\ Len(r) = Len(q) + 1
      /\ \A i \in 1 .. Len(q) : r[i] = q[i]
      /\ r[Len(q) + 1] = o
    <2> HIDE DEF Ops
    <2> QED BY <1>1, AppendProperties
<1> HIDE DEF r
<1>3. Head(r) = r[1]
    BY <1>2
<1>4. \A i \in 1 .. Len(r) : i \in 1 .. Len(q) \/ i = Len(q) + 1
    BY <1>1, <1>2
<1>5. \A i \in 1 .. Len(r) : r[i].id \in 1 .. n + 1 /\ r[i].since <= known[FileOf(r[i].req)]
    BY <1>2, <1>4 DEF QueueOK
<1>6. ASSUME NEW i \in 1 .. Len(r), NEW j \in 1 .. Len(r), i < j PROVE r[i].id < r[j].id
    <2>1. i \in 1 .. Len(q) /\ q[i].id \in 1 .. n
        BY <1>1, <1>2, <1>6 DEF QueueOK
    <2>2. CASE j \in 1 .. Len(q)
        BY <1>2, <1>6, <2>1, <2>2 DEF QueueOK
    <2>3. CASE j = Len(q) + 1
        BY <1>2, <2>1, <2>3
    <2> QED BY <1>4, <2>2, <2>3
<1>7. \A i \in 2 .. Len(r) : Untouched(r[i])
    <2> SUFFICES ASSUME NEW i \in 2 .. Len(r) PROVE Untouched(r[i])
        OBVIOUS
    <2>1. i \in 2 .. Len(q) \/ i = Len(q) + 1
        BY <1>1, <1>2
    <2>2. i \in 2 .. Len(q) => r[i] = q[i]
        BY <1>1, <1>2
    <2> QED BY <1>2, <2>1, <2>2 DEF QueueOK
<1>8. QueueOK(r, n + 1, known)
    BY <1>2, <1>5, <1>6, <1>7 DEF QueueOK
<1> QED BY <1>1, <1>2, <1>3, <1>8 DEF r

LEMMA QueueTail ==
    ASSUME NEW q, NEW n \in Nat, NEW known, QueueOK(q, n, known), q # <<>>
    PROVE  /\ QueueOK(Tail(q), n, known)
           /\ Len(Tail(q)) = Len(q) - 1
           /\ Tail(q) # <<>> <=> Len(q) > 1
           /\ Tail(q) # <<>> => Untouched(Head(Tail(q)))
<1> DEFINE r == Tail(q)
<1>1. q \in Seq(Ops) /\ Len(q) \in Nat /\ Len(q) > 0
    BY QueueFacts
<1>2. /\ r \in Seq(Ops) /\ Len(r) = Len(q) - 1
      /\ \A i \in 1 .. Len(r) : r[i] = q[i + 1]
    <2> HIDE DEF Ops
    <2> QED BY <1>1, HeadTailProperties
<1> HIDE DEF r
<1>3. r = <<>> <=> Len(r) = 0
    <2> HIDE DEF Ops
    <2> QED BY <1>2, EmptySeq
<1>4. \A i \in 1 .. Len(r) : i + 1 \in 1 .. Len(q) /\ i + 1 \in 2 .. Len(q)
    BY <1>1, <1>2
<1>5. QueueOK(r, n, known)
    <2>1. \A i \in 1 .. Len(r) : r[i].id \in 1 .. n /\ r[i].since <= known[FileOf(r[i].req)]
        BY <1>2, <1>4 DEF QueueOK
    <2>2. ASSUME NEW i \in 1 .. Len(r), NEW j \in 1 .. Len(r), i < j PROVE r[i].id < r[j].id
        <3>1. i + 1 < j + 1
            BY <2>2
        <3> QED BY <1>2, <1>4, <3>1 DEF QueueOK
    <2>3. \A i \in 1 .. Len(r) : Untouched(r[i])
        BY <1>2, <1>4 DEF QueueOK
    <2>4. \A i \in 2 .. Len(r) : i \in 1 .. Len(r)
        BY <1>1, <1>2
    <2> QED BY <1>2, <2>1, <2>2, <2>3, <2>4 DEF QueueOK
<1>6. r # <<>> => Untouched(Head(r))
    <2> SUFFICES ASSUME r # <<>> PROVE Untouched(Head(r))
        OBVIOUS
    <2>1. Head(r) = r[1] /\ 1 \in 1 .. Len(r)
        BY <1>1, <1>2, <1>3
    <2>2. r[1] = q[2] /\ 2 \in 2 .. Len(q)
        BY <1>2, <1>4, <2>1
    <2> QED BY <2>1, <2>2 DEF QueueOK
<1> QED BY <1>1, <1>2, <1>3, <1>5, <1>6 DEF r

\* The first operation becomes o.
LEMMA QueueGoOn ==
    ASSUME NEW q, NEW n \in Nat, NEW known, QueueOK(q, n, known), q # <<>>,
           NEW o \in Ops, o.id = Head(q).id, o.req = Head(q).req, o.since = Head(q).since
    PROVE  /\ QueueOK(<<o>> \o Tail(q), n, known)
           /\ <<o>> \o Tail(q) # <<>>
           /\ Head(<<o>> \o Tail(q)) = o
           /\ Tail(<<o>> \o Tail(q)) = Tail(q)
           /\ Len(<<o>> \o Tail(q)) = Len(q)
           /\ \A i \in 2 .. Len(q) : (<<o>> \o Tail(q))[i] = q[i]
<1> DEFINE r == <<o>> \o Tail(q)
<1>1. /\ q \in Seq(Ops) /\ Len(q) \in Nat /\ Len(q) > 0 /\ Head(q) = q[1] /\ 1 \in 1 .. Len(q)
    BY QueueFacts
<1>2. /\ Tail(q) \in Seq(Ops) /\ Len(Tail(q)) = Len(q) - 1
      /\ \A i \in 1 .. Len(q) - 1 : Tail(q)[i] = q[i + 1]
    <2> HIDE DEF Ops
    <2> QED BY <1>1, HeadTailProperties
<1>3. /\ r \in Seq(Ops) /\ Len(r) = Len(q) /\ r[1] = o
      /\ \A i \in 2 .. Len(q) : r[i] = Tail(q)[i - 1]
    <2> HIDE DEF Ops
    <2>1. <<o>> \in Seq(Ops) /\ Len(<<o>>) = 1 /\ <<o>>[1] = o
        OBVIOUS
    <2> DEFINE s == <<o>>
               t == Tail(q)
    <2> HIDE DEF s, t
    <2>2. /\ s \o t \in Seq(Ops) /\ Len(s \o t) = 1 + Len(t)
          /\ \A i \in 1 .. 1 + Len(t) : (s \o t)[i] = IF i <= 1 THEN s[i] ELSE t[i - 1]
        BY <1>2, <2>1, ConcatProperties DEF s, t
    <2>3. r = s \o t
        BY DEF s, t
    <2>4. Len(t) = Len(q) - 1 /\ s[1] = o /\ t = Tail(q)
        BY <1>2, <2>1 DEF s, t
    <2> HIDE DEF r
    <2>5. r[1] = o
        BY <1>1, <2>2, <2>3, <2>4
    <2>6. \A i \in 2 .. Len(q) : r[i] = t[i - 1]
        BY <1>1, <2>2, <2>3, <2>4
    <2> QED BY <1>1, <2>2, <2>3, <2>4, <2>5, <2>6
<1> HIDE DEF r
<1>4. \A i \in 2 .. Len(q) : r[i] = q[i]
    <2> SUFFICES ASSUME NEW i \in 2 .. Len(q) PROVE r[i] = q[i]
        OBVIOUS
    <2>1. i - 1 \in 1 .. Len(q) - 1 /\ i - 1 + 1 = i
        BY <1>1
    <2> QED BY <1>2, <1>3, <2>1
<1>5. r # <<>> /\ Head(r) = o
    BY <1>1, <1>3
<1>6. Tail(r) = Tail(q)
    <2>1. /\ Tail(r) \in Seq(Ops) /\ Len(Tail(r)) = Len(q) - 1
          /\ \A i \in 1 .. Len(q) - 1 : Tail(r)[i] = r[i + 1]
        <3> HIDE DEF Ops
        <3> QED BY <1>1, <1>3, <1>5, HeadTailProperties
    <2>2. \A i \in 1 .. Len(q) - 1 : i + 1 \in 2 .. Len(q)
        BY <1>1
    <2>3. \A i \in 1 .. Len(q) - 1 : Tail(r)[i] = Tail(q)[i]
        BY <1>2, <1>4, <2>1, <2>2
    <2> HIDE DEF Ops
    <2> QED BY <1>2, <2>1, <2>3, SeqEqual
<1>7. \A i \in 1 .. Len(r) : i = 1 \/ i \in 2 .. Len(q)
    BY <1>1, <1>3
<1>8. \A i \in 1 .. Len(r) : r[i].id = q[i].id /\ r[i].req = q[i].req /\ r[i].since = q[i].since
    BY <1>1, <1>3, <1>4, <1>7
<1>9. QueueOK(r, n, known)
    <2>1. \A i \in 1 .. Len(r) : r[i].id \in 1 .. n /\ r[i].since <= known[FileOf(r[i].req)]
        BY <1>3, <1>8 DEF QueueOK
    <2>2. \A i, j \in 1 .. Len(r) : i < j => r[i].id < r[j].id
        BY <1>3, <1>8 DEF QueueOK
    <2>3. \A i \in 2 .. Len(r) : Untouched(r[i])
        BY <1>3, <1>4 DEF QueueOK
    <2> QED BY <1>3, <2>1, <2>2, <2>3 DEF QueueOK
<1> QED BY <1>3, <1>4, <1>5, <1>6, <1>9 DEF r

\* The same for a queue whose first operation goes on to another block.
LEMMA FirstGoesOn ==
    ASSUME NEW q, NEW n \in Nat, NEW known, QueueOK(q, n, known), q # <<>>, NEW x
    PROVE  [q EXCEPT ![1].current = x] = <<[Head(q) EXCEPT !.current = x]>> \o Tail(q)
<1> DEFINE o == [Head(q) EXCEPT !.current = x]
           T == {q[i] : i \in 1 .. Len(q)} \cup {o}
           r == [q EXCEPT ![1].current = x]
           t == <<o>> \o Tail(q)
<1>1. /\ q \in Seq(Ops) /\ Len(q) \in Nat /\ Len(q) > 0 /\ Head(q) = q[1] /\ 1 \in 1 .. Len(q)
      /\ DOMAIN q = 1 .. Len(q)
    BY QueueFacts
<1>2. q \in [1 .. Len(q) -> T]
    <2> HIDE DEF Ops
    <2>1. q \in [1 .. Len(q) -> Ops]
        BY <1>1, LenProperties
    <2> QED BY <2>1
<1> HIDE DEF Ops, T
<1>3. q \in Seq(T) /\ o \in T
    BY <1>1, <1>2 DEF T
<1>4. r = [q EXCEPT ![1] = o]
    BY <1>1
<1> HIDE DEF o
<1>5. /\ r \in Seq(T) /\ Len(r) = Len(q)
      /\ \A j \in 1 .. Len(q) : r[j] = IF j = 1 THEN o ELSE q[j]
    <2> HIDE DEF r
    <2> QED BY <1>1, <1>3, <1>4, ExceptSeq
<1>6. /\ Tail(q) \in Seq(T) /\ Len(Tail(q)) = Len(q) - 1
      /\ \A i \in 1 .. Len(q) - 1 : Tail(q)[i] = q[i + 1]
    BY <1>1, <1>3, HeadTailProperties
<1>7. /\ t \in Seq(T) /\ Len(t) = Len(q)
      /\ \A j \in 1 .. Len(q) : t[j] = IF j = 1 THEN o ELSE q[j]
    <2>1. <<o>> \in Seq(T) /\ Len(<<o>>) = 1 /\ <<o>>[1] = o
        BY <1>3
    <2> DEFINE s == <<o>>
               u == Tail(q)
    <2> HIDE DEF s, u
    <2>2. /\ s \o u \in Seq(T) /\ Len(s \o u) = 1 + Len(u)
          /\ \A i \in 1 .. 1 + Len(u) : (s \o u)[i] = IF i <= 1 THEN s[i] ELSE u[i - 1]
        BY <1>6, <2>1, ConcatProperties DEF s, u
    <2>3. t = s \o u
        BY DEF s, u
    <2>4. Len(u) = Len(q) - 1 /\ s[1] = o /\ \A i \in 1 .. Len(q) - 1 : u[i] = q[i + 1]
        BY <1>6, <2>1 DEF s, u
    <2> HIDE DEF t
    <2>5. ASSUME NEW j \in 1 .. Len(q) PROVE t[j] = IF j = 1 THEN o ELSE q[j]
        <3>1. CASE j = 1
            BY <1>1, <2>2, <2>3, <2>4, <3>1
        <3>2. CASE j # 1
            <4>1. j - 1 \in 1 .. Len(q) - 1 /\ j - 1 + 1 = j /\ ~(j <= 1) /\ j \in 1 .. 1 + Len(u)
                BY <1>1, <2>4, <3>2
            <4> QED BY <2>2, <2>3, <2>4, <3>2, <4>1
        <3> QED BY <3>1, <3>2
    <2>6. t \in Seq(T)
        BY <2>2, <2>3, Zenon
    <2>8. Len(t) = Len(q)
        <3>1. Len(t) = 1 + Len(u)
            BY <2>2, <2>3, Zenon
        <3> QED BY <1>1, <2>4, <3>1
    <2>7. \A j \in 1 .. Len(q) : t[j] = IF j = 1 THEN o ELSE q[j]
        BY <2>5
    <2> QED BY <2>6, <2>7, <2>8
<1> HIDE DEF r, t
<1>8. r = t
    BY <1>1, <1>5, <1>7, SeqEqual
<1> QED BY <1>8 DEF r, t, o

\* r is q without what c has in it from the second place on.
Dropped(r, q, c) ==
    \E pos :
       /\ pos \in [2 .. Len(r) -> 2 .. Len(q)]
       /\ \A i \in 2 .. Len(r) : r[i] = q[pos[i]] /\ q[pos[i]].client # c
       /\ \A j \in 2 .. Len(q) : q[j].client # c => \E i \in 2 .. Len(r) : pos[i] = j

\* A client is gone: its operations are, but for the first.
LEMMA QueueDrop ==
    ASSUME NEW q, NEW n \in Nat, NEW known, QueueOK(q, n, known), q # <<>>, NEW c
    PROVE  LET o == [Head(q) EXCEPT !.cb = @ /\ Head(q).client # c]
               r == WithoutClient(q, c)
           IN  /\ o \in Ops
               /\ QueueOK(r, n, known)
               /\ r # <<>> /\ Head(r) = o /\ Len(r) <= Len(q)
               /\ Dropped(r, q, c)
<1> DEFINE o == [Head(q) EXCEPT !.cb = @ /\ Head(q).client # c]
           gone == {q[i] : i \in {j \in DOMAIN q : q[j].client = c}}
           t == Tail(q)
           w == Without(t, gone)
           r == <<o>> \o w
<1>1. /\ q \in Seq(Ops) /\ Len(q) \in Nat /\ Len(q) > 0 /\ DOMAIN q = 1 .. Len(q)
      /\ Head(q) = q[1] /\ Head(q) \in Ops /\ 1 \in 1 .. Len(q)
      /\ \A i \in 1 .. Len(q) : q[i] \in Ops
    BY QueueFacts
<1>2. o \in Ops /\ o.id = q[1].id /\ o.req = q[1].req /\ o.since = q[1].since
    BY <1>1 DEF Ops
<1>3. WithoutClient(q, c) = r
    BY DEF WithoutClient
<1>4. /\ t \in Seq(Ops) /\ Len(t) = Len(q) - 1
      /\ \A i \in 1 .. Len(q) - 1 : t[i] = q[i + 1]
    <2> HIDE DEF Ops
    <2> QED BY <1>1, HeadTailProperties
<1>5. \A j \in 1 .. Len(q) : q[j] \in gone <=> q[j].client = c
    BY <1>1
<1> HIDE DEF o, gone, t, w, Ops
<1>6. w \in Seq(Ops) /\ \E pos : Kept(w, t, gone, pos, Len(t))
    BY <1>4, WithoutKeeps DEF w
<1>7. PICK p : Kept(w, t, gone, p, Len(t))
    BY <1>6
<1>8. Len(w) \in Nat
    BY <1>6, LenProperties
<1>9. /\ r \in Seq(Ops) /\ Len(r) = Len(w) + 1 /\ r[1] = o
      /\ \A i \in 2 .. Len(w) + 1 : r[i] = w[i - 1]
    BY <1>2, <1>6, Before
<1> HIDE DEF r
<1> DEFINE pos == [i \in 2 .. Len(r) |-> p[i - 1] + 1]
<1>10. \A i \in 2 .. Len(r) :
          i - 1 \in 1 .. Len(w) /\ p[i - 1] \in 1 .. Len(q) - 1 /\ pos[i] = p[i - 1] + 1
    <2>1. \A i \in 2 .. Len(r) : i - 1 \in 1 .. Len(w)
        BY <1>8, <1>9
    <2>2. \A i \in 1 .. Len(w) : p[i] \in 1 .. Len(q) - 1
        BY <1>4, <1>7 DEF Kept
    <2> QED BY <2>1, <2>2
<1>11. \A i \in 2 .. Len(r) : pos[i] \in 2 .. Len(q) /\ pos[i] \in 1 .. Len(q)
    BY <1>1, <1>10
<1>12. pos \in [2 .. Len(r) -> 2 .. Len(q)]
    BY <1>11
<1> HIDE DEF pos
<1>13. \A i \in 2 .. Len(r) : r[i] = q[pos[i]] /\ q[pos[i]].client # c
    <2> SUFFICES ASSUME NEW i \in 2 .. Len(r) PROVE r[i] = q[pos[i]] /\ q[pos[i]].client # c
        OBVIOUS
    <2>1. i \in 2 .. Len(w) + 1
        BY <1>9
    <2>2. r[i] = w[i - 1] /\ w[i - 1] = t[p[i - 1]] /\ t[p[i - 1]] \notin gone
        BY <1>7, <1>9, <1>10, <2>1 DEF Kept
    <2>3. t[p[i - 1]] = q[pos[i]]
        BY <1>4, <1>10
    <2> QED BY <1>5, <1>11, <2>2, <2>3
<1>14. ASSUME NEW j \in 2 .. Len(q), q[j].client # c PROVE \E i \in 2 .. Len(r) : pos[i] = j
    <2>1. j - 1 \in 1 .. Len(q) - 1 /\ j - 1 + 1 = j /\ j \in 1 .. Len(q)
        BY <1>1
    <2>2. t[j - 1] = q[j] /\ t[j - 1] \notin gone
        BY <1>4, <1>5, <1>14, <2>1
    <2>3. PICK i \in 1 .. Len(w) : p[i] = j - 1
        BY <1>4, <1>7, <2>1, <2>2 DEF Kept
    <2>4. i + 1 \in 2 .. Len(r) /\ i + 1 - 1 = i
        BY <1>8, <1>9
    <2>5. pos[i + 1] = p[i] + 1
        BY <1>10, <2>4
    <2> QED BY <2>1, <2>3, <2>4, <2>5
<1>15. \A i \in 2 .. Len(r), j \in 2 .. Len(r) : i < j => pos[i] < pos[j]
    <2> SUFFICES ASSUME NEW i \in 2 .. Len(r), NEW j \in 2 .. Len(r), i < j PROVE pos[i] < pos[j]
        OBVIOUS
    <2>1. i - 1 < j - 1 /\ i - 1 \in 1 .. Len(w) /\ j - 1 \in 1 .. Len(w)
        BY <1>10
    <2>2. p[i - 1] < p[j - 1]
        BY <1>7, <2>1 DEF Kept
    <2>3. p[i - 1] \in Int /\ p[j - 1] \in Int
        BY <1>10
    <2> QED BY <1>10, <2>2, <2>3
<1>16. r # <<>> /\ Head(r) = o /\ Len(r) <= Len(q)
    <2>1. Len(w) <= Len(q) - 1
        BY <1>4, <1>7 DEF Kept
    <2> QED BY <1>1, <1>8, <1>9, <2>1
<1>17. \A i \in 1 .. Len(r) : i = 1 \/ i \in 2 .. Len(r)
    BY <1>8, <1>9
<1>18. QueueOK(r, n, known)
    <2>1. \A i \in 1 .. Len(r) : r[i].id \in 1 .. n /\ r[i].since <= known[FileOf(r[i].req)]
        BY <1>1, <1>2, <1>9, <1>11, <1>13, <1>17 DEF QueueOK
    <2>2. ASSUME NEW i \in 1 .. Len(r), NEW j \in 1 .. Len(r), i < j PROVE r[i].id < r[j].id
        <3>1. j \in 2 .. Len(r) /\ pos[j] \in 1 .. Len(q) /\ 1 < pos[j]
            BY <1>11, <1>17, <2>2
        <3>2. r[j].id = q[pos[j]].id
            BY <1>13, <3>1
        <3>3. CASE i = 1
            BY <1>1, <1>2, <1>9, <3>1, <3>2, <3>3 DEF QueueOK
        <3>4. CASE i \in 2 .. Len(r)
            BY <1>11, <1>13, <1>15, <2>2, <3>1, <3>2, <3>4 DEF QueueOK
        <3> QED BY <1>17, <3>3, <3>4
    <2>3. \A i \in 2 .. Len(r) : Untouched(r[i])
        BY <1>11, <1>13 DEF QueueOK
    <2> QED BY <1>9, <2>1, <2>2, <2>3 DEF QueueOK
<1>19. \A j \in 2 .. Len(q) : q[j].client # c => \E i \in 2 .. Len(r) : pos[i] = j
    BY <1>14
<1>20. Dropped(r, q, c)
    BY <1>12, <1>13, <1>19 DEF Dropped
<1> QED BY <1>2, <1>3, <1>16, <1>18, <1>20 DEF o

-----------------------------------------------------------------------------
(* What the clients see of the queue: Pend(op_q) is the pending of SimFiles.*)

Rec(o) == [id |-> o.id, client |-> o.client, file |-> FileOf(o.req), since |-> o.since]
Pend(q) == {Rec(q[i]) : i \in {j \in DOMAIN q : q[j].cb}}

LEMMA PendAppend ==
    ASSUME NEW q, NEW n \in Nat, NEW known, QueueOK(q, n, known), NEW o \in Ops, o.cb = TRUE
    PROVE  Pend(Append(q, o)) = Pend(q) \cup {Rec(o)}
<1> DEFINE r == Append(q, o)
<1>1. q \in Seq(Ops) /\ Len(q) \in Nat /\ DOMAIN q = 1 .. Len(q)
    BY QueueFacts
<1>2. /\ DOMAIN r = 1 .. Len(q) + 1
      /\ \A i \in 1 .. Len(q) : r[i] = q[i]
      /\ r[Len(q) + 1] = o
    <2> HIDE DEF Ops
    <2> QED BY <1>1, AppendProperties, LenProperties
<1> HIDE DEF r
<1>3. \A i \in 1 .. Len(q) + 1 : i \in 1 .. Len(q) \/ i = Len(q) + 1
    BY <1>1
<1>4. Len(q) + 1 \in 1 .. Len(q) + 1 /\ \A i \in 1 .. Len(q) : i \in 1 .. Len(q) + 1
    BY <1>1
<1>5. Pend(r) \subseteq Pend(q) \cup {Rec(o)}
    BY <1>1, <1>2, <1>3 DEF Pend
<1>6. Pend(q) \subseteq Pend(r)
    BY <1>1, <1>2, <1>4 DEF Pend
<1>7. Rec(o) \in Pend(r)
    BY <1>2, <1>4 DEF Pend
<1> QED BY <1>5, <1>6, <1>7 DEF r

\* Pending requests have ids of their own, the first operation's the least.
LEMMA PendOrder ==
    ASSUME NEW q, NEW n \in Nat, NEW known, QueueOK(q, n, known), q # <<>>
    PROVE  /\ \A r \in Pend(q) : Head(q).id <= r.id /\ r.id \in 1 .. n
           /\ \A i \in 2 .. Len(q) : Rec(q[i]) # Rec(Head(q))
           /\ Rec(Head(q)).id = Head(q).id
<1>1. q \in Seq(Ops) /\ Len(q) \in Nat /\ DOMAIN q = 1 .. Len(q) /\ Head(q) = q[1] /\ 1 \in 1 .. Len(q)
    BY QueueFacts
<1>2. \A i \in 2 .. Len(q) : i \in 1 .. Len(q) /\ 1 < i
    BY <1>1
<1>3. \A i \in 1 .. Len(q) : q[i].id \in 1 .. n /\ Rec(q[i]).id = q[i].id
    BY DEF QueueOK, Rec
<1>4. \A i \in 2 .. Len(q) : q[1].id < q[i].id
    BY <1>1, <1>2 DEF QueueOK
<1>5. \A i \in 1 .. Len(q) : i = 1 \/ i \in 2 .. Len(q)
    BY <1>1
<1>6. \A i \in 1 .. Len(q) : q[1].id <= q[i].id
    BY <1>1, <1>3, <1>4, <1>5
<1>7. \A r \in Pend(q) : \E i \in 1 .. Len(q) : r = Rec(q[i])
    BY <1>1 DEF Pend
<1>8. \A i \in 2 .. Len(q) : Rec(q[i]).id # Rec(q[1]).id
    BY <1>1, <1>2, <1>3, <1>4
<1>9. \A r \in Pend(q) : q[1].id <= r.id /\ r.id \in 1 .. n
    BY <1>3, <1>6, <1>7
<1> QED BY <1>1, <1>3, <1>8, <1>9

LEMMA PendTail ==
    ASSUME NEW q, NEW n \in Nat, NEW known, QueueOK(q, n, known), q # <<>>
    PROVE  /\ Head(q).cb = TRUE => Rec(Head(q)) \in Pend(q)
           /\ Pend(Tail(q)) = Pend(q) \ {Rec(Head(q))}
           /\ Head(q).cb = FALSE => Pend(Tail(q)) = Pend(q)
<1> DEFINE t == Tail(q)
<1>1. /\ q \in Seq(Ops) /\ Len(q) \in Nat /\ Len(q) > 0
      /\ DOMAIN q = 1 .. Len(q) /\ Head(q) = q[1] /\ 1 \in 1 .. Len(q)
    BY QueueFacts
<1>2. /\ DOMAIN t = 1 .. Len(q) - 1
      /\ \A i \in 1 .. Len(q) - 1 : t[i] = q[i + 1]
    <2> HIDE DEF Ops
    <2> QED BY <1>1, HeadTailProperties, LenProperties
<1> HIDE DEF t
<1>3. \A i \in 1 .. Len(q) - 1 : i + 1 \in 2 .. Len(q)
    BY <1>1
<1>4. \A i \in 2 .. Len(q) : i - 1 \in 1 .. Len(q) - 1 /\ i - 1 + 1 = i /\ i \in 1 .. Len(q)
    BY <1>1
<1>5. \A i \in 1 .. Len(q) : i = 1 \/ i \in 2 .. Len(q)
    BY <1>1
<1>6. \A i \in 2 .. Len(q) : Rec(q[i]) # Rec(q[1])
    BY <1>1, PendOrder
<1>7. Pend(t) = {Rec(q[i]) : i \in {j \in 2 .. Len(q) : q[j].cb}}
    <2>1. ASSUME NEW r \in Pend(t) PROVE r \in {Rec(q[i]) : i \in {j \in 2 .. Len(q) : q[j].cb}}
        <3>1. PICK i \in 1 .. Len(q) - 1 : t[i].cb /\ r = Rec(t[i])
            BY <1>2, <2>1 DEF Pend
        <3> QED BY <1>2, <1>3, <3>1
    <2>2. ASSUME NEW i \in 2 .. Len(q), q[i].cb PROVE Rec(q[i]) \in Pend(t)
        BY <1>2, <1>4, <2>2 DEF Pend
    <2> QED BY <2>1, <2>2
<1>8. Pend(q) = {Rec(q[i]) : i \in {j \in 1 .. Len(q) : q[j].cb}}
    BY <1>1 DEF Pend
<1>9. Pend(t) \subseteq Pend(q) \ {Rec(q[1])}
    BY <1>4, <1>6, <1>7, <1>8
<1>10. Pend(q) \ {Rec(q[1])} \subseteq Pend(t)
    BY <1>5, <1>7, <1>8
<1>11. q[1].cb = TRUE => Rec(q[1]) \in Pend(q)
    BY <1>1, <1>8
<1>12. q[1].cb = FALSE => Pend(q) \subseteq Pend(t)
    BY <1>5, <1>7, <1>8
<1> QED BY <1>1, <1>9, <1>10, <1>11, <1>12 DEF t

LEMMA PendGoOn ==
    ASSUME NEW q, NEW n \in Nat, NEW known, QueueOK(q, n, known), q # <<>>,
           NEW o \in Ops, Rec(o) = Rec(Head(q)), o.cb = Head(q).cb,
           o.req = Head(q).req
    PROVE  Pend(<<o>> \o Tail(q)) = Pend(q)
<1> DEFINE r == <<o>> \o Tail(q)
<1>1. /\ q \in Seq(Ops) /\ Len(q) \in Nat /\ Len(q) > 0
      /\ DOMAIN q = 1 .. Len(q) /\ Head(q) = q[1] /\ 1 \in 1 .. Len(q)
    BY QueueFacts
<1>2. QueueOK(r, n, known) /\ Head(r) = o /\ Len(r) = Len(q) /\ r # <<>> /\ \A i \in 2 .. Len(q) : r[i] = q[i]
    <2>1. o.id = Head(q).id /\ o.since = Head(q).since
        BY DEF Rec
    <2> QED BY <2>1, QueueGoOn
<1> HIDE DEF r
<1>3. DOMAIN r = 1 .. Len(q) /\ r[1] = o
    BY <1>2, QueueFacts
<1>4. \A i \in 1 .. Len(q) : Rec(r[i]) = Rec(q[i]) /\ r[i].cb = q[i].cb
    <2>1. \A i \in 1 .. Len(q) : i = 1 \/ i \in 2 .. Len(q)
        BY <1>1
    <2> QED BY <1>1, <1>2, <1>3, <2>1
<1>5. Pend(r) = {Rec(r[i]) : i \in {j \in 1 .. Len(q) : r[j].cb}}
    BY <1>3 DEF Pend
<1>6. Pend(q) = {Rec(q[i]) : i \in {j \in 1 .. Len(q) : q[j].cb}}
    BY <1>1 DEF Pend
<1>7. {j \in 1 .. Len(q) : r[j].cb} = {j \in 1 .. Len(q) : q[j].cb}
    BY <1>4
<1>8. Pend(r) \subseteq Pend(q)
    BY <1>4, <1>5, <1>6, <1>7
<1>9. Pend(q) \subseteq Pend(r)
    BY <1>4, <1>5, <1>6, <1>7
<1> QED BY <1>8, <1>9 DEF r

LEMMA PendDrop ==
    ASSUME NEW q, NEW n \in Nat, NEW known, QueueOK(q, n, known), q # <<>>, NEW c
    PROVE  Pend(WithoutClient(q, c)) = Pend(q) \ {r \in Pend(q) : r.client = c}
<1> DEFINE o == [Head(q) EXCEPT !.cb = @ /\ Head(q).client # c]
           w == WithoutClient(q, c)
<1>1. /\ q \in Seq(Ops) /\ Len(q) \in Nat /\ Len(q) > 0
      /\ DOMAIN q = 1 .. Len(q) /\ Head(q) = q[1] /\ 1 \in 1 .. Len(q) /\ Head(q) \in Ops
    BY QueueFacts
<1>2. QueueOK(w, n, known) /\ w # <<>> /\ Head(w) = o
    BY QueueDrop
<1>12. Dropped(w, q, c)
    BY QueueDrop
<1>3. PICK pos :
         /\ pos \in [2 .. Len(w) -> 2 .. Len(q)]
         /\ \A i \in 2 .. Len(w) : w[i] = q[pos[i]] /\ q[pos[i]].client # c
         /\ \A j \in 2 .. Len(q) : q[j].client # c => \E i \in 2 .. Len(w) : pos[i] = j
    BY <1>12 DEF Dropped
<1>4. /\ Rec(o) = Rec(q[1]) /\ o.cb = (q[1].cb /\ q[1].client # c)
      /\ q[1].cb \in BOOLEAN
    BY <1>1 DEF Ops, Rec
<1> HIDE DEF w, o
<1>5. Len(w) \in Nat /\ DOMAIN w = 1 .. Len(w) /\ w[1] = o /\ 1 \in 1 .. Len(w)
    BY <1>2, QueueFacts
<1>6. \A i \in 1 .. Len(w) : i = 1 \/ i \in 2 .. Len(w)
    BY <1>5
<1>7. \A i \in 1 .. Len(q) : i = 1 \/ i \in 2 .. Len(q)
    BY <1>1
<1>8. /\ \A i \in 2 .. Len(w) : i \in 1 .. Len(w)
      /\ \A i \in 2 .. Len(q) : i \in 1 .. Len(q)
    BY <1>1, <1>5
<1>9. \A i \in 1 .. Len(q) : Rec(q[i]).client = q[i].client
    BY DEF Rec
<1>10. ASSUME NEW r \in Pend(w) PROVE r \in Pend(q) /\ r.client # c
    <2>1. PICK i \in 1 .. Len(w) : w[i].cb /\ r = Rec(w[i])
        BY <1>5, <1>10 DEF Pend
    <2>2. CASE i = 1
        <3>1. q[1].cb /\ q[1].client # c /\ r = Rec(q[1])
            BY <1>4, <1>5, <2>1, <2>2
        <3> QED BY <1>1, <1>9, <3>1 DEF Pend
    <2>3. CASE i \in 2 .. Len(w)
        <3>1. pos[i] \in 1 .. Len(q) /\ w[i] = q[pos[i]] /\ q[pos[i]].client # c
            BY <1>3, <1>8, <2>3
        <3> QED BY <1>1, <1>9, <2>1, <3>1 DEF Pend
    <2> QED BY <1>6, <2>2, <2>3
<1>11. ASSUME NEW r \in Pend(q), r.client # c PROVE r \in Pend(w)
    <2>1. PICK j \in 1 .. Len(q) : q[j].cb /\ r = Rec(q[j])
        BY <1>1, <1>11 DEF Pend
    <2>2. q[j].client # c
        BY <1>9, <1>11, <2>1
    <2>3. CASE j = 1
        <3>1. o.cb /\ Rec(o) = r
            BY <1>4, <2>1, <2>2, <2>3
        <3> QED BY <1>5, <3>1 DEF Pend
    <2>4. CASE j \in 2 .. Len(q)
        <3>1. PICK i \in 2 .. Len(w) : pos[i] = j
            BY <1>3, <2>2, <2>4
        <3>2. w[i] = q[j] /\ i \in 1 .. Len(w)
            BY <1>3, <1>8, <3>1
        <3> QED BY <1>5, <2>1, <3>2 DEF Pend
    <2> QED BY <1>7, <2>3, <2>4
<1> QED BY <1>10, <1>11 DEF w

-----------------------------------------------------------------------------
(* Reading: the buffer, and the blocks that are in the cache.              *)

LEMMA BlockFacts ==
    /\ NumBytes \in Nat \ {0} /\ Offset \in {0, 1} /\ LastBlock \in Nat
    /\ op.req \in {"bytes", "read"} => LastBlock = 0 /\ NumBytes = BLOCK - Offset
    /\ Offset = 1 <=> op.req = "bytes"
    /\ op.req = "records" => LastBlock = Records - 1
    /\ op.req \notin {"records", "bytes", "read"} =>
            LastBlock = (Length - 1) \div BLOCK /\ NumBytes = Length
    /\ op.req \in InBlocks => \A b \in 0 .. LastBlock : b * BLOCK \in Nat /\ b * BLOCK <= Length
<1>1. /\ (BLOCK - 1) \div BLOCK = 0
      /\ (Length - 1) \div BLOCK \in Nat
      /\ BLOCK * ((Length - 1) \div BLOCK) <= Length - 1
    BY SimFsAssumption
<1>2. \A a, b \in Nat : a <= b => a * BLOCK \in Nat /\ a * BLOCK <= BLOCK * b
    BY SimFsAssumption
<1>3. /\ op.req = "bytes" => Offset = 1 /\ NumBytes = BLOCK - 1
      /\ op.req # "bytes" => Offset = 0
      /\ op.req = "read" => NumBytes = BLOCK
      /\ op.req \notin {"bytes", "read"} => NumBytes = Length
    BY DEF Offset, NumBytes
<1>4. /\ op.req = "records" => LastBlock = Records - 1
      /\ op.req \in {"bytes", "read"} => LastBlock = (BLOCK - 1) \div BLOCK
      /\ op.req \notin {"records", "bytes", "read"} => LastBlock = (Length - 1) \div BLOCK
    BY <1>3, SimFsAssumption DEF LastBlock
<1>5. NumBytes \in Nat \ {0} /\ Offset \in {0, 1} /\ LastBlock \in Nat
    BY <1>1, <1>3, <1>4, SimFsAssumption
<1>6. op.req \in {"bytes", "read"} => LastBlock = 0 /\ NumBytes = BLOCK - Offset
    BY <1>1, <1>3, <1>4, SimFsAssumption
<1>7. ASSUME op.req \in InBlocks, NEW b \in 0 .. LastBlock PROVE b * BLOCK \in Nat /\ b * BLOCK <= Length
    <2>1. CASE op.req \in {"bytes", "read"}
        <3>1. b = 0
            BY <1>6, <2>1
        <3> QED BY <1>2, <3>1, SimFsAssumption
    <2>2. CASE op.req = "whole"
        <3> DEFINE l == (Length - 1) \div BLOCK
        <3>1. l \in Nat /\ BLOCK * l <= Length - 1 /\ b \in Nat /\ b <= l
            BY <1>1, <1>4, <2>2
        <3> HIDE DEF l
        <3>2. b * BLOCK \in Nat /\ b * BLOCK <= BLOCK * l
            BY <1>2, <3>1
        <3> DEFINE x == b * BLOCK
                   y == BLOCK * l
        <3>3. x \in Nat /\ x <= y /\ y <= Length - 1
            BY <3>1, <3>2
        <3>4. y \in Int
            BY <3>1, SimFsAssumption
        <3> HIDE DEF x, y
        <3>5. x \in Nat /\ x <= Length
            BY <3>3, <3>4, SimFsAssumption
        <3> QED BY <3>5 DEF x
    <2> QED BY <1>7, <2>1, <2>2 DEF InBlocks
<1>8. Offset = 1 <=> op.req = "bytes"
    BY <1>3
<1> QED BY <1>3, <1>4, <1>5, <1>6, <1>7, <1>8

\* The bytes are where they were asked for.
InPlace(buffer) ==
    \A i \in 0 .. NumBytes - 1 : buffer[i].at = i + (IF op.req = "bytes" THEN 1 ELSE 0)

LEMMA ZerosOK == BufferOK(Zeros)
<1>1. NumBytes \in Nat
    BY BlockFacts
<1>2. [at |-> -1, version |-> 0] \in Bytes
    BY SimFsAssumption DEF Bytes, Numbers
<1>3. \A i \in 0 .. NumBytes - 1 : Zeros[i] = [at |-> -1, version |-> 0]
    BY DEF Zeros
<1>4. Zeros \in [0 .. NumBytes - 1 -> Bytes]
    BY <1>2 DEF Zeros
<1> HIDE DEF Zeros
<1> QED BY <1>3, <1>4 DEF BufferOK

LEMMA CopiedOK ==
    ASSUME op.req \in InBlocks, NEW buffer, BufferOK(buffer), NEW b \in 0 .. LastBlock,
           NEW v \in Numbers, v \in op.since .. card[file]
    PROVE  /\ BufferOK(Copied(buffer, b, v))
           /\ op.req \in {"bytes", "read"} => InPlace(Copied(buffer, b, v))
<1> DEFINE bufoff == IF b = 0 THEN 0 ELSE (b - 1) * BLOCK + Offset
           dataoff == IF b = 0 THEN Offset ELSE 0
           tocopy == IF b = 0 THEN Least(BLOCK - Offset, NumBytes) ELSE Least(BLOCK, NumBytes - b * BLOCK)
           start == b * BLOCK
           copy == [i \in DOMAIN buffer |->
                        IF i \in bufoff .. bufoff + tocopy - 1
                        THEN [at |-> start + dataoff + i - bufoff, version |-> v]
                        ELSE buffer[i]]
<1>1. Copied(buffer, b, v) = copy
    BY DEF Copied
<1>2. /\ NumBytes \in Nat /\ Offset \in {0, 1} /\ LastBlock \in Nat /\ BLOCK \in Nat /\ Length \in Nat
      /\ start \in Nat /\ start <= Length /\ b \in Nat /\ BLOCK > 1
    BY BlockFacts, SimFsAssumption
<1>3. bufoff \in Int /\ dataoff \in {0, 1} /\ tocopy \in Int /\ dataoff + tocopy <= BLOCK
    <2>1. CASE b = 0
        BY <1>2, <2>1 DEF Least
    <2>2. CASE b # 0
        <3>1. (b - 1) * BLOCK \in Int
            BY <1>2
        <3>2. tocopy <= BLOCK /\ tocopy \in Int
            BY <1>2, <2>2 DEF Least
        <3> QED BY <1>2, <2>2, <3>1, <3>2
    <2> QED BY <2>1, <2>2
<1>4. b = 0 => start = 0 /\ bufoff = 0 /\ dataoff = Offset /\ tocopy = Least(BLOCK - Offset, NumBytes)
    BY <1>2
<1>5. DOMAIN buffer = 0 .. NumBytes - 1 /\ \A i \in 0 .. NumBytes - 1 : buffer[i] \in Bytes
    BY DEF BufferOK
<1>6. \A i \in 0 .. NumBytes - 1 :
         copy[i] = IF i \in bufoff .. bufoff + tocopy - 1
                   THEN [at |-> start + dataoff + i - bufoff, version |-> v]
                   ELSE buffer[i]
    BY <1>5
<1>7. copy = [i \in 0 .. NumBytes - 1 |-> copy[i]]
    BY <1>5
<1> HIDE DEF bufoff, dataoff, tocopy, start, copy
<1>8. \A i \in 0 .. NumBytes - 1 :
        copy[i] \in Bytes /\ (copy[i].at >= 0 => copy[i].version \in op.since .. card[file])
    <2> SUFFICES ASSUME NEW i \in 0 .. NumBytes - 1
                 PROVE  copy[i] \in Bytes /\ (copy[i].at >= 0 => copy[i].version \in op.since .. card[file])
        OBVIOUS
    <2>1. CASE i \in bufoff .. bufoff + tocopy - 1
        <3>1. start + dataoff + i - bufoff \in -1 .. Length + BLOCK
            BY <1>2, <1>3, <2>1
        <3>2. copy[i] = [at |-> start + dataoff + i - bufoff, version |-> v]
            BY <1>6, <2>1
        <3> QED BY <3>1, <3>2 DEF Bytes
    <2>2. CASE i \notin bufoff .. bufoff + tocopy - 1
        BY <1>5, <1>6, <2>2 DEF BufferOK
    <2> QED BY <2>1, <2>2
<1>9. copy \in [0 .. NumBytes - 1 -> Bytes]
    BY <1>7, <1>8
<1>10. BufferOK(copy)
    BY <1>8, <1>9 DEF BufferOK
<1>11. ASSUME op.req \in {"bytes", "read"} PROVE InPlace(copy)
    <2>1. b = 0 /\ NumBytes = BLOCK - Offset
        BY <1>11, BlockFacts
    <2>2. tocopy = NumBytes /\ bufoff = 0 /\ start = 0 /\ dataoff = Offset
        BY <1>2, <1>4, <2>1 DEF Least
    <2>3. \A i \in 0 .. NumBytes - 1 : copy[i].at = Offset + i
        <3> SUFFICES ASSUME NEW i \in 0 .. NumBytes - 1 PROVE copy[i].at = Offset + i
            OBVIOUS
        <3>1. i \in bufoff .. bufoff + tocopy - 1
            BY <1>2, <2>2
        <3>2. copy[i] = [at |-> start + dataoff + i - bufoff, version |-> v]
            BY <1>6, <3>1
        <3>3. copy[i].at = start + dataoff + i - bufoff
            BY <3>2
        <3> QED BY <1>2, <2>2, <3>3
    <2>4. Offset = IF op.req = "bytes" THEN 1 ELSE 0
        BY BlockFacts
    <2> QED BY <1>2, <2>3, <2>4 DEF InPlace
<1> QED BY <1>1, <1>10, <1>11

\* The blocks found in the cache are a run from the current one on.
LEMMA PresentRun ==
    ASSUME op.current \in 0 .. LastBlock
    PROVE  \E m \in op.current .. LastBlock + 1 :
              /\ Present = op.current .. m - 1
              /\ Cardinality(Present) = m - op.current
<1> DEFINE a == op.current
           l == LastBlock
           Bad == {k \in Nat : k >= a /\ k <= l /\ k \notin OpenFile.bits}
           Run(m) == m \in a .. l + 1 /\ Present = a .. m - 1
<1>1. a \in Nat /\ l \in Nat /\ a <= l
    BY BlockFacts
<1>2. Present = {b \in a .. l : a .. b \subseteq OpenFile.bits}
    BY DEF Present
<1> HIDE DEF a, l
<1>3. \E m : Run(m)
    <2>1. CASE Bad = {}
        <3>1. \A b \in a .. l : b \in OpenFile.bits
            BY <1>1, <2>1
        <3>2. \A b \in a .. l : \A c \in a .. b : c \in a .. l
            BY <1>1
        <3>3. Present = a .. l
            BY <1>2, <3>1, <3>2
        <3>4. l + 1 \in a .. l + 1 /\ l + 1 - 1 = l
            BY <1>1
        <3>5. Present = a .. (l + 1) - 1
            BY <1>1, <3>3
        <3> QED BY <3>4, <3>5
    <2>2. CASE Bad # {}
        <3>1. PICK k \in Bad : \A j \in Bad : ~(<<j, k>> \in OpToRel(<, Nat))
            BY <2>2, NatLessThanWellFounded, WFMin, Bad \subseteq Nat
        <3>2. \A j \in Bad : ~(j < k)
            BY <3>1 DEF OpToRel
        <3>3. k \in Nat /\ k >= a /\ k <= l /\ k \notin OpenFile.bits
            BY <3>1
        <3>4. \A j \in a .. k - 1 : j \in OpenFile.bits
            BY <1>1, <3>2, <3>3
        <3>5. a .. k - 1 \subseteq Present
            <4>1. \A b \in a .. k - 1 : b \in a .. l /\ \A c \in a .. b : c \in a .. k - 1
                BY <1>1, <3>3
            <4> QED BY <1>2, <3>4, <4>1
        <3>6. Present \subseteq a .. k - 1
            <4> SUFFICES ASSUME NEW b \in Present PROVE b \in a .. k - 1
                OBVIOUS
            <4>1. b \in a .. l /\ k \notin a .. b
                BY <1>2, <3>3
            <4> QED BY <1>1, <3>3, <4>1
        <3>7. k \in a .. l + 1
            BY <1>1, <3>3
        <3> QED BY <3>5, <3>6, <3>7
    <2> QED BY <2>1, <2>2
<1>4. PICK m : Run(m)
    BY <1>3
<1>5. Cardinality(a .. m - 1) = m - a
    <2>1. m \in Int /\ a \in Int /\ a <= m
        BY <1>1, <1>4
    <2>2. Cardinality(a .. m - 1) = IF a > m - 1 THEN 0 ELSE m - 1 - a + 1
        BY <2>1, FS_Interval
    <2> QED BY <2>1, <2>2
<1>6. Cardinality(Present) = m - a
    <2>1. Present = a .. m - 1
        BY <1>4
    <2> QED BY <1>5, <2>1, Zenon
<1> QED BY <1>4, <1>6 DEF a, l

\* f is the recursive function of FromCache.
Fills(f, buffer) ==
    f = [n \in 0 .. Cardinality(Present) |->
            IF n = 0 THEN buffer
            ELSE Copied(f[n - 1], op.current + n - 1, OpenFile.data[op.current + n - 1])]

LEMMA FillFunction ==
    ASSUME NEW N \in Nat, N = Cardinality(Present), NEW buffer
    PROVE  \E f : Fills(f, buffer)
<1> DEFINE Rule(g, i) == IF i = 0 THEN buffer
                         ELSE Copied(g[i - 1], op.current + i - 1, OpenFile.data[op.current + i - 1])
           Upto(k) == \E f : f = [i \in 0 .. k |-> f[i]] /\ \A i \in 0 .. k : f[i] = Rule(f, i)
           Bad == {k \in Nat : k <= N /\ ~Upto(k)}
<1>1. Bad = {}
    <2> SUFFICES ASSUME Bad # {} PROVE FALSE
        OBVIOUS
    <2>1. PICK k \in Bad : \A j \in Bad : ~(<<j, k>> \in OpToRel(<, Nat))
        BY NatLessThanWellFounded, WFMin, Bad \subseteq Nat
    <2>2. \A j \in Bad : ~(j < k)
        BY <2>1 DEF OpToRel
    <2>3. k \in Nat /\ k <= N /\ ~Upto(k)
        BY <2>1
    <2>4. CASE k = 0
        <3> DEFINE z == [i \in 0 .. 0 |-> buffer]
        <3>1. z = [i \in 0 .. 0 |-> z[i]]
            OBVIOUS
        <3>2. \A i \in 0 .. 0 : z[i] = Rule(z, i)
            OBVIOUS
        <3> HIDE DEF z, Next
        <3> QED BY <2>3, <2>4, <3>1, <3>2
    <2>5. CASE k # 0
        <3>1. k - 1 \in Nat /\ k - 1 < k /\ k - 1 <= N
            BY <2>3, <2>5
        <3>2. Upto(k - 1)
            BY <2>2, <3>1
        <3>3. PICK f : f = [i \in 0 .. k - 1 |-> f[i]] /\ \A i \in 0 .. k - 1 : f[i] = Rule(f, i)
            BY <3>2
        <3> DEFINE last == Copied(f[k - 1], op.current + k - 1, OpenFile.data[op.current + k - 1])
        <3> HIDE DEF last
        <3> DEFINE g == [i \in 0 .. k |-> IF i = k THEN last ELSE f[i]]
        <3>4. g = [i \in 0 .. k |-> g[i]]
            OBVIOUS
        <3>5. g[k] = last /\ \A i \in 0 .. k - 1 : g[i] = f[i]
            BY <3>1
        <3> HIDE DEF g
        <3>6. \A i \in 0 .. k : g[i] = Rule(g, i)
            <4> SUFFICES ASSUME NEW i \in 0 .. k PROVE g[i] = Rule(g, i)
                BY Zenon
            <4>1. CASE i = k
                <5>1. k - 1 \in 0 .. k - 1
                    BY <3>1
                <5>2. g[k - 1] = f[k - 1]
                    BY <3>5, <5>1
                <5> QED BY <2>5, <3>5, <4>1, <5>2 DEF last
            <4>2. CASE i # k /\ i # 0
                <5>1. i \in 0 .. k - 1 /\ i - 1 \in 0 .. k - 1
                    BY <3>1, <4>2
                <5> QED BY <3>3, <3>5, <4>2, <5>1
            <4>3. CASE i = 0
                <5>1. 0 \in 0 .. k - 1
                    BY <3>1
                <5>2. f[0] = buffer /\ g[0] = f[0]
                    BY <3>3, <3>5, <5>1
                <5> QED BY <4>3, <5>2
            <4> QED BY <4>1, <4>2, <4>3
        <3> HIDE DEF Next
        <3> QED BY <2>3, <3>4, <3>6
    <2> QED BY <2>4, <2>5
<1> HIDE DEF Upto
<1>2. Upto(N)
    BY <1>1
<1> USE DEF Upto
<1>3. PICK f : f = [i \in 0 .. N |-> f[i]] /\ \A i \in 0 .. N : f[i] = Rule(f, i)
    BY <1>2
<1>4. f = [i \in 0 .. N |-> Rule(f, i)]
    BY <1>3
<1> QED BY <1>4 DEF Fills

\* What is read from the file that is open is no older than what was announced
\* when the request was made.
FreshFile ==
    \A b \in OpenFile.bits : OpenFile.data[b] \in Numbers /\ OpenFile.data[b] \in op.since .. card[file]

LEMMA FromCacheOK ==
    ASSUME op.req \in InBlocks, op.current \in 0 .. LastBlock, FreshFile,
           NEW buffer, BufferOK(buffer)
    PROVE  /\ BufferOK(FromCache(buffer))
           /\ op.req \in {"bytes", "read"} /\ Present # {} => InPlace(FromCache(buffer))
<1>0. PICK m \in op.current .. LastBlock + 1 :
         Present = op.current .. m - 1 /\ Cardinality(Present) = m - op.current
    BY PresentRun
<1> DEFINE N == m - op.current
           after == CHOOSE f : f = [n \in 0 .. Cardinality(Present) |->
                        IF n = 0 THEN buffer
                        ELSE Copied(f[n - 1], op.current + n - 1, OpenFile.data[op.current + n - 1])]
           Good(k) == /\ BufferOK(after[k])
                      /\ op.req \in {"bytes", "read"} /\ k > 0 => InPlace(after[k])
           Bad == {k \in Nat : k <= N /\ ~Good(k)}
<1>1. LastBlock \in Nat /\ N \in Nat /\ m \in Nat /\ op.current \in Nat
    BY <1>0, BlockFacts
<1>2. FromCache(buffer) = after[N]
    BY <1>0 DEF FromCache
<1>3. Fills(after, buffer)
    <2>1. \E f : Fills(f, buffer)
        BY <1>0, <1>1, FillFunction
    <2>2. after = CHOOSE f : Fills(f, buffer)
        BY DEF Fills
    <2> HIDE DEF after
    <2> QED BY <2>1, <2>2
<1> HIDE DEF after
<1>4. \A n \in 0 .. N : after[n] =
        IF n = 0 THEN buffer
        ELSE Copied(after[n - 1], op.current + n - 1, OpenFile.data[op.current + n - 1])
    BY <1>0, <1>3, Zenon DEF Fills
<1>5. Good(0)
    BY <1>1, <1>4
<1>6. ASSUME NEW k \in 1 .. N, Good(k - 1) PROVE Good(k)
    <2> DEFINE b == op.current + k - 1
               v == OpenFile.data[b]
    <2>1. b \in 0 .. LastBlock /\ b \in op.current .. m - 1 /\ b \in op.current .. b /\ k # 0 /\ k \in 0 .. N
        BY <1>0, <1>1
    <2>2. after[k] = Copied(after[k - 1], b, v)
        BY <1>4, <2>1
    <2>3. b \in OpenFile.bits
        BY <1>0, <2>1 DEF Present
    <2>4. v \in Numbers /\ v \in op.since .. card[file]
        BY <2>3 DEF FreshFile
    <2>5. BufferOK(after[k - 1])
        BY <1>6
    <2> HIDE DEF b, v
    <2> QED BY <2>1, <2>2, <2>4, <2>5, CopiedOK
<1> HIDE DEF Good
<1>7. Bad = {}
    <2> SUFFICES ASSUME Bad # {} PROVE FALSE
        OBVIOUS
    <2>1. PICK k \in Bad : \A j \in Bad : ~(<<j, k>> \in OpToRel(<, Nat))
        BY NatLessThanWellFounded, WFMin, Bad \subseteq Nat
    <2>2. \A j \in Bad : ~(j < k)
        BY <2>1 DEF OpToRel
    <2>3. k \in Nat /\ k <= N /\ ~Good(k)
        BY <2>1
    <2>4. k # 0
        BY <1>5, <2>3
    <2>5. k - 1 \in Nat /\ k - 1 < k /\ k - 1 <= N /\ k \in 1 .. N
        BY <1>1, <2>3, <2>4
    <2>6. Good(k - 1)
        BY <2>2, <2>5
    <2> QED BY <1>6, <2>3, <2>5, <2>6
<1>8. Good(N)
    BY <1>1, <1>7
<1>9. Present # {} => N > 0
    BY <1>0, <1>1
<1> QED BY <1>2, <1>8, <1>9 DEF Good

LEMMA VersionsOK ==
    ASSUME NEW buffer, BufferOK(buffer)
    PROVE  Versions(buffer) \subseteq op.since .. card[file]
<1>1. DOMAIN buffer = 0 .. NumBytes - 1
    BY DEF BufferOK
<1> QED BY <1>1 DEF BufferOK, Versions

-----------------------------------------------------------------------------
(* Steps of the queue.                                                     *)

\* The operation being served.
LEMMA OpFacts ==
    ASSUME IInv, op_q # <<>>
    PROVE  /\ op \in Ops /\ op.req \in AllRequests /\ op.id \in 1 .. asked
           /\ file \in Files /\ op.since <= announced[file] /\ op.since \in Numbers
           /\ announced[file] \in Numbers /\ card[file] \in Numbers /\ announced[file] <= card[file]
           /\ asked \in Nat
           /\ op.current \in 0 .. LastBlock
<1>1. op = op_q[1] /\ op \in Ops /\ 1 \in 1 .. Len(op_q)
    BY QueueFacts DEF IInv, CardOK, op
<1>2. op.id \in 1 .. asked /\ op.since <= announced[file]
    BY <1>1 DEF IInv, QueueOK, file
<1>3. file \in Files
    BY FileOfRequest DEF file
<1>4. /\ announced[file] \in Numbers /\ card[file] \in Numbers /\ announced[file] <= card[file]
      /\ asked \in Nat
    BY <1>3 DEF IInv, CardOK
<1>5. op.since \in Numbers /\ op.req \in AllRequests
    BY <1>1, SimFsAssumption DEF Ops
<1>6. op.current \in 0 .. LastBlock
    BY DEF IInv, StepOK, StepFits
<1> QED BY <1>1, <1>2, <1>3, <1>4, <1>5, <1>6

\* What the cache or the open file has of the operation's file is new enough.
LEMMA OpenIsFresh ==
    ASSUME IInv, op_q # <<>>
    PROVE  FreshFile /\ OpenFile.bits \subseteq DOMAIN OpenFile.data
<1>1. /\ op.since \in Numbers /\ op.since <= announced[file]
      /\ announced[file] \in Numbers /\ card[file] \in Numbers
    BY OpFacts
<1>2. CASE fd = Closed
    BY <1>2 DEF OpenFile, Closed, NoFile, FreshFile
<1>3. CASE fd = Linked /\ file \in Cached /\ cache[file].there
    <2>1. OpenFile = cache[file] /\ FileOK(cache[file], announced[file], card[file])
        BY <1>3 DEF OpenFile, Linked, IInv, CacheOK
    <2>2. IsFile(cache[file]) /\ \A b \in DOMAIN cache[file].data : cache[file].data[b] \in announced[file] .. card[file]
        BY <1>3, <2>1 DEF FileOK, NoFile
    <2> QED BY <1>1, <2>1, <2>2 DEF FreshFile, IsFile, Numbers
<1>4. CASE /\ fd = [state |-> "orphan", file |-> fd.file]
           /\ IsFile(fd.file)
           /\ \A b \in DOMAIN fd.file.data : fd.file.data[b] \in op.since .. card[file]
    <2>1. fd.state = "orphan"
        BY <1>4
    <2>2. OpenFile = fd.file
        BY <2>1 DEF OpenFile
    <2> QED BY <1>4, <2>2 DEF FreshFile, IsFile
<1> QED BY <1>2, <1>3, <1>4 DEF IInv, OpenOK

\* The queue after a callback, and the number of requests.
After(q) == IF Len(q) > Len(op_q) THEN asked + 1 ELSE asked

\* new operations, and those gone from the queue, as the clients see them.
Seen(q, n, gone) ==
    \E new \in Files_!New :
        n = asked + Cardinality(new) /\ Pend(q) = (Pend(op_q) \ gone) \cup new

OfClient(c) == {r \in Pend(op_q) : r.client = c}

LEMMA NewOp ==
    ASSUME IInv, NEW c \in Clients, NEW req \in Requests
    PROVE  /\ Op(c, req) \in Ops /\ Untouched(Op(c, req)) /\ Op(c, req).cb = TRUE
           /\ Op(c, req).id = asked + 1
           /\ Op(c, req).since <= announced[FileOf(Op(c, req).req)]
           /\ {Rec(Op(c, req))} \in Files_!New
           /\ Rec(Op(c, req)).id = asked + 1
           /\ \A S : Cardinality({Rec(Op(c, req))}) = 1
<1>1. FileOf(req) \in Files
    BY FileOfRequest
<1>2. asked \in Nat /\ announced[FileOf(req)] \in Numbers
    BY <1>1 DEF IInv, CardOK
<1>3. <<>> \in Buffers
    BY DEF Buffers
<1>4. Op(c, req) \in Ops
    BY <1>2, <1>3 DEF Op, Ops
<1>5. /\ Untouched(Op(c, req)) /\ Op(c, req).cb = TRUE
      /\ Op(c, req).id = asked + 1 /\ Op(c, req).req = req
      /\ Op(c, req).since = announced[FileOf(req)]
    BY DEF Op, Untouched
<1>6. Rec(Op(c, req)) = [id |-> asked + 1, client |-> c, file |-> FileOf(req),
                         since |-> announced[FileOf(req)]]
    BY DEF Op, Rec
<1>7. {Rec(Op(c, req))} \in Files_!New
    BY <1>1, <1>6 DEF Files_!New, Files_!Request
<1>8. Cardinality({Rec(Op(c, req))}) = 1
    BY FS_Singleton
<1>9. announced[FileOf(req)] <= announced[FileOf(req)]
    BY <1>2 DEF Numbers
<1>10. Rec(Op(c, req)).id = asked + 1
    BY <1>6
<1> QED BY <1>4, <1>5, <1>7, <1>8, <1>9, <1>10

LEMMA NothingNew == {} \in Files_!New /\ Cardinality({}) = 0
BY FS_EmptySet DEF Files_!New

\* A callback leaves a queue whose first operation is the same.
LEMMA ReactionFacts ==
    ASSUME IInv, op_q # <<>>, NEW last \in BOOLEAN, NEW q \in Reactions(op_q, last)
    PROVE  /\ QueueOK(q, After(q), announced) /\ q # <<>>
           /\ After(q) \in 0 .. MaxRequests
           /\ last = FALSE => Head(q) = op /\ Seen(q, After(q), {})
           /\ op.cb = TRUE =>
                \E gone \in {{Rec(op)}, OfClient(op.client)} : Seen(Tail(q), After(q), gone)
<1>0. /\ op \in Ops /\ op.client \in Clients /\ asked \in Nat /\ asked \in 0 .. MaxRequests
      /\ QueueOK(op_q, asked, announced) /\ Len(op_q) \in Nat /\ op = Head(op_q)
      /\ MaxRequests \in Nat
    BY OpFacts, QueueFacts, SimFsAssumption DEF IInv, CardOK, Ops, op
<1>1. CASE q = op_q
    <2>1. After(q) = asked
        BY <1>0, <1>1 DEF After
    <2>2. Seen(q, After(q), {})
        <3>1. Pend(q) = (Pend(op_q) \ {}) \cup {} /\ asked = asked + 0
            BY <1>0, <1>1
        <3> QED BY <2>1, <3>1, NothingNew DEF Seen
    <2>3. Seen(Tail(q), After(q), {Rec(op)})
        <3>1. Pend(Tail(op_q)) = Pend(op_q) \ {Rec(Head(op_q))}
            BY <1>0, PendTail
        <3>2. Pend(Tail(q)) = (Pend(op_q) \ {Rec(op)}) \cup {} /\ asked = asked + 0
            BY <1>0, <1>1, <3>1
        <3> QED BY <2>1, <3>2, NothingNew DEF Seen
    <2> QED BY <1>0, <1>1, <2>1, <2>2, <2>3
<1>2. CASE asked < MaxRequests /\ \E req \in Requests : q = Append(op_q, Op(op.client, req))
    <2>1. PICK req \in Requests : q = Append(op_q, Op(op.client, req))
        BY <1>2
    <2> DEFINE o == Op(op.client, req)
    <2>2. /\ o \in Ops /\ Untouched(o) /\ o.cb = TRUE /\ o.id = asked + 1
          /\ o.since <= announced[FileOf(o.req)]
          /\ {Rec(o)} \in Files_!New /\ Rec(o).id = asked + 1
          /\ Cardinality({Rec(o)}) = 1
        BY <1>0, NewOp
    <2>3. q = Append(op_q, o)
        BY <2>1
    <2> HIDE DEF o
    <2>4. /\ QueueOK(q, asked + 1, announced) /\ q # <<>> /\ Len(q) = Len(op_q) + 1
          /\ Head(q) = op
        BY <1>0, <2>2, <2>3, QueueAppend
    <2>5. After(q) = asked + 1
        BY <1>0, <2>4 DEF After
    <2>6. Pend(q) = Pend(op_q) \cup {Rec(o)}
        BY <1>0, <2>2, <2>3, PendAppend
    <2>7. Seen(q, After(q), {})
        <3>1. Pend(q) = (Pend(op_q) \ {}) \cup {Rec(o)}
            BY <2>6
        <3> QED BY <2>2, <2>5, <3>1 DEF Seen
    <2>8. Seen(Tail(q), After(q), {Rec(op)})
        <3>0. asked + 1 \in Nat
            BY <1>0
        <3>1. Pend(Tail(q)) = Pend(q) \ {Rec(Head(q))}
            BY <2>4, <3>0, PendTail
        <3>2. Rec(o) # Rec(op)
            <4>1. Rec(op).id = op.id /\ op.id \in 1 .. asked
                BY OpFacts DEF Rec
            <4> QED BY <1>0, <2>2, <4>1
        <3>3. Pend(Tail(q)) = (Pend(op_q) \ {Rec(op)}) \cup {Rec(o)}
            BY <2>4, <2>6, <3>1, <3>2
        <3> QED BY <2>2, <2>5, <3>3 DEF Seen
    <2>9. asked + 1 \in 0 .. MaxRequests
        BY <1>0, <1>2
    <2> QED BY <2>4, <2>5, <2>7, <2>8, <2>9
<1>3. CASE last = TRUE /\ q = WithoutClient(op_q, op.client)
    <2>1. /\ QueueOK(q, asked, announced) /\ q # <<>> /\ Len(q) <= Len(op_q)
          /\ Head(q) = [op EXCEPT !.cb = @ /\ op.client # op.client]
        BY <1>0, <1>3, QueueDrop
    <2>2. Len(q) \in Nat
        BY <1>0, <2>1, QueueFacts
    <2>3. After(q) = asked
        BY <1>0, <2>1, <2>2 DEF After
    <2>4. Head(q).cb = FALSE
        BY <1>0, <2>1 DEF Ops
    <2>5. Pend(Tail(q)) = Pend(q)
        BY <1>0, <2>1, <2>4, PendTail
    <2>6. Pend(q) = Pend(op_q) \ OfClient(op.client)
        BY <1>0, <1>3, PendDrop DEF OfClient
    <2>7. Seen(Tail(q), After(q), OfClient(op.client))
        <3>1. Pend(Tail(q)) = (Pend(op_q) \ OfClient(op.client)) \cup {} /\ asked = asked + 0
            BY <1>0, <2>5, <2>6
        <3> QED BY <2>3, <3>1, NothingNew DEF Seen
    <2> QED BY <1>0, <1>3, <2>1, <2>3, <2>7
<1>4. \/ q = op_q
      \/ asked < MaxRequests /\ \E req \in Requests : q = Append(op_q, Op(op.client, req))
      \/ last = TRUE /\ q = WithoutClient(op_q, op.client)
    BY DEF Reactions
<1> QED BY <1>1, <1>2, <1>3, <1>4

\* What the clients hear when the operation tells got, or cannot any more.
Heard(got) ==
    IF op.cb
    THEN /\ told'.id = op.id /\ told'.got = got
         /\ \E gone \in {{}, {Rec(op)}, OfClient(op.client)} : Seen(op_q', asked', gone)
    ELSE told' = Nothing /\ asked' = asked /\ Pend(op_q') = Pend(op_q)

LEMMA LastBlockNat == LastBlock' \in Nat
<1>1. (BLOCK - 1) \div BLOCK = 0 /\ (Length - 1) \div BLOCK \in Nat
    BY SimFsAssumption
<1>2. /\ op'.req = "bytes" => Offset' = 1 /\ NumBytes' = BLOCK - 1
      /\ op'.req # "bytes" => Offset' = 0
      /\ op'.req = "read" => NumBytes' = BLOCK
      /\ op'.req \notin {"bytes", "read"} => NumBytes' = Length
    BY DEF Offset, NumBytes
<1>3. /\ op'.req = "records" => LastBlock' = Records - 1
      /\ op'.req \in {"bytes", "read"} => LastBlock' = (BLOCK - 1) \div BLOCK
      /\ op'.req \notin {"records", "bytes", "read"} => LastBlock' = (Length - 1) \div BLOCK
    BY <1>2, SimFsAssumption DEF LastBlock
<1> QED BY <1>1, <1>3, SimFsAssumption

LEMMA Ended ==
    ASSUME IInv, op_q # <<>>, NEW q, NEW n, QueueOK(q, n, announced), q # <<>>, n \in Nat,
           end_current(q), call' = NoCall
    PROVE  QueueOK(op_q', n, announced) /\ StepOK' /\ fd' = Closed
<1>1. /\ QueueOK(op_q', n, announced)
      /\ op_q' # <<>> <=> Len(q) > 1
      /\ op_q' # <<>> => Untouched(op')
    BY QueueTail DEF end_current, op
<1>2. /\ op_source' = (IF Len(q) > 1 THEN "next" ELSE "none")
      /\ fd' = Closed
    BY DEF end_current
<1>3. LastBlock' \in Nat
    BY LastBlockNat
<1>4. call'.what = "none" /\ call' \in [what : {"none", "info", "block", "record", "write"},
                 served : {"no", "ok", "error"}, version : Numbers]
    BY SimFsAssumption DEF NoCall, Numbers
<1>5. StepFits'
    <2> SUFFICES ASSUME (op_q # <<>>)' PROVE
            /\ op'.current \in 0 .. LastBlock'
            /\ op'.current = 0
            /\ op_source' = "next" /\ call'.what = "none"
        BY DEF StepFits
    <2> QED BY <1>1, <1>2, <1>3, <1>4 DEF Untouched
<1>6. StepOK'
    BY <1>1, <1>2, <1>4, <1>5 DEF StepOK
<1> QED BY <1>1, <1>2, <1>6

\* An operation has ended, with its last callback or without.
LEMMA Finished ==
    ASSUME IInv, op_q # <<>>, NEW got, NEW bytes, Finish(got, bytes), call' = NoCall
    PROVE  /\ QueueOK(op_q', asked', announced) /\ asked' \in 0 .. MaxRequests
           /\ StepOK' /\ fd' = Closed
           /\ Heard(got)
           /\ told' = Nothing \/ told' = [id |-> op.id, req |-> op.req, got |-> got, bytes |-> bytes]
<1>1. op \in Ops /\ op.cb \in BOOLEAN /\ asked \in Nat /\ asked \in 0 .. MaxRequests
      /\ QueueOK(op_q, asked, announced) /\ op = Head(op_q)
    BY OpFacts DEF Ops, IInv, CardOK, op
<1>2. CASE op.cb = TRUE
    <2>1. PICK q \in Reactions(op_q, TRUE) : end_current(q) /\ Asked(q)
        BY <1>2 DEF Finish
    <2>2. told' = [id |-> op.id, req |-> op.req, got |-> got, bytes |-> bytes]
        BY <1>2 DEF Finish, Tells
    <2>3. /\ QueueOK(q, After(q), announced) /\ q # <<>>
          /\ After(q) \in 0 .. MaxRequests
          /\ \E gone \in {{Rec(op)}, OfClient(op.client)} : Seen(Tail(q), After(q), gone)
        BY <1>2, <2>1, ReactionFacts
    <2>4. asked' = After(q) /\ op_q' = Tail(q)
        BY <2>1 DEF Asked, After, end_current
    <2>5. After(q) \in Nat
        BY <2>3
    <2>6. QueueOK(op_q', asked', announced) /\ StepOK' /\ fd' = Closed
        BY <2>1, <2>3, <2>4, <2>5, Ended
    <2>7. \E gone \in {{}, {Rec(op)}, OfClient(op.client)} : Seen(op_q', asked', gone)
        BY <2>3, <2>4
    <2>8. Heard(got)
        BY <1>2, <2>2, <2>7 DEF Heard
    <2> QED BY <2>2, <2>3, <2>4, <2>6, <2>8
<1>3. CASE op.cb = FALSE
    <2>1. end_current(op_q) /\ told' = Nothing /\ asked' = asked
        BY <1>3 DEF Finish
    <2>2. QueueOK(op_q', asked', announced) /\ StepOK' /\ fd' = Closed
        BY <1>1, <2>1, Ended
    <2>3. Pend(op_q') = Pend(op_q)
        BY <1>1, <1>3, <2>1, PendTail DEF end_current
    <2>4. Heard(got)
        BY <1>3, <2>1, <2>3 DEF Heard
    <2> QED BY <1>1, <2>1, <2>2, <2>4
<1> QED BY <1>1, <1>2, <1>3

\* An operation that goes on as o.
LEMMA WentOn ==
    ASSUME IInv, op_q # <<>>, NEW o \in Ops, NEW source, GoOn(o, source),
           Rec(o) = Rec(op), o.cb = op.cb, o.req = op.req
    PROVE  /\ QueueOK(op_q', asked', announced) /\ asked' = asked /\ asked' \in 0 .. MaxRequests
           /\ op_q' # <<>> /\ op' = o /\ op_source' = source
           /\ told' = Nothing /\ Pend(op_q') = Pend(op_q)
<1>1. /\ asked \in Nat /\ asked \in 0 .. MaxRequests
      /\ QueueOK(op_q, asked, announced) /\ op = Head(op_q)
    BY OpFacts DEF IInv, CardOK, op
<1>2. op_q' = <<o>> \o Tail(op_q) /\ op_source' = source /\ told' = Nothing /\ asked' = asked
    BY DEF GoOn
<1>3. o.id = op.id /\ o.since = op.since
    BY DEF Rec
<1>4. QueueOK(op_q', asked, announced) /\ op_q' # <<>> /\ Head(op_q') = o
    BY <1>1, <1>2, <1>3, QueueGoOn
<1>5. Pend(op_q') = Pend(op_q)
    BY <1>1, <1>2, PendGoOn
<1> QED BY <1>1, <1>2, <1>4, <1>5 DEF op

-----------------------------------------------------------------------------
(* Steps of the files.                                                     *)

\* The first operation stays as it is.
LEMMA SameOp ==
    ASSUME op'.req = op.req, op'.since = op.since, card[file] \in Int, card'[file] \in Int,
           card[file] <= card'[file], op.since \in Int
    PROVE  /\ file' = file /\ LastBlock' = LastBlock /\ NumBytes' = NumBytes
           /\ \A buffer : BufferOK(buffer) => BufferOK(buffer)'
<1>1. file' = file
    BY DEF file
<1>2. NumBytes' = NumBytes /\ Offset' = Offset
    BY DEF NumBytes, Offset
<1>3. LastBlock' = LastBlock
    BY <1>2 DEF LastBlock
<1>4. ASSUME NEW buffer, BufferOK(buffer) PROVE BufferOK(buffer)'
    <2>1. /\ buffer \in [0 .. NumBytes - 1 -> Bytes]
          /\ \A i \in 0 .. NumBytes - 1 :
                buffer[i].at >= 0 => buffer[i].version \in op.since .. card[file]
        BY <1>4 DEF BufferOK
    <2>2. op.since .. card[file] \subseteq op.since .. card'[file]
        OBVIOUS
    <2> QED BY <1>1, <1>2, <2>1, <2>2 DEF BufferOK
<1> QED BY <1>1, <1>2, <1>3, <1>4

LEMMA StillFits ==
    ASSUME IInv, op_q # <<>>, op'.req = op.req, op'.since = op.since,
           op'.current = op.current, op'.buffer = op.buffer,
           card'[file] \in Int, card[file] <= card'[file],
           op_source' = op_source, call'.what = call.what
    PROVE  StepFits' /\ file' = file
<1>1. op.since \in Int /\ card[file] \in Int
    BY OpFacts DEF Numbers
<1>2. /\ file' = file /\ LastBlock' = LastBlock
      /\ \A buffer : BufferOK(buffer) => BufferOK(buffer)'
    BY <1>1, SameOp
<1>3. BufferOK(op.buffer) => BufferOK(op.buffer)'
    <2> DEFINE b == op.buffer
    <2>1. BufferOK(op.buffer) => \A x : x = op.buffer => BufferOK(x)'
        BY <1>2
    <2>2. op'.buffer = op.buffer
        OBVIOUS
    <2> QED BY <2>1, <2>2 DEF BufferOK
<1>4. StepFits
    BY DEF IInv, StepOK
<1> QED BY <1>2, <1>3, <1>4 DEF StepFits

\* A file on disk, with what has been announced of it, what the card holds, and
\* whether a change is still to be announced.
FileRight(c, from, to, late) ==
    /\ FileOK(c, from, to)
    /\ c.there /\ ~late =>
         c.header = to /\ \A b \in c.bits : b \in DOMAIN c.data /\ c.data[b] = to

Late == notices \cup missed

LEMMA FilesRight ==
    /\ CacheOK /\ CacheTruth <=>
         /\ cache = [f \in Cached |-> cache[f]]
         /\ \A f \in Cached : FileRight(cache[f], announced[f], card[f], f \in Late)
    /\ CacheOK' /\ CacheTruth' <=>
         /\ cache' = [f \in Cached |-> cache'[f]]
         /\ \A f \in Cached : FileRight(cache'[f], announced'[f], card'[f], f \in Late')
BY DEF CacheOK, CacheTruth, FileRight, Late

LEMMA CachedFiles == Cached \subseteq Files
BY DEF Files, Cached

\* Nothing is written while the card changes, announces or is left.
LEMMA FilesKept ==
    ASSUME IInv, UNCHANGED cache,
           \A f \in Cached : /\ announced'[f] = announced[f]
                             /\ card'[f] \in Numbers /\ card[f] <= card'[f]
                             /\ card'[f] = card[f] \/ f \in Late',
           Late \subseteq Late'
    PROVE  CacheOK' /\ CacheTruth'
<1> SUFFICES ASSUME NEW f \in Cached
             PROVE  FileRight(cache'[f], announced'[f], card'[f], f \in Late')
    BY FilesRight DEF IInv
<1>1. FileRight(cache[f], announced[f], card[f], f \in Late)
    BY FilesRight DEF IInv
<1>2. /\ announced[f] \in Numbers /\ card[f] \in Numbers
      /\ announced'[f] = announced[f] /\ card'[f] \in Numbers /\ card[f] <= card'[f]
    BY CachedFiles DEF IInv, CardOK
<1>3. announced[f] .. card[f] \subseteq announced'[f] .. card'[f]
    BY <1>2 DEF Numbers
<1>4. FileOK(cache'[f], announced'[f], card'[f])
    BY <1>1, <1>3 DEF FileRight, FileOK
<1> QED BY <1>1, <1>4 DEF FileRight

\* One file is written.
LEMMA FileWritten ==
    ASSUME IInv, NEW g \in Cached, NEW c, cache' = [cache EXCEPT ![g] = c],
           UNCHANGED <<announced, card>>, Late \subseteq Late',
           FileRight(c, announced[g], card[g], g \in Late)
    PROVE  CacheOK' /\ CacheTruth' /\ cache'[g] = c
<1>1. /\ cache = [f \in Cached |-> cache[f]]
      /\ \A f \in Cached : FileRight(cache[f], announced[f], card[f], f \in Late)
    BY FilesRight DEF IInv
<1>2. cache' = [f \in Cached |-> IF f = g THEN c ELSE cache[f]]
    BY <1>1
<1>3. \A f \in Cached : cache'[f] = IF f = g THEN c ELSE cache[f]
    BY <1>2
<1>4. \A f \in Cached : FileRight(cache'[f], announced'[f], card'[f], f \in Late)
    BY <1>1, <1>3
<1>5. \A f \in Cached : FileRight(cache'[f], announced'[f], card'[f], f \in Late')
    BY <1>4 DEF FileRight
<1>6. cache' = [f \in Cached |-> cache'[f]]
    BY <1>2, <1>3
<1> QED BY <1>3, <1>5, <1>6, FilesRight

\* What the card answered may be written.
LEMMA AnswerIsRight ==
    ASSUME IInv, op_q # <<>>, call.served = "ok", call.what \in {"info", "block", "record"}
    PROVE  /\ call.version \in announced[file] .. card[file] /\ call.version \in Numbers
           /\ file \notin Late => call.version = card[file]
           /\ call.version \in op.since .. card[file]
<1>1. /\ op.since <= announced[file] /\ op.since \in Numbers
      /\ announced[file] \in Numbers /\ card[file] \in Numbers
    BY OpFacts
<1>2. /\ call.version \in announced[file] .. card[file] /\ call.version \in Numbers
      /\ call.version = card[file] \/ file \in notices
    BY DEF IInv, AnswerOK, StepOK
<1> QED BY <1>1, <1>2 DEF Late, Numbers

LEMMA HeaderWritten ==
    ASSUME IInv, op_q # <<>>, file \in Cached, call.served = "ok",
           call.what \in {"info", "block", "record"},
           cache' = [cache EXCEPT ![file] = Header(call.version)],
           UNCHANGED <<announced, card>>, Late \subseteq Late'
    PROVE  CacheOK' /\ CacheTruth' /\ cache'[file].there = TRUE
<1> DEFINE c == Header(call.version)
<1>1. /\ call.version \in announced[file] .. card[file] /\ call.version \in Numbers
      /\ file \notin Late => call.version = card[file]
    BY AnswerIsRight
<1>2. /\ c.there = TRUE /\ c.header = call.version /\ c.bits = {}
      /\ c = [there |-> TRUE, header |-> c.header, bits |-> c.bits, data |-> c.data]
      /\ DOMAIN c.data = {}
    BY DEF Header
<1> HIDE DEF c
<1>3. FileOK(c, announced[file], card[file])
    BY <1>1, <1>2 DEF FileOK, IsFile
<1>4. FileRight(c, announced[file], card[file], file \in Late)
    BY <1>1, <1>2, <1>3 DEF FileRight
<1>5. cache' = [cache EXCEPT ![file] = c]
    BY DEF c
<1> QED BY <1>2, <1>4, <1>5, FileWritten

\* The two writes of cache_block, each in a field of the file.
LEMMA FieldsWritten ==
    ASSUME NEW c, NEW x, NEW h, NEW s, NEW t,
           c = [there |-> x, header |-> h, bits |-> s, data |-> t], NEW u
    PROVE  /\ [c EXCEPT !.data = u] = [there |-> x, header |-> h, bits |-> s, data |-> u]
           /\ [c EXCEPT !.bits = u] = [there |-> x, header |-> h, bits |-> u, data |-> t]
<1>1. [c EXCEPT !.data = u] = [there |-> x, header |-> h, bits |-> s, data |-> u]
    OBVIOUS
<1>2. [c EXCEPT !.bits = u] = [there |-> x, header |-> h, bits |-> u, data |-> t]
    OBVIOUS
<1> QED BY <1>1, <1>2

LEMMA DataWritten ==
    ASSUME NEW c, NEW from \in Int, NEW to \in Int, NEW late \in BOOLEAN, FileRight(c, from, to, late), c.there,
           NEW b, NEW v \in Numbers, v \in from .. to, ~late => v = to
    PROVE  /\ FileRight(WriteData(c, b, v), from, to, late)
           /\ FileRight(WriteBit(WriteData(c, b, v), b), from, to, late)
           /\ WriteData(c, b, v).there /\ WriteBit(WriteData(c, b, v), b).there
<1> DEFINE data == [x \in DOMAIN c.data \cup {b} |-> IF x = b THEN v ELSE c.data[x]]
           d == WriteData(c, b, v)
           e == WriteBit(d, b)
<1>1. /\ IsFile(c)
      /\ c = [there |-> TRUE, header |-> c.header, bits |-> c.bits, data |-> c.data]
      /\ c.header \in from .. to
      /\ \A x \in DOMAIN c.data : c.data[x] \in from .. to
    BY DEF FileRight, FileOK, NoFile
<1>2. d = [there |-> TRUE, header |-> c.header, bits |-> c.bits, data |-> data]
    <2>1. d = [c EXCEPT !.data = data]
        BY DEF WriteData
    <2> HIDE DEF data, d
    <2> QED BY <1>1, <2>1, FieldsWritten
<1>3. e = [there |-> TRUE, header |-> c.header, bits |-> c.bits \cup {b}, data |-> data]
    <2> DEFINE bits == c.bits \cup {b}
    <2> HIDE DEF data, d
    <2>1. d = [there |-> TRUE, header |-> d.header, bits |-> d.bits, data |-> d.data]
          /\ d.header = c.header /\ d.bits = c.bits /\ d.data = data
        BY <1>2
    <2>2. e = [d EXCEPT !.bits = bits]
        BY <2>1 DEF WriteBit
    <2> HIDE DEF bits, e
    <2>3. e = [there |-> TRUE, header |-> d.header, bits |-> bits, data |-> d.data]
        <3> DEFINE x == TRUE
        <3>1. d = [there |-> x, header |-> c.header, bits |-> c.bits, data |-> data]
            BY <1>2
        <3> HIDE DEF x
        <3>2. [d EXCEPT !.bits = bits] = [there |-> x, header |-> c.header, bits |-> bits, data |-> data]
            BY <3>1, FieldsWritten
        <3> QED BY <2>1, <2>2, <3>2 DEF x
    <2> QED BY <2>1, <2>3 DEF bits
<1>4. /\ DOMAIN data = DOMAIN c.data \cup {b} /\ data[b] = v
      /\ \A x \in DOMAIN c.data : x # b => data[x] = c.data[x]
    OBVIOUS
<1> HIDE DEF data, d, e
<1>5. \A x \in DOMAIN data : data[x] \in from .. to /\ data[x] \in Numbers
    BY <1>1, <1>4 DEF IsFile
<1>6. c.header \in Numbers /\ c.bits \subseteq DOMAIN c.data
    BY <1>1 DEF IsFile
<1>7. ~late => c.header = to /\ \A x \in c.bits \cup {b} : x \in DOMAIN data /\ data[x] = to
    <2> SUFFICES ASSUME ~late PROVE c.header = to /\ \A x \in c.bits \cup {b} : x \in DOMAIN data /\ data[x] = to
        OBVIOUS
    <2>1. c.header = to /\ \A x \in c.bits : x \in DOMAIN c.data /\ c.data[x] = to
        BY DEF FileRight
    <2> QED BY <1>4, <2>1
<1>8. FileRight(d, from, to, late) /\ d.there
    <2>1. /\ d.there = TRUE /\ d.header = c.header /\ d.bits = c.bits /\ d.data = data
          /\ d = [there |-> TRUE, header |-> d.header, bits |-> d.bits, data |-> d.data]
        BY <1>2
    <2>2. FileOK(d, from, to)
        BY <1>1, <1>4, <1>5, <1>6, <2>1 DEF FileOK, IsFile
    <2> QED BY <1>7, <2>1, <2>2 DEF FileRight
<1>9. FileRight(e, from, to, late) /\ e.there
    <2>1. /\ e.there = TRUE /\ e.header = c.header /\ e.bits = c.bits \cup {b} /\ e.data = data
          /\ e = [there |-> TRUE, header |-> e.header, bits |-> e.bits, data |-> e.data]
        BY <1>3
    <2>2. FileOK(e, from, to)
        BY <1>1, <1>4, <1>5, <1>6, <2>1 DEF FileOK, IsFile
    <2> QED BY <1>7, <2>1, <2>2 DEF FileRight
<1> QED BY <1>8, <1>9 DEF d, e

\* A block is written, in full or in part, or not.
LEMMA BlockWritten ==
    ASSUME IInv, op_q # <<>>, call.served = "ok", call.what \in {"info", "block", "record"},
           NEW b, cache_block(b, call.version) \/ (fd.state = "linked" /\ Writes(FirstWrite(OpenFile, b, call.version))),
           UNCHANGED <<announced, card>>, Late \subseteq Late'
    PROVE  CacheOK' /\ CacheTruth' /\ (fd = Linked => cache'[file].there)
<1>1. /\ call.version \in announced[file] .. card[file] /\ call.version \in Numbers
      /\ file \notin Late => call.version = card[file]
      /\ announced[file] \in Int /\ card[file] \in Int
    BY AnswerIsRight, OpFacts DEF Numbers
<1>2. CASE UNCHANGED cache
    <2>1. \A f \in Cached : card'[f] \in Numbers /\ card[f] <= card'[f] /\ card'[f] = card[f]
        BY CachedFiles DEF IInv, CardOK, Numbers
    <2>2. CacheOK' /\ CacheTruth'
        BY <1>2, <2>1, FilesKept
    <2>3. fd = Linked => cache[file].there
        BY DEF IInv, OpenOK, Linked, Closed
    <2> QED BY <1>2, <2>2, <2>3
<1>3. CASE /\ fd.state = "linked"
           /\ \/ cache' = [cache EXCEPT ![file] = WriteData(cache[file], b, call.version)]
              \/ cache' = [cache EXCEPT ![file] = WriteBit(WriteData(cache[file], b, call.version), b)]
    <2>1. file \in Cached /\ cache[file].there
        BY <1>3 DEF IInv, OpenOK, Closed
    <2>2. FileRight(cache[file], announced[file], card[file], file \in Late)
        BY <2>1, FilesRight DEF IInv
    <2> DEFINE d == WriteData(cache[file], b, call.version)
               e == WriteBit(d, b)
    <2>3. /\ FileRight(d, announced[file], card[file], file \in Late)
          /\ FileRight(e, announced[file], card[file], file \in Late)
          /\ d.there /\ e.there
        <3> DEFINE late == file \in Late
        <3>1. late \in BOOLEAN /\ (~late => call.version = card[file])
            BY <1>1
        <3>2. FileRight(cache[file], announced[file], card[file], late)
            BY <2>2
        <3> HIDE DEF late
        <3>3. /\ FileRight(d, announced[file], card[file], late)
              /\ FileRight(e, announced[file], card[file], late)
              /\ d.there /\ e.there
            BY <1>1, <2>1, <3>1, <3>2, DataWritten
        <3> QED BY <3>3 DEF late
    <2>4. cache' = [cache EXCEPT ![file] = d] \/ cache' = [cache EXCEPT ![file] = e]
        BY <1>3
    <2> HIDE DEF d, e
    <2>5. CASE cache' = [cache EXCEPT ![file] = d]
        BY <2>1, <2>3, <2>5, FileWritten
    <2>6. CASE cache' = [cache EXCEPT ![file] = e]
        BY <2>1, <2>3, <2>6, FileWritten
    <2> QED BY <2>4, <2>5, <2>6
<1> QED BY <1>2, <1>3 DEF cache_block, Writes, OpenFile, FirstWrite, SecondWrite

-----------------------------------------------------------------------------
(* The pieces of a step.                                                   *)

LEMMA CardKept ==
    ASSUME IInv, UNCHANGED <<env, announced>>, asked' \in 0 .. MaxRequests
    PROVE  CardOK'
BY DEF IInv, CardOK, env

LEMMA CacheKept ==
    ASSUME IInv, UNCHANGED <<cache, announced, env>>
    PROVE  CacheOK' /\ CacheTruth' /\ \A f \in Cached : cache'[f] = cache[f]
<1>1. \A f \in Cached : /\ announced'[f] = announced[f]
                        /\ card'[f] \in Numbers /\ card[f] <= card'[f]
                        /\ card'[f] = card[f]
    BY CachedFiles DEF IInv, CardOK, Numbers, env
<1>2. Late \subseteq Late'
    BY DEF Late, env
<1> QED BY <1>1, <1>2, FilesKept DEF env

LEMMA NoAnswer ==
    ASSUME call'.served = "no"
    PROVE  AnswerOK'
BY DEF AnswerOK

LEMMA NotOpen ==
    ASSUME fd' = Closed
    PROVE  OpenOK'
BY DEF OpenOK

LEMMA NowOpen ==
    ASSUME fd' = Linked, op_q' # <<>>, file' \in Cached, cache'[file'].there
    PROVE  OpenOK'
BY DEF OpenOK

LEMMA StillOpen ==
    ASSUME IInv, op_q # <<>>, fd' = fd, op_q' # <<>>, file' = file, op'.since = op.since,
           card'[file] \in Int, card[file] <= card'[file],
           fd = Linked => cache'[file].there
    PROVE  OpenOK'
<1>1. op.since \in Int /\ card[file] \in Int
    BY OpFacts DEF Numbers
<1>2. op.since .. card[file] \subseteq op'.since .. card'[file']
    BY <1>1
<1>3. CASE fd = Closed
    BY <1>3, NotOpen
<1>4. CASE fd = Linked /\ file \in Cached
    BY <1>4, NowOpen
<1>5. CASE /\ fd = [state |-> "orphan", file |-> fd.file] /\ file \in Cached
           /\ IsFile(fd.file)
           /\ \A b \in DOMAIN fd.file.data : fd.file.data[b] \in op.since .. card[file]
    <2>1. /\ fd' = [state |-> "orphan", file |-> fd'.file]
          /\ op_q' # <<>> /\ file' \in Cached
          /\ IsFile(fd'.file)
        BY <1>5
    <2>2. \A b \in DOMAIN fd'.file.data : fd'.file.data[b] \in op'.since .. card'[file']
        BY <1>2, <1>5
    <2> QED BY <2>1, <2>2 DEF OpenOK
<1> QED BY <1>3, <1>4, <1>5 DEF IInv, OpenOK

LEMMA Forgotten ==
    ASSUME told' = Nothing
    PROVE  ReadInPlace'
BY DEF ReadInPlace, Nothing

LEMMA ToldInPlace ==
    ASSUME NEW got, NEW bytes,
           told' = [id |-> op.id, req |-> op.req, got |-> got, bytes |-> bytes],
           bytes = <<>> \/ (/\ DOMAIN bytes = 0 .. NumBytes - 1
                            /\ op.req \in {"bytes", "read"} => InPlace(bytes))
    PROVE  ReadInPlace'
<1>1. told'.bytes = bytes /\ told'.req = op.req
    OBVIOUS
<1> QED BY <1>1 DEF ReadInPlace, InPlace

-----------------------------------------------------------------------------
(* Steps of SimFiles.                                                      *)

LEMMA SameCardinality == \A S : Files_!Cardinality(S) = Cardinality(S)
BY DEF Files_!Cardinality, Cardinality

\* What the queue is to the clients.
LEMMA PendingIs ==
    /\ {[id |-> op_q[i].id, client |-> op_q[i].client, file |-> FileOf(op_q[i].req),
         since |-> op_q[i].since] : i \in {j \in DOMAIN op_q : op_q[j].cb}} = Pend(op_q)
    /\ {[id |-> op_q'[i].id, client |-> op_q'[i].client, file |-> FileOf(op_q'[i].req),
         since |-> op_q'[i].since] : i \in {j \in DOMAIN op_q' : op_q'[j].cb}} = Pend(op_q')
BY DEF Pend, Rec

LEMMA QuietStep ==
    ASSUME told' = Nothing, UNCHANGED <<card, announced, asked>>, Pend(op_q') = Pend(op_q)
    PROVE  Files_!Next
<1>1. /\ [id |-> told'.id, got |-> told'.got] = [id |-> 0, got |-> {}]
      /\ Pend(op_q') = Pend(op_q) \ {}
    BY DEF Nothing
<1>2. Files_!Drop({})
    BY <1>1, PendingIs DEF Files_!Drop, Files_!Nothing
<1> QED BY <1>2 DEF Files_!Next

\* The answer to a request; that of a write may announce what was written.
LEMMA ToldStep ==
    ASSUME IInv, op_q # <<>>, op.cb = TRUE, NEW got, Heard(got), got \subseteq op.since .. card[file],
           UNCHANGED card, announced' \in {announced, [announced EXCEPT ![file] = card[file]]}
    PROVE  Files_!Next
<1>1. PICK gone \in {{}, {Rec(op)}, OfClient(op.client)}, new \in Files_!New :
         /\ told'.id = op.id /\ told'.got = got
         /\ asked' = asked + Cardinality(new) /\ Pend(op_q') = (Pend(op_q) \ gone) \cup new
    BY DEF Heard, Seen
<1>2. op = Head(op_q) /\ asked \in Nat /\ QueueOK(op_q, asked, announced)
    BY DEF IInv, CardOK, op
<1>3. \A r \in Pend(op_q) : op.id <= r.id
    BY <1>2, PendOrder
<1>4. Rec(op) \in Pend(op_q)
    BY <1>2, PendTail
<1>5. /\ Rec(op).id = op.id /\ Rec(op).client = op.client /\ Rec(op).since = op.since
      /\ Rec(op).file = file
    BY DEF Rec, file
<1>6. Files_!Tell(Rec(op), got, new, gone)
    <2>1. [id |-> told'.id, got |-> told'.got] = [id |-> Rec(op).id, got |-> got]
        BY <1>1, <1>5
    <2>2. \A r \in Pend(op_q) : Rec(op).id <= r.id
        BY <1>5, <1>3
    <2> DEFINE P == {[id |-> op_q[i].id, client |-> op_q[i].client, file |-> FileOf(op_q[i].req),
                      since |-> op_q[i].since] : i \in {j \in DOMAIN op_q : op_q[j].cb}}
               Q == {[id |-> op_q'[i].id, client |-> op_q'[i].client, file |-> FileOf(op_q'[i].req),
                      since |-> op_q'[i].since] : i \in {j \in DOMAIN op_q' : op_q'[j].cb}}
    <2>3. P = Pend(op_q) /\ Q = Pend(op_q')
        BY PendingIs
    <2>4. /\ \A r \in P : Rec(op).id <= r.id
          /\ Q = (P \ gone) \cup new
        BY <1>1, <2>2, <2>3
    <2>5. /\ asked' = asked + Files_!Cardinality(new)
          /\ announced' \in {announced, [announced EXCEPT ![Rec(op).file] = card[Rec(op).file]]}
          /\ card' = card
        BY <1>1, <1>5, SameCardinality
    <2>6. [id |-> told.id, got |-> told.got]' = [id |-> Rec(op).id, got |-> got]
        BY <2>1
    <2> QED BY <2>4, <2>5, <2>6 DEF Files_!Tell
<1>7. gone \in {{}, {Rec(op)}, Files_!Of(Rec(op).client)}
    BY <1>1, <1>5, PendingIs DEF Files_!Of, OfClient
<1>8. got \subseteq Rec(op).since .. card[Rec(op).file]
    BY <1>5
<1>9. \E oldest \in Pend(op_q), n \in Files_!New :
         \E g \in SUBSET (oldest.since .. card[oldest.file]),
            x \in {{}, {oldest}, Files_!Of(oldest.client)} : Files_!Tell(oldest, g, n, x)
    BY <1>4, <1>6, <1>7, <1>8
<1> QED BY <1>9, PendingIs DEF Files_!Next

LEMMA HeardStep ==
    ASSUME IInv, op_q # <<>>, NEW got, Heard(got), op.cb => got \subseteq op.since .. card[file],
           UNCHANGED <<card, announced>>
    PROVE  Files_!Next
<1>1. CASE op.cb = TRUE
    BY <1>1, ToldStep
<1>2. CASE op.cb = FALSE
    BY <1>2, QuietStep DEF Heard
<1> QED BY <1>1, <1>2, OpFacts DEF Ops

-----------------------------------------------------------------------------
(* An operation that ends, and one that goes on: the invariant, and what   *)
(* the clients see of it.                                                  *)

LEMMA EndedWell ==
    ASSUME IInv, op_q # <<>>, NEW got, NEW bytes, Finish(got, bytes), call' = NoCall,
           UNCHANGED <<announced, env>>, CacheOK', CacheTruth',
           op.cb => got \subseteq op.since .. card[file],
           bytes = <<>> \/ (/\ DOMAIN bytes = 0 .. NumBytes - 1
                            /\ op.req \in {"bytes", "read"} => InPlace(bytes))
    PROVE  IInv' /\ Files_!Next
<1>1. /\ QueueOK(op_q', asked', announced) /\ asked' \in 0 .. MaxRequests
      /\ StepOK' /\ fd' = Closed
      /\ Heard(got)
      /\ told' = Nothing \/ told' = [id |-> op.id, req |-> op.req, got |-> got, bytes |-> bytes]
    BY Finished
<1>2. QueueOK(op_q', asked', announced')
    BY <1>1
<1>3. CardOK' /\ AnswerOK' /\ OpenOK'
    BY <1>1, CardKept, NoAnswer, NotOpen DEF NoCall
<1>4. ReadInPlace'
    BY <1>1, Forgotten, ToldInPlace
<1>5. IInv'
    BY <1>1, <1>2, <1>3, <1>4 DEF IInv
<1>6. Files_!Next
    BY <1>1, HeardStep DEF env
<1> QED BY <1>5, <1>6

\* The operation o, its next step and the driver's call fit together.
Fits(o, source, what) ==
    /\ o.current \in 0 .. LastBlock
    /\ source \in {"none", "block", "record"} /\ what \in {"none", "info", "block", "record", "write"}
    /\ source = "none" \/ what = "none"
    /\ source # "none" \/ what # "none"
    /\ what \in {"info", "write"} => o.current = 0
    /\ source = "record" \/ what = "record" => o.req = "records"
    /\ source = "block" \/ what = "block" => o.req \in InBlocks
    /\ what = "write" => o.req = "write"
    /\ what = "info" => o.req # "write"
    /\ what = "block" \/ (source = "block" /\ o.current > 0) => BufferOK(o.buffer)

LEMMA NextFits ==
    ASSUME IInv, op_q # <<>>, op_q' # <<>>, NEW source, NEW what, op'.req = op.req, op'.since = op.since,
           Fits(op', source, what), op_source' = source,
           call' = [what |-> what, served |-> "no", version |-> 0], UNCHANGED card
    PROVE  StepOK' /\ file' = file /\ AnswerOK'
<1>1. op.since \in Int /\ card[file] \in Int /\ card[file] <= card'[file]
    BY OpFacts DEF Numbers
<1>2. /\ file' = file /\ LastBlock' = LastBlock
      /\ \A buffer : BufferOK(buffer) => BufferOK(buffer)'
    BY <1>1, SameOp
<1>3. BufferOK(op'.buffer) => \A x : x = op'.buffer => BufferOK(x)'
    BY <1>2
<1>4. BufferOK(op'.buffer) => BufferOK(op.buffer)'
    BY <1>3 DEF BufferOK
<1>5. /\ call'.what = what /\ call'.served = "no" /\ call'.version = 0
      /\ what = "none" => call' = NoCall
    BY DEF NoCall
<1>6. call' \in [what : {"none", "info", "block", "record", "write"},
                 served : {"no", "ok", "error"}, version : Numbers]
    BY SimFsAssumption DEF Fits, Numbers
<1>7. StepFits'
    BY <1>2, <1>4, <1>5 DEF StepFits, Fits
<1>8. StepOK'
    BY <1>5, <1>6, <1>7 DEF StepOK, Fits
<1> QED BY <1>2, <1>5, <1>8, NoAnswer

LEMMA WentOnWell ==
    ASSUME IInv, op_q # <<>>, NEW o \in Ops, NEW source, GoOn(o, source),
           Rec(o) = Rec(op), o.cb = op.cb, o.req = op.req,
           NEW what, Fits(o, source, what),
           call' = [what |-> what, served |-> "no", version |-> 0],
           UNCHANGED <<announced, env>>, CacheOK', CacheTruth',
           \/ fd' = fd /\ (fd = Linked => cache'[file].there)
           \/ fd' = Linked /\ file \in Cached /\ cache'[file].there
    PROVE  IInv' /\ Files_!Next
<1>1. /\ QueueOK(op_q', asked', announced) /\ asked' = asked /\ asked' \in 0 .. MaxRequests
      /\ op_q' # <<>> /\ op' = o /\ op_source' = source
      /\ told' = Nothing /\ Pend(op_q') = Pend(op_q)
    BY WentOn
<1>2. o.since = op.since
    BY DEF Rec
<1>3. StepOK' /\ file' = file /\ AnswerOK'
    BY <1>1, <1>2, NextFits DEF env
<1>4. card[file] \in Int /\ card[file] <= card'[file]
    BY OpFacts DEF Numbers, env
<1>5. OpenOK'
    <2>1. CASE fd' = fd /\ (fd = Linked => cache'[file].there)
        BY <1>1, <1>2, <1>3, <1>4, <2>1, StillOpen DEF env
    <2>2. CASE fd' = Linked /\ file \in Cached /\ cache'[file].there
        BY <1>1, <1>3, <2>2, NowOpen
    <2> QED BY <2>1, <2>2
<1>6. QueueOK(op_q', asked', announced') /\ CardOK' /\ ReadInPlace'
    BY <1>1, CardKept, Forgotten
<1>7. Files_!Next
    BY <1>1, QuietStep DEF env
<1> QED BY <1>3, <1>5, <1>6, <1>7 DEF IInv

\* A record was told, and the callback may have queued another operation.
LEMMA RecordWent ==
    ASSUME IInv, op_q # <<>>, NEW q \in Reactions(op_q, FALSE), Asked(q),
           NEW n \in Nat, op_q' = [q EXCEPT ![1].current = n]
    PROVE  /\ QueueOK(op_q', asked', announced) /\ asked' \in 0 .. MaxRequests
           /\ op_q' # <<>> /\ op' = [op EXCEPT !.current = n]
           /\ Seen(op_q', asked', {})
<1> DEFINE o == [op EXCEPT !.current = n]
<1>1. /\ QueueOK(q, After(q), announced) /\ q # <<>>
      /\ After(q) \in 0 .. MaxRequests
      /\ Head(q) = op /\ Seen(q, After(q), {})
    BY ReactionFacts
<1>2. asked' = After(q) /\ After(q) \in Nat
    BY <1>1 DEF Asked, After
<1>3. op \in Ops
    BY OpFacts
<1>4. /\ o \in Ops /\ o.id = op.id /\ o.req = op.req /\ o.since = op.since /\ o.cb = op.cb
      /\ o.client = op.client
    BY <1>3 DEF Ops
<1>5. op_q' = <<[Head(q) EXCEPT !.current = n]>> \o Tail(q)
    BY <1>1, <1>2, FirstGoesOn
<1>6. op_q' = <<o>> \o Tail(q)
    BY <1>1, <1>5
<1> HIDE DEF o
<1>7. QueueOK(op_q', asked', announced) /\ op_q' # <<>> /\ Head(op_q') = o
    <2> DEFINE r == <<o>> \o Tail(q)
    <2>1. o \in Ops /\ o.id = Head(q).id /\ o.req = Head(q).req /\ o.since = Head(q).since
        BY <1>1, <1>4
    <2>2. QueueOK(r, After(q), announced) /\ r # <<>> /\ Head(r) = o
        BY <1>1, <1>2, <2>1, QueueGoOn
    <2>3. op_q' = r
        BY <1>6
    <2> HIDE DEF r
    <2> QED BY <1>2, <2>2, <2>3
<1>8. Rec(o) = Rec(op)
    BY <1>4 DEF Rec
<1>9. Pend(op_q') = Pend(q)
    BY <1>1, <1>2, <1>4, <1>6, <1>8, PendGoOn
<1>10. Seen(op_q', asked', {})
    BY <1>1, <1>2, <1>9 DEF Seen
<1>11. op' = o
    BY <1>7 DEF op
<1> QED BY <1>1, <1>2, <1>7, <1>10, <1>11 DEF o

LEMMA RecordWell ==
    ASSUME IInv, op_q # <<>>, NEW q \in Reactions(op_q, FALSE), Asked(q),
           NEW n \in Nat, op_q' = [q EXCEPT ![1].current = n],
           NEW got, Tells(got, <<>>), op.cb = TRUE, got \subseteq op.since .. card[file],
           NEW source, op_source' = source, NEW what, Fits([op EXCEPT !.current = n], source, what),
           call' = [what |-> what, served |-> "no", version |-> 0],
           UNCHANGED <<announced, env, fd>>, CacheOK', CacheTruth', fd = Linked => cache'[file].there
    PROVE  IInv' /\ Files_!Next
<1>1. /\ QueueOK(op_q', asked', announced) /\ asked' \in 0 .. MaxRequests
      /\ op_q' # <<>> /\ op' = [op EXCEPT !.current = n]
      /\ Seen(op_q', asked', {})
    BY RecordWent
<1>2. op'.since = op.since /\ op'.req = op.req
    BY <1>1, OpFacts DEF Ops
<1>3. Fits(op', source, what)
    BY <1>1
<1>4. StepOK' /\ file' = file /\ AnswerOK'
    BY <1>1, <1>2, <1>3, NextFits DEF env
<1>5. card'[file] \in Int /\ card[file] <= card'[file]
    BY OpFacts DEF Numbers, env
<1>6. OpenOK'
    BY <1>1, <1>2, <1>4, <1>5, StillOpen
<1>7. told' = [id |-> op.id, req |-> op.req, got |-> got, bytes |-> <<>>]
    BY DEF Tells
<1>8. QueueOK(op_q', asked', announced') /\ CardOK' /\ ReadInPlace'
    BY <1>1, <1>7, CardKept, ToldInPlace
<1>9. Heard(got)
    BY <1>1, <1>7 DEF Heard
<1>10. Files_!Next
    BY <1>9, HeardStep DEF env
<1> QED BY <1>4, <1>6, <1>8, <1>10 DEF IInv

\* The first operation without its callback just ends.
LEMMA SilentlyEnded ==
    ASSUME IInv, op_q # <<>>, op.cb = FALSE, end_current(op_q), told' = Nothing, UNCHANGED asked,
           call' = NoCall, UNCHANGED <<cache, announced, env>>
    PROVE  IInv' /\ Files_!Next
<1>1. Finish({}, <<>>)
    BY DEF Finish
<1> QED BY <1>1, CacheKept, EndedWell

\* What takes the queue on.
LEMMA Served ==
    ASSUME IInv, op_source # "none" \/ call.what # "none"
    PROVE  /\ op_q # <<>> /\ StepFits /\ op.cb \in BOOLEAN
           /\ op_source # "none" => call = NoCall
           /\ op \in Ops /\ op.current \in 0 .. LastBlock /\ LastBlock \in Nat
           /\ fd = Linked => cache[file].there
<1>1. op_q # <<>> /\ StepFits /\ (op_source # "none" => call = NoCall)
    BY DEF IInv, StepOK
<1>2. fd = Linked => cache[file].there
    BY DEF IInv, OpenOK, Linked, Closed
<1> QED BY <1>1, <1>2, OpFacts, BlockFacts DEF Ops

-----------------------------------------------------------------------------
(* The steps of an operation.                                              *)

\* What is told of a header.
LEMMA HeaderFacts ==
    ASSUME IInv, op_q # <<>>, file \in Cached, cache[file].there
    PROVE  cache[file].header \in op.since .. card[file]
<1>1. /\ op.since \in Int /\ op.since <= announced[file] /\ announced[file] \in Int /\ card[file] \in Int
    BY OpFacts DEF Numbers
<1>2. cache[file].header \in announced[file] .. card[file]
    BY DEF IInv, CacheOK, FileOK, NoFile
<1> QED BY <1>1, <1>2

\* The rest of op_next and op_info_cb, once there is a header.
LEMMA GotHeader ==
    ASSUME IInv, op_q # <<>>, op.cb = TRUE, op.req # "write", op.current = 0,
           NEW version, version \in op.since .. card[file], WithHeader(version),
           call' = NoCall, UNCHANGED <<announced, env>>, CacheOK', CacheTruth',
           op.req \notin {"mismatch", "info"} =>
             \/ fd' = fd /\ (fd = Linked => cache'[file].there)
             \/ fd' = Linked /\ file \in Cached /\ cache'[file].there
    PROVE  IInv' /\ Files_!Next
<1>1. op \in Ops /\ op.req \in AllRequests /\ LastBlock \in Nat
    BY OpFacts, BlockFacts
<1>2. CASE op.req = "mismatch"
    <2>1. Finish({}, <<>>)
        BY <1>2 DEF WithHeader, op_error
    <2> QED BY <2>1, EndedWell
<1>3. CASE op.req = "info"
    <2>1. Finish({version}, <<>>)
        BY <1>3 DEF WithHeader
    <2> QED BY <2>1, EndedWell
<1>4. CASE op.req = "records"
    <2>1. GoOn(op, "record")
        BY <1>4 DEF WithHeader
    <2>2. Fits(op, "record", "none")
        BY <1>1, <1>4 DEF Fits
    <2>3. call' = [what |-> "none", served |-> "no", version |-> 0]
        BY DEF NoCall
    <2> QED BY <1>1, <1>4, <2>1, <2>2, <2>3, WentOnWell
<1>5. CASE op.req \in InBlocks
    <2>1. GoOn(op, "block")
        BY <1>5 DEF WithHeader, InBlocks
    <2>2. Fits(op, "block", "none")
        BY <1>1, <1>5 DEF Fits, InBlocks
    <2>3. call' = [what |-> "none", served |-> "no", version |-> 0]
        BY DEF NoCall
    <2>4. op.req \notin {"mismatch", "info"}
        BY <1>5 DEF InBlocks
    <2> QED BY <1>1, <2>1, <2>2, <2>3, <2>4, WentOnWell
<1> QED BY <1>1, <1>2, <1>3, <1>4, <1>5 DEF AllRequests, InBlocks

LEMMA NextStep ==
    ASSUME IInv, op_next
    PROVE  IInv' /\ Files_!Next
<1>1. /\ op_source = "next" /\ UNCHANGED <<cache, announced, env>>
      /\ CacheOK' /\ CacheTruth' /\ \A f \in Cached : cache'[f] = cache[f]
    BY CacheKept DEF op_next
<1>2. /\ op_q # <<>> /\ StepFits /\ op.cb \in BOOLEAN /\ call = NoCall
      /\ op \in Ops /\ op.current \in 0 .. LastBlock /\ LastBlock \in Nat
      /\ fd = Linked => cache[file].there
    BY <1>1, Served
<1>3. op.current = 0
    BY <1>1, <1>2 DEF StepFits
<1>4. fd = Linked => cache'[file].there
    BY <1>1, <1>2
<1>5. CASE ~op.cb
    <2>1. end_current(op_q) /\ told' = Nothing /\ UNCHANGED <<call, asked>>
        BY <1>5 DEF op_next
    <2> QED BY <1>1, <1>2, <1>5, <2>1, SilentlyEnded
<1>6. CASE op.cb /\ op.req = "write"
    <2>1. Calls("write") /\ GoOn(op, "none") /\ UNCHANGED fd
        BY <1>6 DEF op_next
    <2>2. Fits(op, "none", "write")
        BY <1>2, <1>3, <1>6 DEF Fits
    <2>3. call' = [what |-> "write", served |-> "no", version |-> 0]
        BY <2>1 DEF Calls
    <2> QED BY <1>1, <1>2, <1>4, <2>1, <2>2, <2>3, WentOnWell
<1>7. CASE op.cb /\ op.req # "write" /\ imsi /\ file \in Cached /\ cache[file].there
    <2>1. /\ WithHeader(cache[file].header) /\ UNCHANGED call
          /\ op.req \notin {"mismatch", "info"} => fd' = Linked
        BY <1>7 DEF op_next
    <2>2. cache[file].header \in op.since .. card[file]
        BY <1>2, <1>7, HeaderFacts
    <2>3. cache'[file].there
        BY <1>1, <1>7
    <2>4. op.cb = TRUE
        BY <1>2, <1>7
    <2> QED BY <1>1, <1>2, <1>3, <1>7, <2>1, <2>2, <2>3, <2>4, GotHeader
<1>8. CASE op.cb /\ op.req # "write" /\ ~(imsi /\ file \in Cached /\ cache[file].there)
    <2>1. Calls("info") /\ GoOn(op, "none") /\ UNCHANGED fd
        BY <1>8 DEF op_next
    <2>2. Fits(op, "none", "info")
        BY <1>2, <1>3, <1>8 DEF Fits
    <2>3. call' = [what |-> "info", served |-> "no", version |-> 0]
        BY <2>1 DEF Calls
    <2> QED BY <1>1, <1>2, <1>4, <2>1, <2>2, <2>3, WentOnWell
<1> QED BY <1>2, <1>5, <1>6, <1>7, <1>8

\* The driver's answer to the header, a block or a record.
LEMMA Answered ==
    ASSUME IInv, call.what # "none"
    PROVE  /\ op_q # <<>> /\ StepFits /\ op.cb \in BOOLEAN /\ op_source = "none"
           /\ op \in Ops /\ op.current \in 0 .. LastBlock /\ LastBlock \in Nat
           /\ fd = Linked => cache[file].there
           /\ call.served \in {"no", "ok", "error"}
<1>1. op_source = "none" /\ call.served \in {"no", "ok", "error"}
    BY DEF IInv, StepOK
<1> QED BY <1>1, Served

LEMMA InfoStep ==
    ASSUME IInv, op_info_cb
    PROVE  IInv' /\ Files_!Next
<1>1. /\ call.what = "info" /\ call.served # "no" /\ call' = NoCall
      /\ UNCHANGED <<announced, env>>
    BY DEF op_info_cb
<1>2. /\ op_q # <<>> /\ StepFits /\ op.cb \in BOOLEAN
      /\ op \in Ops /\ op.current \in 0 .. LastBlock /\ LastBlock \in Nat
      /\ fd = Linked => cache[file].there
      /\ call.served \in {"ok", "error"}
    BY <1>1, Answered
<1>3. op.current = 0 /\ op.req # "write"
    BY <1>1, <1>2 DEF StepFits
<1>4. UNCHANGED cache => CacheOK' /\ CacheTruth' /\ \A f \in Cached : cache'[f] = cache[f]
    BY <1>1, CacheKept
<1>5. UNCHANGED cache => (fd = Linked => cache'[file].there)
    BY <1>2
<1>6. CASE call.served = "error"
    <2>1. Finish({}, <<>>) /\ UNCHANGED cache
        BY <1>6 DEF op_info_cb, op_error
    <2> QED BY <1>1, <1>2, <1>4, <2>1, EndedWell
<1>7. call.served = "ok" => call.version \in op.since .. card[file]
    BY <1>1, <1>2, AnswerIsRight
<1>8. ASSUME call.served = "ok", file \in Cached, cache' = [cache EXCEPT ![file] = Header(call.version)]
      PROVE  CacheOK' /\ CacheTruth' /\ cache'[file].there
    <2>1. UNCHANGED <<announced, card>> /\ Late \subseteq Late'
        BY <1>1 DEF env, Late
    <2> QED BY <1>1, <1>2, <1>8, <2>1, HeaderWritten
<1>9. CASE call.served = "ok" /\ (op.req \in {"mismatch", "info"} \/ ~op.cb)
    <2>1. /\ \/ UNCHANGED cache
             \/ file \in Cached /\ cache' = [cache EXCEPT ![file] = Header(call.version)]
          /\ IF op.cb THEN WithHeader(call.version) ELSE Finish({}, <<>>)
        BY <1>9 DEF op_info_cb
    <2>2. CacheOK' /\ CacheTruth'
        BY <1>4, <1>8, <1>9, <2>1
    <2>3. CASE op.cb = TRUE
        <3>1. WithHeader(call.version) /\ op.req \in {"mismatch", "info"}
            BY <1>9, <2>1, <2>3
        <3> QED BY <1>1, <1>2, <1>3, <1>7, <1>9, <2>2, <2>3, <3>1, GotHeader
    <2>4. CASE op.cb = FALSE
        <3>1. Finish({}, <<>>)
            BY <2>1, <2>4
        <3> QED BY <1>1, <1>2, <2>2, <3>1, EndedWell
    <2> QED BY <1>2, <2>3, <2>4
<1>10. CASE call.served = "ok" /\ ~(op.req \in {"mismatch", "info"} \/ ~op.cb)
    <2>1. cache_fileinfo(call.version) /\ WithHeader(call.version)
        BY <1>10 DEF op_info_cb
    <2>2. \/ UNCHANGED <<cache, fd>>
          \/ file \in Cached /\ cache' = [cache EXCEPT ![file] = Header(call.version)] /\ fd' = Linked
        BY <2>1 DEF cache_fileinfo
    <2>3. /\ CacheOK' /\ CacheTruth'
          /\ \/ fd' = fd /\ (fd = Linked => cache'[file].there)
             \/ fd' = Linked /\ file \in Cached /\ cache'[file].there
        BY <1>4, <1>5, <1>8, <1>10, <2>2
    <2>4. op.cb = TRUE
        BY <1>2, <1>10
    <2> QED BY <1>1, <1>2, <1>3, <1>7, <1>10, <2>1, <2>3, <2>4, GotHeader
<1> QED BY <1>2, <1>6, <1>9, <1>10

\* Queued requests stay right when more is announced.
LEMMA QueueKnows ==
    ASSUME NEW q, NEW n, NEW known, NEW now, QueueOK(q, n, known),
           \A f \in Files : known[f] \in Int /\ now[f] \in Int /\ known[f] <= now[f]
    PROVE  QueueOK(q, n, now)
<1>1. \A i \in 1 .. Len(q) : q[i].since <= now[FileOf(q[i].req)]
    <2> SUFFICES ASSUME NEW i \in 1 .. Len(q) PROVE q[i].since <= now[FileOf(q[i].req)]
        OBVIOUS
    <2> DEFINE f == FileOf(q[i].req)
    <2>1. f \in Files /\ q[i].since <= known[f]
        BY FileOfRequest DEF QueueOK
    <2>2. q[i] \in Ops
        <3> HIDE DEF Ops
        <3>1. q \in Seq(Ops)
            BY DEF QueueOK
        <3> QED BY <3>1, ElementOfSeq
    <2>3. q[i].since \in Int
        BY <2>2 DEF Ops, Numbers
    <2> HIDE DEF f
    <2>4. q[i].since <= now[f]
        BY <2>1, <2>3
    <2> QED BY <2>4 DEF f
<1> QED BY <1>1 DEF QueueOK

LEMMA WriteStep ==
    ASSUME IInv, op_write_cb
    PROVE  IInv' /\ Files_!Next
<1>1. /\ call.what = "write" /\ call' = NoCall /\ Finish({}, <<>>)
      /\ UNCHANGED <<cache, env>>
    BY DEF op_write_cb
<1>2. op_q # <<>> /\ StepFits /\ op.cb \in BOOLEAN
    BY <1>1, Answered
<1>3. op.req = "write" /\ file = "writable"
    BY <1>1, <1>2 DEF StepFits, file, FileOf
<1>4. CASE announced' = announced
    BY <1>1, <1>2, <1>4, CacheKept, EndedWell
<1>5. CASE announced' = [announced EXCEPT !["writable"] = card["writable"]]
    <2>0. /\ announced \in [Files -> Numbers] /\ card \in [Files -> Numbers]
          /\ \A f \in Files : announced[f] <= card[f]
          /\ "writable" \in Files /\ "writable" \notin Cached
        BY DEF IInv, CardOK, Files, Cached
    <2>1. /\ announced' \in [Files -> Numbers]
          /\ \A f \in Files : announced'[f] = IF f = "writable" THEN card[f] ELSE announced[f]
        BY <1>5, <2>0
    <2>2. \A f \in Files : announced[f] \in Int /\ announced'[f] \in Int /\ announced[f] <= announced'[f]
                           /\ announced'[f] <= card[f]
        BY <2>0, <2>1 DEF Numbers
    <2>3. /\ QueueOK(op_q', asked', announced) /\ asked' \in 0 .. MaxRequests
          /\ StepOK' /\ fd' = Closed
          /\ Heard({})
          /\ told' = Nothing \/ told' = [id |-> op.id, req |-> op.req, got |-> {}, bytes |-> <<>>]
        BY <1>1, <1>2, Finished
    <2>4. QueueOK(op_q', asked', announced')
        BY <2>2, <2>3, QueueKnows
    <2>5. CardOK'
        BY <1>1, <2>1, <2>2, <2>3 DEF IInv, CardOK, env
    <2>6. CacheOK' /\ CacheTruth'
        <3>1. \A f \in Cached : /\ announced'[f] = announced[f]
                                /\ card'[f] \in Numbers /\ card[f] <= card'[f]
                                /\ card'[f] = card[f]
            BY <1>1, <2>0, <2>1, CachedFiles DEF env, Numbers
        <3>2. Late \subseteq Late'
            BY <1>1 DEF env, Late
        <3> QED BY <1>1, <3>1, <3>2, FilesKept
    <2>7. AnswerOK' /\ OpenOK' /\ ReadInPlace'
        BY <1>1, <2>3, NoAnswer, NotOpen, Forgotten, ToldInPlace DEF NoCall
    <2>8. Files_!Next
        <3>1. CASE op.cb = TRUE
            BY <1>1, <1>2, <1>3, <1>5, <2>3, <3>1, ToldStep DEF env
        <3>2. CASE op.cb = FALSE
            <4>1. told' = Nothing /\ asked' = asked /\ Pend(op_q') = Pend(op_q)
                BY <2>3, <3>2 DEF Heard
            <4>2. /\ [id |-> told'.id, got |-> told'.got] = [id |-> 0, got |-> {}]
                BY <4>1 DEF Nothing
            <4>3. announced' = [f \in Files |-> IF f \in {"writable"} THEN card[f] ELSE announced[f]]
                BY <2>0, <2>1
            <4>4. Files_!Announce({"writable"})
                BY <1>1, <4>1, <4>2, <4>3, PendingIs DEF Files_!Announce, Files_!Nothing, env
            <4>5. {"writable"} \in SUBSET Files
                BY <2>0
            <4> QED BY <4>4, <4>5 DEF Files_!Next
        <3> QED BY <1>2, <3>1, <3>2
    <2> QED BY <2>3, <2>4, <2>5, <2>6, <2>7, <2>8 DEF IInv
<1> QED BY <1>4, <1>5 DEF op_write_cb

\* A buffer that fits may be kept with the operation.
LEMMA BufferKept ==
    ASSUME NEW buffer, BufferOK(buffer)
    PROVE  buffer \in Buffers /\ DOMAIN buffer = 0 .. NumBytes - 1
<1>1. buffer \in [0 .. NumBytes - 1 -> Bytes]
    BY DEF BufferOK
<1>2. NumBytes \in {BLOCK - 1, BLOCK, Length}
    BY DEF NumBytes
<1> QED BY <1>1, <1>2 DEF Buffers

LEMMA ReadBlockStep ==
    ASSUME IInv, op_read_block
    PROVE  IInv' /\ Files_!Next
<1>1. /\ op_source = "block" /\ UNCHANGED <<cache, announced, env>>
      /\ CacheOK' /\ CacheTruth' /\ \A f \in Cached : cache'[f] = cache[f]
    BY CacheKept DEF op_read_block
<1>2. /\ op_q # <<>> /\ StepFits /\ op.cb \in BOOLEAN /\ call = NoCall
      /\ op \in Ops /\ op.current \in 0 .. LastBlock /\ LastBlock \in Nat
      /\ fd = Linked => cache[file].there
    BY <1>1, Served
<1>3. op.req \in InBlocks /\ (op.current > 0 => BufferOK(op.buffer))
    BY <1>1, <1>2 DEF StepFits
<1>4. CASE ~op.cb
    <2>1. end_current(op_q) /\ told' = Nothing /\ UNCHANGED <<call, asked>>
        BY <1>4 DEF op_read_block
    <2> QED BY <1>1, <1>2, <1>4, <2>1, SilentlyEnded
<1>5. CASE op.cb
    <2> DEFINE start == IF op.current = 0 THEN Zeros ELSE op.buffer
               buffer == FromCache(start)
               next == op.current + Cardinality(Present)
    <2>1. BufferOK(start)
        BY <1>2, <1>3, ZerosOK
    <2>2. BufferOK(buffer) /\ (op.req \in {"bytes", "read"} /\ Present # {} => InPlace(buffer))
        BY <1>2, <1>3, <2>1, OpenIsFresh, FromCacheOK
    <2>3. PICK m \in op.current .. LastBlock + 1 :
             Present = op.current .. m - 1 /\ Cardinality(Present) = m - op.current
        BY <1>2, PresentRun
    <2>4. next = m /\ m \in Nat
        BY <1>2, <2>3
    <2>5. IF next > LastBlock THEN Finish(Versions(buffer), buffer) /\ UNCHANGED call
          ELSE /\ GoOn([op EXCEPT !.buffer = buffer, !.current = next], "none")
               /\ Calls("block")
               /\ UNCHANGED fd
        BY <1>5 DEF op_read_block
    <2>6. Versions(buffer) \subseteq op.since .. card[file] /\ buffer \in Buffers
          /\ DOMAIN buffer = 0 .. NumBytes - 1
        BY <2>2, VersionsOK, BufferKept
    <2> HIDE DEF start, buffer, next
    <2>7. CASE next > LastBlock
        <3>1. Present # {}
            BY <1>2, <2>3, <2>4, <2>7
        <3>2. Finish(Versions(buffer), buffer) /\ call' = NoCall
            BY <1>2, <2>5, <2>7
        <3> QED BY <1>1, <1>2, <2>2, <2>6, <3>1, <3>2, EndedWell
    <2>8. CASE ~(next > LastBlock)
        <3> DEFINE o == [op EXCEPT !.buffer = buffer, !.current = next]
        <3>1. GoOn(o, "none") /\ Calls("block") /\ UNCHANGED fd
            BY <2>5, <2>8
        <3>2. next \in 0 .. LastBlock
            BY <1>2, <2>4, <2>8
        <3>3. /\ o \in Ops /\ o.cb = op.cb /\ o.req = op.req /\ o.current = next /\ o.buffer = buffer
              /\ o.id = op.id /\ o.client = op.client /\ o.since = op.since
            <4>1. o = [op EXCEPT !.buffer = buffer, !.current = next]
                OBVIOUS
            <4>2. op \in Ops /\ buffer \in Buffers /\ next \in 0 .. LastBlock
                BY <1>2, <2>6, <3>2
            <4> HIDE DEF o
            <4>3. PICK p, b, n, x : p = op /\ b = buffer /\ n = next /\ x = o
                OBVIOUS
            <4>4. p \in Ops /\ b \in Buffers /\ n \in Nat /\ x = [p EXCEPT !.buffer = b, !.current = n]
                BY <1>2, <4>1, <4>2, <4>3
            <4>5. /\ x \in Ops /\ x.cb = p.cb /\ x.req = p.req /\ x.current = n /\ x.buffer = b
                  /\ x.id = p.id /\ x.client = p.client /\ x.since = p.since
                BY <4>4 DEF Ops
            <4> QED BY <4>3, <4>5
        <3> HIDE DEF o
        <3>4. Rec(o) = Rec(op)
            BY <3>3 DEF Rec
        <3>5. Fits(o, "none", "block")
            BY <1>3, <2>2, <3>2, <3>3 DEF Fits
        <3>6. call' = [what |-> "block", served |-> "no", version |-> 0]
            BY <3>1 DEF Calls
        <3>7. fd' = fd /\ (fd = Linked => cache'[file].there)
            BY <1>1, <1>2, <3>1
        <3> QED BY <1>1, <1>2, <3>1, <3>3, <3>4, <3>5, <3>6, <3>7, WentOnWell
    <2> QED BY <2>7, <2>8
<1> QED BY <1>2, <1>4, <1>5

\* What the answer to a block or a record leaves on disk.
LEMMA AnswerWritten ==
    ASSUME IInv, call.served = "ok", call.what \in {"block", "record"},
           cache_block(op.current, call.version), UNCHANGED <<announced, env>>
    PROVE  /\ CacheOK' /\ CacheTruth' /\ (fd = Linked => cache'[file].there)
           /\ call.version \in op.since .. card[file] /\ call.version \in Numbers
<1>1. op_q # <<>>
    BY Answered
<1>2. UNCHANGED <<announced, card>> /\ Late \subseteq Late'
    BY DEF env, Late
<1> QED BY <1>1, <1>2, BlockWritten, AnswerIsRight

LEMMA BlockStep ==
    ASSUME IInv, op_read_block_cb
    PROVE  IInv' /\ Files_!Next
<1>1. /\ call.what = "block" /\ call.served # "no" /\ call' = NoCall /\ UNCHANGED <<announced, env>>
    BY DEF op_read_block_cb
<1>2. /\ op_q # <<>> /\ StepFits /\ op.cb \in BOOLEAN
      /\ op \in Ops /\ op.current \in 0 .. LastBlock /\ LastBlock \in Nat
      /\ fd = Linked => cache[file].there
      /\ call.served \in {"ok", "error"}
    BY <1>1, Answered
<1>3. op.req \in InBlocks /\ BufferOK(op.buffer)
    BY <1>1, <1>2 DEF StepFits
<1>4. CASE call.served = "error"
    <2>1. Finish({}, <<>>) /\ UNCHANGED cache
        BY <1>4 DEF op_read_block_cb, op_error
    <2> QED BY <1>1, <1>2, <2>1, CacheKept, EndedWell
<1>5. CASE call.served = "ok"
    <2> DEFINE buffer == Copied(op.buffer, op.current, call.version)
    <2>1. /\ cache_block(op.current, call.version)
          /\ IF ~op.cb \/ op.current = LastBlock THEN Finish(Versions(buffer), buffer)
             ELSE /\ GoOn([op EXCEPT !.buffer = buffer, !.current = @ + 1], "block")
                  /\ UNCHANGED fd
        BY <1>5 DEF op_read_block_cb
    <2>2. /\ CacheOK' /\ CacheTruth' /\ (fd = Linked => cache'[file].there)
          /\ call.version \in op.since .. card[file] /\ call.version \in Numbers
        BY <1>1, <1>5, <2>1, AnswerWritten
    <2>3. BufferOK(buffer) /\ (op.req \in {"bytes", "read"} => InPlace(buffer))
        BY <1>2, <1>3, <2>2, CopiedOK
    <2>4. Versions(buffer) \subseteq op.since .. card[file] /\ buffer \in Buffers
          /\ DOMAIN buffer = 0 .. NumBytes - 1
        BY <2>3, VersionsOK, BufferKept
    <2> HIDE DEF buffer
    <2>5. CASE ~op.cb \/ op.current = LastBlock
        <3>1. Finish(Versions(buffer), buffer)
            BY <2>1, <2>5
        <3> QED BY <1>1, <1>2, <2>2, <2>3, <2>4, <3>1, EndedWell
    <2>6. CASE ~(~op.cb \/ op.current = LastBlock)
        <3> DEFINE next == op.current + 1
                   o == [op EXCEPT !.buffer = buffer, !.current = next]
        <3>1. GoOn(o, "block") /\ UNCHANGED fd
            BY <2>1, <2>6
        <3>2. next \in 0 .. LastBlock
            BY <1>2, <2>6
        <3> HIDE DEF next
        <3>3. /\ o \in Ops /\ o.cb = op.cb /\ o.req = op.req /\ o.current = next /\ o.buffer = buffer
              /\ o.id = op.id /\ o.client = op.client /\ o.since = op.since
            <4>1. o = [op EXCEPT !.buffer = buffer, !.current = next]
                OBVIOUS
            <4>2. op \in Ops /\ buffer \in Buffers /\ next \in 0 .. LastBlock
                BY <1>2, <2>4, <3>2
            <4> HIDE DEF o
            <4>3. PICK p, b, n, x : p = op /\ b = buffer /\ n = next /\ x = o
                OBVIOUS
            <4>4. p \in Ops /\ b \in Buffers /\ n \in Nat /\ x = [p EXCEPT !.buffer = b, !.current = n]
                BY <1>2, <4>1, <4>2, <4>3
            <4>5. /\ x \in Ops /\ x.cb = p.cb /\ x.req = p.req /\ x.current = n /\ x.buffer = b
                  /\ x.id = p.id /\ x.client = p.client /\ x.since = p.since
                BY <4>4 DEF Ops
            <4> QED BY <4>3, <4>5
        <3> HIDE DEF o
        <3>4. Rec(o) = Rec(op)
            BY <3>3 DEF Rec
        <3>5. Fits(o, "block", "none")
            BY <1>3, <2>3, <3>2, <3>3 DEF Fits, InBlocks
        <3>6. call' = [what |-> "none", served |-> "no", version |-> 0]
            BY <1>1 DEF NoCall
        <3>7. fd' = fd /\ (fd = Linked => cache'[file].there)
            BY <2>2, <3>1
        <3> QED BY <1>1, <1>2, <2>2, <3>1, <3>3, <3>4, <3>5, <3>6, <3>7, WentOnWell
    <2> QED BY <2>5, <2>6
<1> QED BY <1>2, <1>4, <1>5

LEMMA ReadRecordStep ==
    ASSUME IInv, op_read_record
    PROVE  IInv' /\ Files_!Next
<1>1. /\ op_source = "record" /\ UNCHANGED <<cache, announced, env>>
      /\ CacheOK' /\ CacheTruth' /\ \A f \in Cached : cache'[f] = cache[f]
    BY CacheKept DEF op_read_record
<1>2. /\ op_q # <<>> /\ StepFits /\ op.cb \in BOOLEAN /\ call = NoCall
      /\ op \in Ops /\ op.current \in 0 .. LastBlock /\ LastBlock \in Nat
      /\ fd = Linked => cache[file].there
    BY <1>1, Served
<1>3. op.req = "records"
    BY <1>1, <1>2 DEF StepFits
<1>4. CASE ~op.cb
    <2>1. end_current(op_q) /\ told' = Nothing /\ UNCHANGED <<call, asked>>
        BY <1>4 DEF op_read_record
    <2> QED BY <1>1, <1>2, <1>4, <2>1, SilentlyEnded
<1>5. CASE op.cb
    <2> DEFINE got == {OpenFile.data[b] : b \in Present}
               next == op.current + Cardinality(Present)
    <2>1. PICK m \in op.current .. LastBlock + 1 :
             Present = op.current .. m - 1 /\ Cardinality(Present) = m - op.current
        BY <1>2, PresentRun
    <2>2. next = m /\ m \in Nat
        BY <1>2, <2>1
    <2>3. got \subseteq op.since .. card[file]
        <3>1. Present \subseteq OpenFile.bits
            BY <1>2 DEF Present
        <3> QED BY <1>2, <3>1, OpenIsFresh DEF FreshFile
    <2>4. got = {} => Present = {}
        OBVIOUS
    <2>5. IF next > LastBlock THEN Finish(got, <<>>) /\ UNCHANGED call
          ELSE /\ Calls("record") /\ op_source' = "none" /\ UNCHANGED fd
               /\ IF got = {} THEN told' = Nothing /\ UNCHANGED <<op_q, asked>>
                  ELSE /\ Tells(got, <<>>)
                       /\ \E q \in Reactions(op_q, FALSE) :
                              Asked(q) /\ op_q' = [q EXCEPT ![1].current = next]
        BY <1>5 DEF op_read_record
    <2> HIDE DEF got, next
    <2>6. CASE next > LastBlock
        <3>1. Finish(got, <<>>) /\ call' = NoCall
            BY <1>2, <2>5, <2>6
        <3> QED BY <1>1, <1>2, <2>3, <3>1, EndedWell
    <2>7. CASE ~(next > LastBlock)
        <3> DEFINE o == [op EXCEPT !.current = next]
        <3>1. /\ Calls("record") /\ op_source' = "none" /\ UNCHANGED fd
              /\ IF got = {} THEN told' = Nothing /\ UNCHANGED <<op_q, asked>>
                 ELSE /\ Tells(got, <<>>)
                      /\ \E q \in Reactions(op_q, FALSE) :
                             Asked(q) /\ op_q' = [q EXCEPT ![1].current = next]
            BY <2>5, <2>7
        <3>2. next \in 0 .. LastBlock
            BY <1>2, <2>2, <2>7
        <3>3. call' = [what |-> "record", served |-> "no", version |-> 0]
            BY <3>1 DEF Calls
        <3>4. fd = Linked => cache'[file].there
            BY <1>1, <1>2
        <3>5. CASE got = {}
            <4>1. told' = Nothing /\ UNCHANGED <<op_q, asked>>
                BY <3>1, <3>5
            <4>2. op' = op
                BY <4>1 DEF op
            <4>3. Fits(op, "none", "record")
                BY <1>2, <1>3 DEF Fits
            <4>4. Fits(op', "none", "record")
                BY <4>2, <4>3
            <4>5. StepOK' /\ file' = file /\ AnswerOK'
                BY <1>1, <1>2, <3>1, <3>3, <4>1, <4>2, <4>4, NextFits DEF env
            <4>6. card'[file] \in Int /\ card[file] <= card'[file]
                BY <1>1, <1>2, OpFacts DEF Numbers, env
            <4>7. OpenOK'
                BY <1>2, <3>1, <3>4, <4>1, <4>2, <4>5, <4>6, StillOpen
            <4>8. asked \in 0 .. MaxRequests /\ QueueOK(op_q, asked, announced)
                BY DEF IInv, CardOK
            <4>9. QueueOK(op_q', asked', announced') /\ CardOK' /\ ReadInPlace'
                BY <1>1, <4>1, <4>8, CardKept, Forgotten
            <4>10. Files_!Next
                BY <1>1, <4>1, QuietStep DEF env
            <4> QED BY <1>1, <4>5, <4>7, <4>9, <4>10 DEF IInv
        <3>6. CASE got # {}
            <4>1. PICK q \in Reactions(op_q, FALSE) : Asked(q) /\ op_q' = [q EXCEPT ![1].current = next]
                BY <3>1, <3>6
            <4>2. o.current = next /\ o.req = op.req
                BY <1>2 DEF Ops
            <4>3. Fits(o, "none", "record")
                BY <1>3, <3>2, <4>2 DEF Fits
            <4>4. next \in Nat /\ op.cb = TRUE /\ Tells(got, <<>>)
                BY <1>2, <1>5, <2>2, <3>1, <3>6
            <4> QED BY <1>1, <1>2, <2>3, <3>1, <3>3, <3>4, <4>1, <4>3, <4>4, RecordWell
        <3> QED BY <3>5, <3>6
    <2> QED BY <2>6, <2>7
<1> QED BY <1>2, <1>4, <1>5

LEMMA RecordStep ==
    ASSUME IInv, op_retrieve_cb
    PROVE  IInv' /\ Files_!Next
<1>1. /\ call.what = "record" /\ call.served # "no" /\ call' = NoCall /\ UNCHANGED <<announced, env>>
    BY DEF op_retrieve_cb
<1>2. /\ op_q # <<>> /\ StepFits /\ op.cb \in BOOLEAN
      /\ op \in Ops /\ op.current \in 0 .. LastBlock /\ LastBlock \in Nat
      /\ fd = Linked => cache[file].there
      /\ call.served \in {"ok", "error"}
    BY <1>1, Answered
<1>3. op.req = "records"
    BY <1>1, <1>2 DEF StepFits
<1>4. CASE call.served = "error"
    <2>1. Finish({}, <<>>) /\ UNCHANGED cache
        BY <1>4 DEF op_retrieve_cb, op_error
    <2> QED BY <1>1, <1>2, <2>1, CacheKept, EndedWell
<1>5. CASE call.served = "ok"
    <2>1. /\ cache_block(op.current, call.version)
          /\ IF ~op.cb \/ op.current = LastBlock THEN Finish({call.version}, <<>>)
             ELSE /\ Tells({call.version}, <<>>)
                  /\ \E q \in Reactions(op_q, FALSE) :
                         Asked(q) /\ op_q' = [q EXCEPT ![1].current = @ + 1]
                  /\ op_source' = "record"
                  /\ UNCHANGED fd
        BY <1>5 DEF op_retrieve_cb
    <2>2. /\ CacheOK' /\ CacheTruth' /\ (fd = Linked => cache'[file].there)
          /\ call.version \in op.since .. card[file]
        BY <1>1, <1>5, <2>1, AnswerWritten
    <2>3. CASE ~op.cb \/ op.current = LastBlock
        <3>1. Finish({call.version}, <<>>)
            BY <2>1, <2>3
        <3> QED BY <1>1, <1>2, <2>2, <3>1, EndedWell
    <2>4. CASE ~(~op.cb \/ op.current = LastBlock)
        <3> DEFINE next == op.current + 1
                   o == [op EXCEPT !.current = next]
        <3>1. /\ Tells({call.version}, <<>>) /\ op_source' = "record" /\ UNCHANGED fd
              /\ \E q \in Reactions(op_q, FALSE) :
                     Asked(q) /\ op_q' = [q EXCEPT ![1].current = q[1].current + 1]
            BY <2>1, <2>4
        <3>2. PICK q \in Reactions(op_q, FALSE) :
                 Asked(q) /\ op_q' = [q EXCEPT ![1].current = q[1].current + 1]
            BY <3>1
        <3>3. q[1] = op
            <4>1. FALSE \in BOOLEAN
                OBVIOUS
            <4>2. /\ q # <<>> /\ QueueOK(q, After(q), announced) /\ Head(q) = op
                  /\ After(q) \in 0 .. MaxRequests
                BY <1>2, <3>2, <4>1, ReactionFacts
            <4>3. After(q) \in Nat
                BY <4>2
            <4> QED BY <4>2, <4>3, QueueFacts
        <3>4. op_q' = [q EXCEPT ![1].current = next]
            BY <3>2, <3>3
        <3>5. next \in 0 .. LastBlock /\ next \in Nat
            BY <1>2, <2>4
        <3> HIDE DEF next
        <3>6. o.current = next /\ o.req = op.req
            BY <1>2 DEF Ops
        <3>7. Fits(o, "record", "none")
            BY <1>3, <3>5, <3>6 DEF Fits
        <3>8. call' = [what |-> "none", served |-> "no", version |-> 0]
            BY <1>1 DEF NoCall
        <3>9. op.cb = TRUE /\ {call.version} \subseteq op.since .. card[file]
            BY <1>2, <2>2, <2>4
        <3> QED BY <1>1, <1>2, <2>2, <3>1, <3>2, <3>4, <3>5, <3>7, <3>8, <3>9, RecordWell
    <2> QED BY <2>3, <2>4
<1> QED BY <1>2, <1>4, <1>5

-----------------------------------------------------------------------------
(* The clients.                                                            *)

LEMMA AskIsStep ==
    ASSUME NEW new \in Files_!New, Files_!Ask(new)
    PROVE  Files_!Next
<1>1. \E n \in Files_!New : Files_!Ask(n)
    OBVIOUS
<1> QED BY <1>1 DEF Files_!Next

\* A client leaves, or all do.
LEMMA DropIsStep ==
    ASSUME NEW gone, Files_!Drop(gone),
           \/ \E c \in Clients : gone = Files_!Of(c)
           \/ gone = Pend(op_q)
    PROVE  Files_!Next
<1> DEFINE Any == {Files_!Of(c) : c \in Clients} \cup {{}, Pend(op_q)}
<1>1. gone \in Any
    OBVIOUS
<1> HIDE DEF Any
<1>2. \E g \in Any : Files_!Drop(g)
    BY <1>1
<1> QED BY <1>2, PendingIs DEF Any, Files_!Next

\* The first operation is being served as before.
LEMMA StillServed ==
    ASSUME IInv, op_q # <<>>, op_q' # <<>>, op'.req = op.req, op'.since = op.since,
           op'.current = op.current, op'.buffer = op.buffer,
           card'[file] \in Int, card[file] <= card'[file],
           op_source' = op_source, call'.what = call.what,
           call'.served \in {"no", "ok", "error"}, call'.version \in Numbers,
           call' = [what |-> call'.what, served |-> call'.served, version |-> call'.version],
           call.what = "none" => call' = call
    PROVE  StepOK' /\ file' = file
<1>1. StepOK
    BY DEF IInv
<1>2. StepFits' /\ file' = file
    BY StillFits
<1>3. call' \in [what : {"none", "info", "block", "record", "write"},
                 served : {"no", "ok", "error"}, version : Numbers]
    BY <1>1 DEF StepOK
<1> QED BY <1>1, <1>2, <1>3 DEF StepOK

\* The clients change the queue behind the first operation, or let go of it.
LEMMA ClientStep ==
    ASSUME IInv, op_q # <<>>, op_q' # <<>>, op'.req = op.req, op'.since = op.since,
           op'.current = op.current, op'.buffer = op.buffer,
           QueueOK(op_q', asked', announced), asked' \in 0 .. MaxRequests, told' = Nothing,
           UNCHANGED <<op_source, call, fd, cache, announced, env>>
    PROVE  IInv'
<1>1. card[file] \in Int /\ card'[file] \in Int /\ card[file] <= card'[file]
    BY OpFacts DEF Numbers, env
<1>2. /\ call.served \in {"no", "ok", "error"} /\ call.version \in Numbers
      /\ call = [what |-> call.what, served |-> call.served, version |-> call.version]
    BY DEF IInv, StepOK
<1>3. StepOK' /\ file' = file
    BY <1>1, <1>2, StillServed
<1>4. fd = Linked => cache'[file].there
    BY DEF IInv, OpenOK, Linked, Closed
<1>5. OpenOK'
    BY <1>1, <1>3, <1>4, StillOpen
<1>6. AnswerOK'
    BY <1>3 DEF IInv, AnswerOK, env
<1>7. QueueOK(op_q', asked', announced') /\ CardOK' /\ CacheOK' /\ CacheTruth' /\ ReadInPlace'
    BY CardKept, CacheKept, Forgotten
<1> QED BY <1>3, <1>5, <1>6, <1>7 DEF IInv

LEMMA AskStep ==
    ASSUME IInv, NEW c \in Clients, NEW req \in Requests, submit(c, req)
    PROVE  IInv' /\ Files_!Next
<1> DEFINE o == Op(c, req)
<1>1. /\ o \in Ops /\ Untouched(o) /\ o.cb = TRUE /\ o.id = asked + 1
      /\ o.since <= announced[FileOf(o.req)]
      /\ {Rec(o)} \in Files_!New /\ Cardinality({Rec(o)}) = 1
    BY NewOp
<1>2. /\ asked < MaxRequests /\ asked' = asked + 1 /\ op_q' = Append(op_q, o)
      /\ op_source' = IF Len(op_q') = 1 THEN "next" ELSE op_source
      /\ told' = Nothing /\ UNCHANGED <<call, fd, cache, announced, env>>
    BY DEF submit
<1> HIDE DEF o
<1>3. /\ asked \in Nat /\ QueueOK(op_q, asked, announced) /\ MaxRequests \in Nat
      /\ Len(op_q) \in Nat /\ (op_q = <<>> <=> Len(op_q) = 0) /\ asked' \in 0 .. MaxRequests
    BY <1>2, QueueFacts, SimFsAssumption DEF IInv, CardOK
<1>4. /\ QueueOK(op_q', asked', announced) /\ op_q' # <<>> /\ Len(op_q') = Len(op_q) + 1
      /\ op_q # <<>> => op' = op
      /\ op_q = <<>> => op' = o
    BY <1>1, <1>2, <1>3, QueueAppend DEF op
<1>5. Files_!Next
    <2>1. Pend(op_q') = Pend(op_q) \cup {Rec(o)}
        BY <1>1, <1>2, <1>3, PendAppend
    <2>2. [id |-> told'.id, got |-> told'.got] = [id |-> 0, got |-> {}]
        BY <1>2 DEF Nothing
    <2>3. asked' = asked + Files_!Cardinality({Rec(o)})
        BY <1>1, <1>2, SameCardinality
    <2> PICK new : new = {Rec(o)}
        OBVIOUS
    <2>4. new \in Files_!New /\ Pend(op_q') = Pend(op_q) \cup new /\ asked' = asked + Files_!Cardinality(new)
        BY <1>1, <2>1, <2>3
    <2>5. Files_!Ask(new)
        BY <1>2, <2>2, <2>4, PendingIs DEF Files_!Ask, Files_!Nothing, env
    <2> QED BY <2>4, <2>5, AskIsStep
<1>6. CASE op_q # <<>>
    <2>1. op_source' = op_source
        BY <1>2, <1>3, <1>4, <1>6
    <2>2. /\ op'.req = op.req /\ op'.since = op.since /\ op'.current = op.current
          /\ op'.buffer = op.buffer
        BY <1>4, <1>6
    <2> QED BY <1>2, <1>3, <1>4, <1>5, <1>6, <2>1, <2>2, ClientStep
<1>7. CASE op_q = <<>>
    <2>1. op_source' = "next" /\ op' = o
        BY <1>2, <1>3, <1>4, <1>7
    <2>2. /\ op_source = "none" /\ call.what = "none" /\ call = NoCall /\ fd = Closed
        BY <1>7 DEF IInv, StepOK, OpenOK
    <2>3. LastBlock' \in Nat /\ op'.current = 0
        BY <1>1, <2>1, LastBlockNat DEF Untouched
    <2>4. StepFits'
        BY <1>2, <2>1, <2>2, <2>3 DEF StepFits, NoCall
    <2>5. call' \in [what : {"none", "info", "block", "record", "write"},
                     served : {"no", "ok", "error"}, version : Numbers]
        BY <1>2 DEF IInv, StepOK
    <2>6. StepOK'
        BY <1>2, <1>4, <2>1, <2>2, <2>4, <2>5 DEF StepOK
    <2>7. AnswerOK' /\ OpenOK' /\ ReadInPlace' /\ CardOK' /\ CacheOK' /\ CacheTruth'
        BY <1>2, <1>3, <2>2, NoAnswer, NotOpen, Forgotten, CardKept, CacheKept DEF NoCall
    <2>8. QueueOK(op_q', asked', announced')
        BY <1>2, <1>4
    <2> QED BY <1>5, <2>6, <2>7, <2>8 DEF IInv
<1> QED BY <1>6, <1>7

LEMMA FreeStep ==
    ASSUME IInv, NEW c \in Clients, context_free(c)
    PROVE  IInv' /\ Files_!Next
<1> DEFINE o == [op EXCEPT !.cb = @ /\ op.client # c]
<1>1. /\ op_q' = WithoutClient(op_q, c) /\ told' = Nothing /\ op_q # <<>>
      /\ UNCHANGED <<op_source, call, fd, cache, announced, env, asked>>
    BY DEF context_free
<1>2. /\ asked \in Nat /\ asked \in 0 .. MaxRequests /\ QueueOK(op_q, asked, announced)
      /\ op = Head(op_q) /\ op \in Ops
    BY <1>1, OpFacts DEF IInv, CardOK, op
<1>3. QueueOK(op_q', asked, announced) /\ op_q' # <<>> /\ Head(op_q') = o
    BY <1>1, <1>2, QueueDrop
<1>4. /\ o.req = op.req /\ o.since = op.since /\ o.current = op.current /\ o.buffer = op.buffer
    BY <1>2 DEF Ops
<1> HIDE DEF o
<1>5. op' = o
    BY <1>3 DEF op
<1>6. IInv'
    BY <1>1, <1>2, <1>3, <1>4, <1>5, ClientStep
<1>7. Files_!Next
    <2>1. Pend(op_q') = Pend(op_q) \ OfClient(c)
        BY <1>1, <1>2, PendDrop DEF OfClient
    <2>2. [id |-> told'.id, got |-> told'.got] = [id |-> 0, got |-> {}]
        BY <1>1 DEF Nothing
    <2>3. PICK gone : gone = OfClient(c)
        OBVIOUS
    <2>4. Files_!Drop(gone)
        BY <1>1, <2>1, <2>2, <2>3, PendingIs DEF Files_!Drop, Files_!Nothing, env
    <2>5. gone = Files_!Of(c)
        BY <2>3, PendingIs DEF Files_!Of, OfClient
    <2> QED BY <2>4, <2>5, DropIsStep
<1> QED BY <1>6, <1>7

-----------------------------------------------------------------------------
(* The card, and the end of the atom.                                      *)

LEMMA QuietCard ==
    ASSUME IInv, op_q' = op_q, told' = Nothing,
           UNCHANGED <<op_source, fd, cache, announced, asked, restarts, missed>>,
           imsi' = imsi \/ imsi' = TRUE, notices \subseteq notices', notices' \subseteq Cached,
           changes' \in Numbers, card' \in [Files -> Numbers],
           \A f \in Files : card[f] <= card'[f] /\ card'[f] <= changes',
           \A f \in Cached : card'[f] = card[f] \/ f \in notices',
           \/ call' = call
           \/ /\ call.what # "none" /\ call'.what = call.what
              /\ call'.served \in {"no", "ok", "error"} /\ call'.version \in Numbers
              /\ call' = [what |-> call'.what, served |-> call'.served, version |-> call'.version]
    PROVE  /\ CardOK' /\ QueueOK(op_q', asked', announced') /\ StepOK' /\ CacheOK' /\ OpenOK'
           /\ CacheTruth' /\ ReadInPlace'
           /\ op' = op /\ (op_q # <<>> => file' = file)
<1>1. \A f \in Files : announced[f] \in Int /\ card[f] \in Int /\ card'[f] \in Int /\ announced[f] <= card'[f]
    BY DEF IInv, CardOK, Numbers
<1>2. CardOK'
    BY <1>1 DEF IInv, CardOK
<1>3. QueueOK(op_q', asked', announced') /\ ReadInPlace'
    BY Forgotten DEF IInv
<1>4. CacheOK' /\ CacheTruth'
    <2>1. Late \subseteq Late'
        BY DEF Late
    <2>2. \A f \in Cached : /\ announced'[f] = announced[f]
                            /\ card'[f] \in Numbers /\ card[f] <= card'[f]
                            /\ card'[f] = card[f] \/ f \in Late'
        BY CachedFiles DEF Late
    <2> QED BY <2>1, <2>2, FilesKept
<1>5. op' = op /\ (call.what # "none" => op_q # <<>>)
    BY DEF op, IInv, StepOK
<1>6. CASE op_q # <<>>
    <2>1. card[file] \in Int /\ card'[file] \in Int /\ card[file] <= card'[file]
        BY <1>1, <1>6, OpFacts
    <2>2. /\ call.served \in {"no", "ok", "error"} /\ call.version \in Numbers
          /\ call = [what |-> call.what, served |-> call.served, version |-> call.version]
        BY DEF IInv, StepOK
    <2>3. /\ call'.what = call.what
          /\ call'.served \in {"no", "ok", "error"} /\ call'.version \in Numbers
          /\ call' = [what |-> call'.what, served |-> call'.served, version |-> call'.version]
          /\ call.what = "none" => call' = call
        BY <2>2
    <2>4. StepOK' /\ file' = file
        BY <1>5, <1>6, <2>1, <2>3, StillServed
    <2>5. fd = Linked => cache'[file].there
        BY DEF IInv, OpenOK, Linked, Closed
    <2>6. OpenOK'
        BY <1>5, <1>6, <2>1, <2>4, <2>5, StillOpen
    <2> QED BY <1>2, <1>3, <1>4, <1>5, <2>4, <2>6
<1>7. CASE op_q = <<>>
    <2>1. call' = call /\ fd' = Closed
        BY <1>5, <1>7 DEF IInv, OpenOK
    <2>2. StepOK'
        BY <1>7, <2>1 DEF IInv, StepOK, StepFits
    <2> QED BY <1>2, <1>3, <1>4, <1>5, <1>7, <2>1, <2>2, NotOpen
<1> QED BY <1>6, <1>7

LEMMA CardChanged ==
    ASSUME NEW f \in Files, card' = [card EXCEPT ![f] = @ + 1], told' = Nothing,
           UNCHANGED <<announced, asked, op_q>>
    PROVE  Files_!Next
<1>1. [id |-> told'.id, got |-> told'.got] = [id |-> 0, got |-> {}]
    BY DEF Nothing
<1>2. Files_!Change(f)
    BY <1>1, PendingIs DEF Files_!Change, Files_!Nothing
<1> QED BY <1>2 DEF Files_!Next

\* The versions after a change of f.
LEMMA Versioned ==
    ASSUME IInv, changes < MaxChanges, changes' = changes + 1,
           NEW f \in Files, card' = [card EXCEPT ![f] = @ + 1]
    PROVE  /\ changes' \in Numbers /\ card' \in [Files -> Numbers]
           /\ \A g \in Files : card[g] <= card'[g] /\ card'[g] <= changes'
           /\ \A g \in Files : g # f => card'[g] = card[g]
<1>1. /\ changes \in Nat /\ MaxChanges \in Nat /\ card \in [Files -> Numbers]
      /\ \A g \in Files : card[g] \in Nat /\ card[g] <= changes
    BY SimFsAssumption DEF IInv, CardOK, Numbers
<1>2. \A g \in Files : card'[g] = IF g = f THEN card[g] + 1 ELSE card[g]
    BY <1>1
<1>3. \A g \in Files : card'[g] \in Numbers /\ card[g] <= card'[g] /\ card'[g] <= changes'
    BY <1>1, <1>2 DEF Numbers
<1>4. card' \in [Files -> Numbers]
    BY <1>1, <1>3
<1> QED BY <1>1, <1>2, <1>3, <1>4 DEF Numbers

LEMMA ServeStep ==
    ASSUME IInv, CardServes
    PROVE  IInv' /\ Files_!Next
<1>1. /\ call.what # "none" /\ call.served = "no" /\ told' = Nothing /\ op_q' = op_q
      /\ UNCHANGED <<op_source, fd, cache, announced, imsi, notices, missed, restarts, asked>>
    BY DEF CardServes
<1>2. op_q # <<>>
    BY <1>1, Answered
<1>3. /\ call.version \in Numbers /\ call.what \in {"info", "block", "record", "write"}
      /\ call \in [what : {"none", "info", "block", "record", "write"},
                   served : {"no", "ok", "error"}, version : Numbers]
    BY <1>1 DEF IInv, StepOK
<1>4. /\ notices \subseteq Cached /\ changes \in Numbers /\ card \in [Files -> Numbers]
      /\ \A f \in Files : card[f] \in Int /\ card[f] <= changes
    BY DEF IInv, CardOK, Numbers
<1>5. /\ announced[file] \in Int /\ card[file] \in Int /\ announced[file] <= card[file]
      /\ card[file] \in Numbers
    BY <1>2, OpFacts DEF Numbers
<1>6. CASE call' = [call EXCEPT !.served = "error"] /\ UNCHANGED <<card, changes>>
    <2>1. /\ call'.what = call.what /\ call'.served = "error" /\ call'.version = call.version
          /\ call' = [what |-> call'.what, served |-> call'.served, version |-> call'.version]
        BY <1>3, <1>6
    <2>2. /\ CardOK' /\ QueueOK(op_q', asked', announced') /\ StepOK' /\ CacheOK' /\ OpenOK'
          /\ CacheTruth' /\ ReadInPlace'
        BY <1>1, <1>3, <1>4, <1>6, <2>1, QuietCard
    <2>3. AnswerOK'
        BY <2>1 DEF AnswerOK
    <2>4. Files_!Next
        BY <1>1, <1>6, QuietStep
    <2> QED BY <2>2, <2>3, <2>4 DEF IInv
<1>7. CASE /\ call.what # "write"
           /\ call' = [call EXCEPT !.served = "ok", !.version = card[file]]
           /\ UNCHANGED <<card, changes>>
    <2> DEFINE v == card[file]
    <2>0. v \in Numbers
        BY <1>5
    <2> HIDE DEF v
    <2>1. call' = [call EXCEPT !.served = "ok", !.version = v]
        BY <1>7 DEF v
    <2>2. /\ call'.what = call.what /\ call'.served = "ok" /\ call'.version = v
          /\ call' = [what |-> call'.what, served |-> call'.served, version |-> call'.version]
        BY <1>3, <2>0, <2>1
    <2>3. /\ CardOK' /\ QueueOK(op_q', asked', announced') /\ StepOK' /\ CacheOK' /\ OpenOK'
          /\ CacheTruth' /\ ReadInPlace' /\ file' = file
        BY <1>1, <1>2, <1>3, <1>4, <1>7, <2>0, <2>2, QuietCard
    <2>4. AnswerOK'
        BY <1>1, <1>5, <1>7, <2>2, <2>3 DEF AnswerOK, v
    <2>5. Files_!Next
        BY <1>1, <1>7, QuietStep
    <2> QED BY <2>3, <2>4, <2>5 DEF IInv
<1>8. CASE /\ call.what = "write" /\ changes < MaxChanges
           /\ card' = [card EXCEPT !["writable"] = @ + 1]
           /\ changes' = changes + 1
           /\ call' = [call EXCEPT !.served = "ok"]
    <2>1. /\ call'.what = call.what /\ call'.served = "ok" /\ call'.version = call.version
          /\ call' = [what |-> call'.what, served |-> call'.served, version |-> call'.version]
        BY <1>3, <1>8
    <2>2. "writable" \in Files /\ "writable" \notin Cached
        BY DEF Files, Cached
    <2>3. /\ changes' \in Numbers /\ card' \in [Files -> Numbers]
          /\ \A g \in Files : card[g] <= card'[g] /\ card'[g] <= changes'
          /\ \A g \in Cached : card'[g] = card[g]
        BY <1>8, <2>2, Versioned, CachedFiles
    <2>4. /\ CardOK' /\ QueueOK(op_q', asked', announced') /\ StepOK' /\ CacheOK' /\ OpenOK'
          /\ CacheTruth' /\ ReadInPlace'
        BY <1>1, <1>3, <1>4, <2>1, <2>3, QuietCard
    <2>5. AnswerOK'
        BY <1>8, <2>1 DEF AnswerOK
    <2>6. Files_!Next
        BY <1>1, <1>8, <2>2, CardChanged
    <2> QED BY <2>4, <2>5, <2>6 DEF IInv
<1> QED BY <1>6, <1>7, <1>8 DEF CardServes

LEMMA ChangeStep ==
    ASSUME IInv, NEW f \in Cached, CardChanges(f)
    PROVE  IInv' /\ Files_!Next
<1>1. /\ changes < MaxChanges /\ changes' = changes + 1
      /\ card' = [card EXCEPT ![f] = @ + 1] /\ notices' = notices \cup {f}
      /\ told' = Nothing /\ op_q' = op_q /\ call' = call
      /\ UNCHANGED <<op_source, fd, cache, announced, imsi, missed, restarts, asked>>
    BY DEF CardChanges
<1>2. f \in Files
    BY CachedFiles
<1>3. /\ changes' \in Numbers /\ card' \in [Files -> Numbers]
      /\ \A g \in Files : card[g] <= card'[g] /\ card'[g] <= changes'
      /\ \A g \in Files : g # f => card'[g] = card[g]
    BY <1>1, <1>2, Versioned
<1>4. /\ notices \subseteq notices' /\ notices' \subseteq Cached
      /\ \A g \in Cached : card'[g] = card[g] \/ g \in notices'
    BY <1>1, <1>3, CachedFiles DEF IInv, CardOK
<1>5. /\ CardOK' /\ QueueOK(op_q', asked', announced') /\ StepOK' /\ CacheOK' /\ OpenOK'
      /\ CacheTruth' /\ ReadInPlace' /\ (op_q # <<>> => file' = file)
    BY <1>1, <1>3, <1>4, QuietCard
<1>6. AnswerOK'
    <2> SUFFICES ASSUME call'.served = "ok", call'.what \in {"info", "block", "record"}
                 PROVE  /\ call'.version \in announced'[file'] .. card'[file']
                        /\ call'.version = card'[file'] \/ file' \in notices'
        BY DEF AnswerOK
    <2>1. op_q # <<>> /\ file' = file
        BY <1>1, <1>5, Answered
    <2>2. /\ call.version \in announced[file] .. card[file]
          /\ call.version = card[file] \/ file \in notices
        BY <1>1 DEF IInv, AnswerOK
    <2>3. /\ announced[file] \in Int /\ card[file] \in Int /\ file \in Files
        BY <2>1, OpFacts DEF Numbers
    <2>4. card'[file] \in Int /\ card[file] <= card'[file] /\ (file # f => card'[file] = card[file])
        BY <1>3, <2>3 DEF Numbers
    <2> QED BY <1>1, <2>1, <2>2, <2>3, <2>4
<1>7. Files_!Next
    BY <1>1, <1>2, CardChanged
<1> QED BY <1>5, <1>6, <1>7 DEF IInv

LEMMA ImsiStep ==
    ASSUME IInv, sim_imsi_obtained
    PROVE  IInv' /\ Files_!Next
<1>1. /\ imsi' = TRUE /\ told' = Nothing /\ op_q' = op_q /\ call' = call
      /\ UNCHANGED <<op_source, fd, cache, announced, card, notices, missed, changes, restarts, asked>>
    BY DEF sim_imsi_obtained
<1>2. /\ changes \in Numbers /\ card \in [Files -> Numbers] /\ notices \subseteq Cached
      /\ \A f \in Files : card[f] <= card[f] /\ card[f] <= changes
    BY DEF IInv, CardOK, Numbers
<1>3. /\ changes' \in Numbers /\ card' \in [Files -> Numbers] /\ notices' \subseteq Cached
      /\ notices \subseteq notices'
      /\ \A f \in Files : card[f] <= card'[f] /\ card'[f] <= changes'
      /\ \A f \in Cached : card'[f] = card[f]
    BY <1>1, <1>2
<1>4. /\ CardOK' /\ QueueOK(op_q', asked', announced') /\ StepOK' /\ CacheOK' /\ OpenOK'
      /\ CacheTruth' /\ ReadInPlace' /\ (op_q # <<>> => file' = file)
    BY <1>1, <1>3, QuietCard
<1>5. AnswerOK'
    <2> SUFFICES ASSUME call'.served = "ok", call'.what \in {"info", "block", "record"}
                 PROVE  /\ call'.version \in announced'[file'] .. card'[file']
                        /\ call'.version = card'[file'] \/ file' \in notices'
        BY DEF AnswerOK
    <2>1. op_q # <<>> /\ file' = file
        BY <1>1, <1>4, Answered
    <2> QED BY <1>1, <2>1 DEF IInv, AnswerOK
<1>6. Files_!Next
    BY <1>1, QuietStep
<1> QED BY <1>4, <1>5, <1>6 DEF IInv

LEMMA RefreshStep ==
    ASSUME IInv, NEW F \in SUBSET Cached, refresh(F)
    PROVE  IInv' /\ Files_!Next
<1>1. /\ call.served = "no" /\ Flushed(F)
      /\ notices' = notices \ F /\ missed' = missed \ F
      /\ announced' = [f \in Files |-> IF f \in F THEN card[f] ELSE announced[f]]
      /\ told' = Nothing /\ imsi' \in BOOLEAN /\ op_q' = op_q /\ call' = call /\ card' = card
      /\ UNCHANGED <<op_source, changes, restarts, asked>>
    BY DEF refresh
<1>2. /\ cache' = [f \in Cached |-> IF f \in F THEN NoFile ELSE cache[f]]
      /\ fd' = IF fd.state = "linked" /\ file \in F THEN [state |-> "orphan", file |-> cache[file]] ELSE fd
    BY <1>1 DEF Flushed
<1>3. /\ asked \in 0 .. MaxRequests /\ restarts \in 0 .. MaxRestarts /\ changes \in Numbers
      /\ card \in [Files -> Numbers] /\ announced \in [Files -> Numbers]
      /\ \A f \in Files : announced[f] \in Int /\ card[f] \in Int /\ announced[f] <= card[f] /\ card[f] <= changes
      /\ notices \subseteq Cached /\ missed \subseteq Cached
    BY DEF IInv, CardOK, Numbers
<1>4. \A f \in Files : /\ announced'[f] = IF f \in F THEN card[f] ELSE announced[f]
                       /\ announced'[f] \in Numbers /\ announced'[f] \in Int
                       /\ announced[f] <= announced'[f] /\ announced'[f] <= card[f]
    BY <1>1, <1>3
<1>5. CardOK'
    <2>1. announced' \in [Files -> Numbers]
        BY <1>1, <1>4
    <2> QED BY <1>1, <1>3, <1>4, <2>1 DEF CardOK
<1>6. QueueOK(op_q', asked', announced') /\ ReadInPlace'
    <2>1. QueueOK(op_q, asked, announced)
        BY DEF IInv
    <2>2. QueueOK(op_q, asked, announced')
        BY <1>3, <1>4, <2>1, QueueKnows
    <2> QED BY <1>1, <2>2, Forgotten
<1>7. CacheOK' /\ CacheTruth'
    <2>1. \A f \in Cached : cache'[f] = IF f \in F THEN NoFile ELSE cache[f]
        BY <1>2
    <2>2. cache' = [f \in Cached |-> cache'[f]]
        BY <1>2, <2>1
    <2>3. ASSUME NEW f \in Cached
          PROVE  FileRight(cache'[f], announced'[f], card'[f], f \in Late')
        <3>1. CASE f \in F
            <4>1. cache'[f] = NoFile
                BY <2>1, <3>1
            <4>2. NoFile.there = FALSE
                BY DEF NoFile
            <4> QED BY <4>1, <4>2 DEF FileRight, FileOK
        <3>2. CASE f \notin F
            <4>1. FileRight(cache[f], announced[f], card[f], f \in Late)
                BY FilesRight DEF IInv
            <4>2. /\ cache'[f] = cache[f] /\ announced'[f] = announced[f] /\ card'[f] = card[f]
                  /\ f \in Late' <=> f \in Late
                BY <1>1, <1>4, <2>1, <3>2, CachedFiles DEF Late
            <4> QED BY <4>1, <4>2
        <3> QED BY <3>1, <3>2
    <2> QED BY <2>2, <2>3, FilesRight
<1>8. StepOK' /\ OpenOK'
    <2>2. CASE op_q = <<>>
        <3>1. fd' = Closed
            BY <1>2, <2>2 DEF IInv, OpenOK, Closed
        <3>2. StepOK'
            BY <1>1, <2>2 DEF IInv, StepOK, StepFits
        <3> QED BY <3>1, <3>2, NotOpen
    <2>3. CASE op_q # <<>>
        <3>1. /\ op' = op /\ card[file] \in Int /\ card'[file] = card[file] /\ card[file] <= card'[file]
              /\ op.since \in Int /\ op.since <= announced[file] /\ announced[file] \in Int
            BY <1>1, <2>3, OpFacts DEF Numbers, op
        <3>2. /\ call.served \in {"no", "ok", "error"} /\ call.version \in Numbers
              /\ call = [what |-> call.what, served |-> call.served, version |-> call.version]
            BY DEF IInv, StepOK
        <3>3. StepOK' /\ file' = file
            BY <1>1, <2>3, <3>1, <3>2, StillServed
        <3>4. CASE fd = Linked /\ file \in Cached /\ file \in F
            <4>1. cache[file].there /\ FileOK(cache[file], announced[file], card[file])
                BY <3>4 DEF IInv, OpenOK, CacheOK, Linked, Closed
            <4>2. /\ IsFile(cache[file])
                  /\ \A b \in DOMAIN cache[file].data : cache[file].data[b] \in announced[file] .. card[file]
                BY <4>1 DEF FileOK, NoFile
            <4>3. announced[file] .. card[file] \subseteq op'.since .. card'[file']
                BY <3>1, <3>3
            <4>4. fd' = [state |-> "orphan", file |-> cache[file]]
                BY <1>2, <3>4 DEF Linked
            <4>5. fd'.file = cache[file] /\ fd' = [state |-> "orphan", file |-> fd'.file]
                BY <4>4
            <4>6. \A b \in DOMAIN fd'.file.data : fd'.file.data[b] \in op'.since .. card'[file']
                BY <4>2, <4>3, <4>5
            <4>7. op_q' # <<>> /\ file' \in Cached /\ IsFile(fd'.file)
                BY <1>1, <2>3, <3>3, <3>4, <4>2, <4>5
            <4>8. OpenOK'
                BY <4>5, <4>6, <4>7 DEF OpenOK
            <4> QED BY <3>3, <4>8
        <3>5. CASE fd' = fd /\ ~(fd = Linked /\ file \in F)
            <4>1. fd = Linked => cache'[file].there
                BY <1>2, <3>5 DEF IInv, OpenOK, Linked, Closed
            <4>2. OpenOK'
                BY <1>1, <2>3, <3>1, <3>3, <3>5, <4>1, StillOpen
            <4> QED BY <3>3, <4>2
        <3>6. fd = Linked => file \in Cached
            BY DEF IInv, OpenOK, Linked, Closed
        <3>7. fd.state = "linked" <=> fd = Linked
            BY DEF IInv, OpenOK, Linked, Closed
        <3> QED BY <1>2, <3>4, <3>5, <3>6, <3>7
    <2> QED BY <2>2, <2>3
<1>9. AnswerOK'
    BY <1>1, NoAnswer
<1>10. Files_!Next
    <2>1. [id |-> told'.id, got |-> told'.got] = [id |-> 0, got |-> {}]
        BY <1>1 DEF Nothing
    <2>2. Files_!Announce(F)
        BY <1>1, <2>1, PendingIs DEF Files_!Announce, Files_!Nothing
    <2>3. F \in SUBSET Files
        BY CachedFiles
    <2> QED BY <2>2, <2>3 DEF Files_!Next
<1> QED BY <1>5, <1>6, <1>7, <1>8, <1>9, <1>10 DEF IInv

\* The SIM atom goes, and the queue and the notices with it.
LEMMA GoneStep ==
    ASSUME IInv, Gone, CacheOK', CacheTruth'
    PROVE  IInv' /\ Files_!Next
<1>1. /\ restarts < MaxRestarts /\ restarts' = restarts + 1
      /\ op_q' = <<>> /\ op_source' = "none" /\ call' = NoCall /\ fd' = Closed
      /\ imsi' = FALSE /\ notices' = {} /\ missed' = missed \cup notices
      /\ told' = Nothing
      /\ UNCHANGED <<announced, card, changes, asked>>
    BY DEF Gone
<1>2. CardOK'
    <2>1. restarts \in 0 .. MaxRestarts /\ notices \subseteq Cached /\ missed \subseteq Cached
        BY DEF IInv, CardOK
    <2>2. restarts' \in 0 .. MaxRestarts
        BY <1>1, <2>1, SimFsAssumption
    <2>3. /\ imsi' \in BOOLEAN /\ notices' \subseteq Cached /\ missed' \subseteq Cached
        BY <1>1, <2>1
    <2>4. /\ asked' \in 0 .. MaxRequests /\ changes' \in Numbers
          /\ card' \in [Files -> Numbers] /\ announced' \in [Files -> Numbers]
          /\ \A f \in Files : announced'[f] <= card'[f] /\ card'[f] <= changes'
        BY <1>1 DEF IInv, CardOK
    <2> QED BY <2>2, <2>3, <2>4 DEF CardOK
<1>3. QueueOK(op_q', asked', announced')
    <2> HIDE DEF Ops
    <2>1. <<>> \in Seq(Ops) /\ Len(<<>>) = 0
        OBVIOUS
    <2> QED BY <1>1, <2>1 DEF QueueOK
<1>4. StepOK'
    <2>1. /\ call'.what = "none"
          /\ call' \in [what : {"none", "info", "block", "record", "write"},
                        served : {"no", "ok", "error"}, version : Numbers]
        BY <1>1, SimFsAssumption DEF NoCall, Numbers
    <2> QED BY <1>1, <2>1 DEF StepOK, StepFits
<1>5. AnswerOK' /\ OpenOK' /\ ReadInPlace'
    BY <1>1, NoAnswer, NotOpen, Forgotten DEF NoCall
<1>6. Files_!Next
    <2>1. /\ [id |-> told'.id, got |-> told'.got] = [id |-> 0, got |-> {}]
          /\ Pend(op_q') = Pend(op_q) \ Pend(op_q)
        BY <1>1 DEF Nothing, Pend
    <2>2. PICK gone : gone = Pend(op_q)
        OBVIOUS
    <2>3. Files_!Drop(gone)
        BY <1>1, <2>1, <2>2, PendingIs DEF Files_!Drop, Files_!Nothing
    <2> QED BY <2>2, <2>3, DropIsStep
<1> QED BY <1>2, <1>3, <1>4, <1>5, <1>6 DEF IInv

LEMMA FreedStep ==
    ASSUME IInv, sim_fs_free
    PROVE  IInv' /\ Files_!Next
<1>1. Gone /\ UNCHANGED cache /\ UNCHANGED <<announced, card>>
      /\ notices' = {} /\ missed' = missed \cup notices
    BY DEF sim_fs_free, Gone
<1>2. Late \subseteq Late'
    BY <1>1 DEF Late
<1>3. \A f \in Cached : /\ announced'[f] = announced[f]
                        /\ card'[f] \in Numbers /\ card[f] <= card'[f]
                        /\ card'[f] = card[f]
    BY <1>1, CachedFiles DEF IInv, CardOK, Numbers
<1>4. CacheOK' /\ CacheTruth'
    BY <1>1, <1>2, <1>3, FilesKept
<1> QED BY <1>1, <1>4, GoneStep

LEMMA KilledStep ==
    ASSUME IInv, KilledInCacheBlock
    PROVE  IInv' /\ Files_!Next
<1>1. /\ call.what \in {"block", "record"} /\ call.served = "ok" /\ fd.state = "linked"
      /\ Writes(FirstWrite(OpenFile, op.current, call.version))
      /\ Gone /\ UNCHANGED <<announced, card>>
      /\ notices' = {} /\ missed' = missed \cup notices
    BY DEF KilledInCacheBlock, Gone
<1>2. Late \subseteq Late' /\ op_q # <<>>
    BY <1>1, Answered DEF Late
<1>3. CacheOK' /\ CacheTruth'
    BY <1>1, <1>2, BlockWritten
<1> QED BY <1>1, <1>3, GoneStep

-----------------------------------------------------------------------------
(* The theorems.                                                           *)

LEMMA Initially ==
    ASSUME Init
    PROVE  IInv /\ Files_!Init
<1>1. /\ op_q = <<>> /\ op_source = "none" /\ call = NoCall /\ fd = Closed
      /\ cache = [f \in Cached |-> NoFile]
      /\ imsi \in BOOLEAN
      /\ card = [f \in Files |-> 0] /\ announced = [f \in Files |-> 0]
      /\ notices = {} /\ missed = {}
      /\ asked = 0 /\ changes = 0 /\ restarts = 0
      /\ told = Nothing
    BY DEF Init
<1>2. 0 \in Numbers /\ 0 \in 0 .. MaxRequests /\ 0 \in 0 .. MaxRestarts
    BY SimFsAssumption DEF Numbers
<1>3. CardOK
    BY <1>1, <1>2 DEF CardOK
<1>4. QueueOK(op_q, asked, announced)
    <2> HIDE DEF Ops
    <2>1. <<>> \in Seq(Ops) /\ Len(<<>>) = 0
        OBVIOUS
    <2> QED BY <1>1, <2>1 DEF QueueOK
<1>5. StepOK
    <2>1. /\ call.what = "none"
          /\ call \in [what : {"none", "info", "block", "record", "write"},
                       served : {"no", "ok", "error"}, version : Numbers]
        BY <1>1, <1>2 DEF NoCall
    <2> QED BY <1>1, <2>1 DEF StepOK, StepFits
<1>6. CacheOK /\ CacheTruth
    <2>1. \A f \in Cached : cache[f] = NoFile
        BY <1>1
    <2>2. cache = [f \in Cached |-> cache[f]]
        BY <1>1, <2>1
    <2>3. NoFile.there = FALSE
        BY DEF NoFile
    <2>4. \A f \in Cached : FileRight(cache[f], announced[f], card[f], f \in Late)
        BY <2>1, <2>3 DEF FileRight, FileOK
    <2> QED BY <2>2, <2>4, FilesRight
<1>7. OpenOK /\ AnswerOK /\ ReadInPlace
    BY <1>1 DEF OpenOK, AnswerOK, ReadInPlace, NoCall, Nothing
<1>8. Files_!Init
    <2>1. Pend(op_q) = {} /\ [id |-> told.id, got |-> told.got] = [id |-> 0, got |-> {}]
        BY <1>1 DEF Pend, Nothing
    <2>2. announced = card
        BY <1>1
    <2> QED BY <1>1, <2>1, <2>2, PendingIs DEF Files_!Init, Files_!Nothing
<1> QED BY <1>3, <1>4, <1>5, <1>6, <1>7, <1>8 DEF IInv

LEMMA EachStep ==
    ASSUME IInv, Next
    PROVE  IInv' /\ Files_!Next
BY AskStep, FreeStep, NextStep, InfoStep, WriteStep, ReadBlockStep, BlockStep, ReadRecordStep,
   RecordStep, ServeStep, ChangeStep, RefreshStep, ImsiStep, FreedStep, KilledStep DEF Next

LEMMA Stuttering ==
    ASSUME IInv, UNCHANGED vars
    PROVE  IInv' /\ UNCHANGED Files_!vars
<1>1. /\ op_q' = op_q /\ op_source' = op_source /\ call' = call /\ fd' = fd /\ cache' = cache
      /\ announced' = announced /\ imsi' = imsi /\ card' = card /\ notices' = notices
      /\ missed' = missed /\ changes' = changes /\ restarts' = restarts /\ asked' = asked
      /\ told' = told
    BY DEF vars, env
<1>2. op' = op
    BY <1>1 DEF op
<1>3. file' = file
    BY <1>2 DEF file
<1>4. LastBlock' = LastBlock /\ NumBytes' = NumBytes
    BY <1>2 DEF LastBlock, Offset, NumBytes
<1>5. CardOK' /\ QueueOK(op_q', asked', announced')
    BY <1>1 DEF IInv, CardOK
<1>6. StepOK'
    BY <1>1, <1>2, <1>3, <1>4 DEF IInv, StepOK, StepFits, BufferOK
<1>7. CacheOK' /\ CacheTruth' /\ ReadInPlace'
    BY <1>1 DEF IInv, CacheOK, CacheTruth, ReadInPlace
<1>8. OpenOK' /\ AnswerOK'
    BY <1>1, <1>2, <1>3 DEF IInv, OpenOK, AnswerOK
<1>9. UNCHANGED Files_!vars
    <2>1. Pend(op_q') = Pend(op_q) /\ [id |-> told'.id, got |-> told'.got] = [id |-> told.id, got |-> told.got]
        BY <1>1
    <2> QED BY <1>1, <2>1, PendingIs DEF Files_!vars
<1> QED BY <1>5, <1>6, <1>7, <1>8, <1>9 DEF IInv

\* The inductive invariant: op_source, call, op_q, fd and the cache of sim_fs
\* fit together in every state.
THEOREM Invariant == Spec => []IInv
<1>1. Init => IInv
    BY Initially
<1>2. IInv /\ [Next]_vars => IInv'
    BY EachStep, Stuttering
<1> QED BY <1>1, <1>2, PTL DEF Spec

\* The block an operation is at is a block of its file.
LEMMA BlockOfFile ==
    ASSUME IInv, op_q # <<>>
    PROVE  op.current \in Blocks(FileOf(op.req))
<1>1. /\ op.req \in AllRequests /\ op.current \in 0 .. LastBlock /\ StepFits
    BY OpFacts DEF IInv, StepOK
<1>2. op.req = "write" => op.current = 0
    BY <1>1 DEF IInv, StepOK, StepFits, InBlocks
<1>3. /\ op.req \in {"bytes", "read"} => LastBlock = 0
      /\ op.req = "records" => LastBlock = Records - 1
      /\ op.req \notin {"records", "bytes", "read"} => LastBlock = (Length - 1) \div BLOCK
      /\ LastBlock \in Nat /\ (Length - 1) \div BLOCK \in Nat
    BY BlockFacts, SimFsAssumption
<1> QED BY <1>1, <1>2, <1>3 DEF Blocks, FileOf, AllRequests

\* At any moment exactly one of the idle source and the driver's call serves
\* the queue of operations, whatever the callbacks queue, free and end, and
\* what a read returns is where it was asked for (sim_fs_op_*, simfs.c).
THEOREM AlwaysServed == Spec => []OperationsAreServed
<1>1. IInv => OperationsAreServed
    <2> SUFFICES ASSUME IInv PROVE OperationsAreServed
        OBVIOUS
    <2>1. /\ QueueOK(op_q, asked, announced) /\ asked \in Nat
          /\ DOMAIN op_q = 1 .. Len(op_q) /\ \A i \in 1 .. Len(op_q) : op_q[i] \in Ops
          /\ op_q # <<>> => op = op_q[1]
        BY QueueFacts DEF IInv, CardOK, op
    <2>2. ASSUME NEW i \in DOMAIN op_q
          PROVE  /\ op_q[i].id \in 1 .. asked /\ op_q[i].client \in Clients /\ op_q[i].req \in Requests
                 /\ op_q[i].cb \in BOOLEAN /\ op_q[i].since \in Numbers
                 /\ op_q[i].current \in Blocks(FileOf(op_q[i].req)) /\ op_q[i].buffer \in Buffers
        <3>1. op_q[i] \in Ops /\ op_q[i].id \in 1 .. asked /\ op_q # <<>>
            BY <2>1 DEF QueueOK
        <3>2. op_q[i].current \in Blocks(FileOf(op_q[i].req))
            <4>1. CASE i = 1
                BY <2>1, <3>1, <4>1, BlockOfFile
            <4>2. CASE i # 1
                <5>1. i \in 2 .. Len(op_q)
                    BY <2>1, <2>2, <4>2
                <5>2. op_q[i].current = 0
                    BY <2>1, <5>1 DEF QueueOK, Untouched
                <5>3. 0 \in Blocks(FileOf(op_q[i].req))
                    <6>1. (Length - 1) \div BLOCK \in Nat
                        BY SimFsAssumption
                    <6> QED BY <6>1, SimFsAssumption DEF Blocks
                <5> QED BY <5>2, <5>3
            <4> QED BY <4>1, <4>2
        <3> QED BY <3>1, <3>2 DEF Ops
    <2>3. \A f \in Cached : cache[f] = NoFile \/ IsFile(cache[f])
        BY DEF IInv, CacheOK, FileOK
    <2>4. fd \in {Closed, Linked} \/ (fd.state = "orphan" /\ IsFile(fd.file))
        BY DEF IInv, OpenOK
    <2>5. TypeOK
        BY <2>2, <2>3, <2>4 DEF TypeOK, IInv, CardOK, StepOK
    <2>6. QueueIsServed
        BY DEF QueueIsServed, IInv, StepOK, OpenOK, Closed
    <2> QED BY <2>5, <2>6 DEF OperationsAreServed, IInv
<1> QED BY <1>1, Invariant, PTL

\* What the cache on disk says of a file is what the card holds, or the card's
\* REFRESH is still to be handled or was lost: also after a kill between the
\* two writes of cache_block, and after the file was flushed while it was open.
THEOREM CacheIsTrue == Spec => []CacheTruth
<1>1. IInv => CacheTruth
    BY DEF IInv
<1> QED BY <1>1, Invariant, PTL

\* The SIM file system implements SimFiles: the clients' requests are served in
\* order, each with content no older than what the card had announced of the
\* file when they asked; cache, flushes and restarts do not show.
THEOREM FilesImplemented == Spec => ImplementsFiles
<1>1. Init => Files_!Init
    BY Initially
<1>2. IInv /\ [Next]_vars => [Files_!Next]_Files_!vars
    BY EachStep, Stuttering
<1> QED BY <1>1, <1>2, Invariant, PTL DEF Spec, ImplementsFiles, Files_!Spec
==============================================================================
