-------------------------------- MODULE SimFs --------------------------------
(***************************************************************************)
(* The SIM file system of ofono-wifi/src/simfs.c: a queue of operations on *)
(* the card's elementary files, served one at a time by the driver, with a *)
(* cache on disk of the files that only the operator can change.  The card *)
(* changes such a file at any time and announces it later with REFRESH,    *)
(* whereupon its cache is flushed (__ofono_sim_refresh of src/sim.c).      *)
(*                                                                         *)
(* Three files stand for all: "transparent" and "linear" are cached,       *)
(* "writable" is a transparent file of one block that the user may write.  *)
(* A file's content is the version it had when it was read.  Blocks are    *)
(* numbered from 0, records too (record n of the code is block n - 1).     *)
(***************************************************************************)
EXTENDS Integers, Sequences, FiniteSets, Queues

CONSTANTS
    Clients,        \* ofono_sim_context
    BLOCK,          \* 256 in the code
    Length,         \* bytes of the transparent file
    Records,        \* records of the linear file
    Requests,       \* what clients ask for, of AllRequests
    MaxRequests,    \* bound: operations ever queued
    MaxChanges,     \* bound: changes of files by the card or the user
    MaxRestarts     \* bound: how often the SIM atom goes

Cached == {"transparent", "linear"}
Files == Cached \cup {"writable"}
AllRequests == {"whole", "bytes", "records", "info", "mismatch", "read", "write"}

ASSUME SimFsAssumption ==
    /\ BLOCK \in Nat /\ BLOCK > 1 /\ Length \in Nat /\ Length >= BLOCK
    /\ Records \in Nat \ {0}
    /\ Requests \subseteq AllRequests
    /\ MaxRequests \in Nat /\ MaxChanges \in Nat /\ MaxRestarts \in Nat

FileOf(req) ==
    CASE req = "records" -> "linear" [] req \in {"read", "write"} -> "writable"
      [] OTHER -> "transparent"

VARIABLES
    op_q,           \* sim_fs_op: id, client, req, cb, current, buffer, since
    op_source,      \* the idle source: "none", "next", "block" or "record"
    call,           \* the driver's running call, and what the card answered
    fd,             \* the open cache file: "closed", "linked", or an "orphan"
                    \* that was removed from the disk meanwhile
    cache,          \* the files on disk: there, header, bits, data
    imsi,           \* is the IMSI known?
    card, announced,\* versions on the card, and as last announced by it
    notices,        \* changed files whose REFRESH has not been handled
    missed,         \* files whose REFRESH was lost with ofonod
    asked, changes, restarts,
    told            \* history: the last callback

env == <<imsi, card, notices, missed, changes, restarts>>
vars == <<op_q, op_source, call, fd, cache, announced, env, asked, told>>

NoCall == [what |-> "none", served |-> "no", version |-> 0]
NoFile == [there |-> FALSE, header |-> 0, bits |-> {}, data |-> [b \in {} |-> 0]]
Closed == [state |-> "closed", file |-> NoFile]
Linked == [state |-> "linked", file |-> NoFile]
Nothing == [id |-> 0, req |-> "none", got |-> {}, bytes |-> <<>>]

Init ==
    /\ op_q = <<>> /\ op_source = "none" /\ call = NoCall /\ fd = Closed
    /\ cache = [f \in Cached |-> NoFile]
    /\ imsi \in BOOLEAN
    /\ card = [f \in Files |-> 0] /\ announced = card
    /\ notices = {} /\ missed = {}
    /\ asked = 0 /\ changes = 0 /\ restarts = 0
    /\ told = Nothing

op == Head(op_q)
file == FileOf(op.req)

-----------------------------------------------------------------------------
(* The queue.                                                              *)

Op(c, req) ==
    [id |-> asked + 1, client |-> c, req |-> req, cb |-> TRUE, current |-> 0, buffer |-> <<>>,
     since |-> announced[FileOf(req)]]

\* sim_fs_read, sim_fs_read_info and sim_fs_write.
submit(c, req) ==
    /\ asked < MaxRequests
    /\ asked' = asked + 1
    /\ op_q' = Append(op_q, Op(c, req))
    /\ op_source' = IF Len(op_q') = 1 THEN "next" ELSE op_source
    /\ told' = Nothing
    /\ UNCHANGED <<call, fd, cache, announced, env>>

\* The first operation is kept, without its callback: the driver may be at it.
WithoutClient(q, c) ==
    IF q = <<>> THEN q
    ELSE <<[Head(q) EXCEPT !.cb = @ /\ Head(q).client # c]>>
            \o Without(Tail(q), {q[i] : i \in {j \in DOMAIN q : q[j].client = c}})

context_free(c) ==
    /\ \E i \in DOMAIN op_q : op_q[i].client = c /\ op_q[i].cb
    /\ op_q' = WithoutClient(op_q, c)
    /\ told' = Nothing
    /\ UNCHANGED <<op_source, call, fd, cache, announced, env, asked>>

end_currentUnlessTwo(q) ==
    /\ op_q' = Tail(q)
    /\ op_source' = IF Len(q) > 2 THEN "next" ELSE "none"
    /\ fd' = Closed

end_current(q) ==
    /\ op_q' = Tail(q)
    /\ op_source' = IF Len(q) > 1 THEN "next" ELSE "none"
    /\ fd' = Closed

\* What a callback leaves of the queue q: it may queue another operation; the
\* last callback of an operation may free its context.
Reactions(q, last) ==
    {q} \cup {Append(q, Op(op.client, req)) : req \in IF asked < MaxRequests THEN Requests ELSE {}}
        \cup (IF last THEN {WithoutClient(q, op.client)} ELSE {})

Asked(q) == asked' = IF Len(q) > Len(op_q) THEN asked + 1 ELSE asked

Tells(got, bytes) == told' = [id |-> op.id, req |-> op.req, got |-> got, bytes |-> bytes]

\* The last callback, if there is one, and the end of the operation.
Finish(got, bytes) ==
    IF op.cb
    THEN /\ Tells(got, bytes)
         /\ \E q \in Reactions(op_q, TRUE) : end_current(q) /\ Asked(q)
    ELSE end_current(op_q) /\ told' = Nothing /\ UNCHANGED asked

op_error == Finish({}, <<>>)

\* The operation goes on as o, with its next step in an idle source.
GoOn(o, source) ==
    /\ op_q' = <<o>> \o Tail(op_q)
    /\ op_source' = source
    /\ told' = Nothing
    /\ UNCHANGED asked

Calls(what) == call' = [what |-> what, served |-> "no", version |-> 0]

-----------------------------------------------------------------------------
(* The cache on disk.                                                      *)

Header(version) == [there |-> TRUE, header |-> version, bits |-> {}, data |-> [b \in {} |-> 0]]

\* The two writes of cache_block, in their order.
WriteData(c, b, version) ==
    [c EXCEPT !.data = [x \in DOMAIN @ \cup {b} |-> IF x = b THEN version ELSE @[x]]]
WriteBit(c, b) == [c EXCEPT !.bits = @ \cup {b}]

FirstWriteBit(c, b, version) == WriteBit(c, b)
FirstWrite(c, b, version) == WriteData(c, b, version)
SecondWrite(c, b, version) == WriteBit(WriteData(c, b, version), b)

OpenFile == IF fd.state = "linked" THEN cache[file] ELSE fd.file

\* The open file becomes c.
Writes(c) ==
    IF fd.state = "linked" THEN cache' = [cache EXCEPT ![file] = c] ELSE UNCHANGED cache

\* Either write may fail, and the next block is tried all the same.
cache_block(b, version) ==
    \/ UNCHANGED cache
    \/ fd.state # "closed" /\ Writes(FirstWrite(OpenFile, b, version))
    \/ fd.state # "closed" /\ Writes(SecondWrite(OpenFile, b, version))

\* Only files that nobody but the operator can write, and of a known card.
cache_fileinfo(version) ==
    IF imsi /\ file \in Cached
    THEN \/ /\ cache' = [cache EXCEPT ![file] = Header(version)]
            /\ fd' = Linked
         \/ UNCHANGED <<cache, fd>>
    ELSE UNCHANGED <<cache, fd>>

-----------------------------------------------------------------------------
(* Reading.  A transparent file is read in blocks, into a buffer.          *)

Least(a, b) == IF a < b THEN a ELSE b
Offset == IF op.req = "bytes" THEN 1 ELSE 0
NumBytes == CASE op.req = "bytes" -> BLOCK - 1 [] op.req = "read" -> BLOCK [] OTHER -> Length
Blocks(f) ==
    CASE f = "linear" -> 0 .. Records - 1
      [] f = "transparent" -> 0 .. (Length - 1) \div BLOCK
      [] OTHER -> {0}

LastBlock ==
    IF op.req = "records" THEN Records - 1 ELSE (Offset + NumBytes - 1) \div BLOCK

Zeros == [i \in 0 .. NumBytes - 1 |-> [at |-> -1, version |-> 0]]

CopiedFromStart(buffer, b, version) ==
    [i \in DOMAIN buffer |->
        IF i \in b * BLOCK .. (b + 1) * BLOCK - 1 THEN [at |-> i, version |-> version] ELSE buffer[i]]

\* The buffer after block b of the version is copied into it (the requests
\* start in block 0).
Copied(buffer, b, version) ==
    LET bufoff == IF b = 0 THEN 0 ELSE (b - 1) * BLOCK + Offset
        dataoff == IF b = 0 THEN Offset ELSE 0
        tocopy == IF b = 0 THEN Least(BLOCK - Offset, NumBytes) ELSE Least(BLOCK, NumBytes - b * BLOCK)
    IN  [i \in DOMAIN buffer |->
            IF i \in bufoff .. bufoff + tocopy - 1
            THEN [at |-> b * BLOCK + dataoff + i - bufoff, version |-> version]
            ELSE buffer[i]]

Versions(buffer) == {buffer[i].version : i \in {j \in DOMAIN buffer : buffer[j].at >= 0}}

\* The blocks that are read from the cache at once, from the current one on.
Present == {b \in op.current .. LastBlock : op.current .. b \subseteq OpenFile.bits}

FromCache(buffer) ==
    LET after[n \in 0 .. Cardinality(Present)] ==
            IF n = 0 THEN buffer
            ELSE Copied(after[n - 1], op.current + n - 1, OpenFile.data[op.current + n - 1])
    IN  after[Cardinality(Present)]

op_read_block ==
    /\ op_source = "block"
    /\ UNCHANGED <<cache, announced, env>>
    /\ IF ~op.cb THEN /\ end_current(op_q) /\ told' = Nothing
                      /\ UNCHANGED <<call, asked>>
       ELSE LET buffer == FromCache(IF op.current = 0 THEN Zeros ELSE op.buffer)
                next == op.current + Cardinality(Present)
            IN  IF next > LastBlock THEN Finish(Versions(buffer), buffer) /\ UNCHANGED call
                ELSE /\ GoOn([op EXCEPT !.buffer = buffer, !.current = next], "none")
                     /\ Calls("block")
                     /\ UNCHANGED fd

op_read_block_cb ==
    /\ call.what = "block" /\ call.served # "no"
    /\ call' = NoCall
    /\ UNCHANGED <<announced, env>>
    /\ IF call.served = "error" THEN op_error /\ UNCHANGED cache
       ELSE LET buffer == Copied(op.buffer, op.current, call.version)
            IN  /\ cache_block(op.current, call.version)
                /\ IF ~op.cb \/ op.current = LastBlock THEN Finish(Versions(buffer), buffer)
                   ELSE /\ GoOn([op EXCEPT !.buffer = buffer, !.current = @ + 1], "block")
                        /\ UNCHANGED fd

\* A linear file has a callback for each record.
op_read_record ==
    /\ op_source = "record"
    /\ UNCHANGED <<cache, announced, env>>
    /\ IF ~op.cb THEN /\ end_current(op_q) /\ told' = Nothing
                      /\ UNCHANGED <<call, asked>>
       ELSE LET got == {OpenFile.data[b] : b \in Present}
                next == op.current + Cardinality(Present)
            IN  IF next > LastBlock THEN Finish(got, <<>>) /\ UNCHANGED call
                ELSE /\ Calls("record")
                     /\ op_source' = "none"
                     /\ UNCHANGED fd
                     /\ IF got = {} THEN told' = Nothing /\ UNCHANGED <<op_q, asked>>
                        ELSE /\ Tells(got, <<>>)
                             /\ \E q \in Reactions(op_q, FALSE) :
                                    Asked(q) /\ op_q' = [q EXCEPT ![1].current = next]

op_retrieve_cb ==
    /\ call.what = "record" /\ call.served # "no"
    /\ call' = NoCall
    /\ UNCHANGED <<announced, env>>
    /\ IF call.served = "error" THEN op_error /\ UNCHANGED cache
       ELSE /\ cache_block(op.current, call.version)
            /\ IF ~op.cb \/ op.current = LastBlock THEN Finish({call.version}, <<>>)
               ELSE /\ Tells({call.version}, <<>>)
                    /\ \E q \in Reactions(op_q, FALSE) :
                            Asked(q) /\ op_q' = [q EXCEPT ![1].current = @ + 1]
                    /\ op_source' = "record"
                    /\ UNCHANGED fd

-----------------------------------------------------------------------------
(* The beginning of an operation: the file's header, cached or not.        *)

\* The next step of a read whose header has the version.
WithHeader(version) ==
    CASE op.req = "mismatch" -> op_error
      [] op.req = "info" -> Finish({version}, <<>>)
      [] op.req = "records" -> GoOn(op, "record")
      [] OTHER -> GoOn(op, "block")

op_next ==
    /\ op_source = "next"
    /\ UNCHANGED <<cache, announced, env>>
    /\ CASE ~op.cb -> /\ end_current(op_q) /\ told' = Nothing
                      /\ UNCHANGED <<call, asked>>
         [] op.cb /\ op.req = "write" ->
                      Calls("write") /\ GoOn(op, "none") /\ UNCHANGED fd
         [] op.cb /\ op.req # "write" /\ imsi /\ file \in Cached /\ cache[file].there ->
                      /\ WithHeader(cache[file].header)
                      /\ UNCHANGED call
                      /\ op.req \notin {"mismatch", "info"} => fd' = Linked
         [] OTHER -> Calls("info") /\ GoOn(op, "none") /\ UNCHANGED fd

\* The cache file is created before the operation is looked at.
op_info_cb ==
    /\ call.what = "info" /\ call.served # "no"
    /\ call' = NoCall
    /\ UNCHANGED <<announced, env>>
    /\ CASE call.served = "error" -> op_error /\ UNCHANGED cache
         [] call.served = "ok" /\ (op.req \in {"mismatch", "info"} \/ ~op.cb) ->
                /\ \/ UNCHANGED cache
                   \/ /\ imsi /\ file \in Cached
                      /\ cache' = [cache EXCEPT ![file] = Header(call.version)]
                /\ IF op.cb THEN WithHeader(call.version) ELSE Finish({}, <<>>)
         [] OTHER -> cache_fileinfo(call.version) /\ WithHeader(call.version)

op_write_cb ==
    /\ call.what = "write" /\ call.served # "no"
    /\ call' = NoCall
    /\ Finish({}, <<>>)
    /\ announced' = IF call.served = "ok" THEN [announced EXCEPT !["writable"] = card["writable"]]
                    ELSE announced
    /\ UNCHANGED <<cache, env>>

-----------------------------------------------------------------------------
(* The card, REFRESH, and the end of the atom.                             *)

CardServes ==
    /\ call.what # "none" /\ call.served = "no"
    /\ told' = Nothing
    /\ \/ call' = [call EXCEPT !.served = "error"] /\ UNCHANGED <<card, changes>>
       \/ /\ call.what # "write"
          /\ call' = [call EXCEPT !.served = "ok", !.version = card[file]]
          /\ UNCHANGED <<card, changes>>
       \/ /\ call.what = "write" /\ changes < MaxChanges
          /\ card' = [card EXCEPT !["writable"] = @ + 1]
          /\ changes' = changes + 1
          /\ call' = [call EXCEPT !.served = "ok"]
    /\ UNCHANGED <<op_q, op_source, fd, cache, announced, imsi, notices, missed, restarts, asked>>

CardChanges(f) ==
    /\ changes < MaxChanges
    /\ changes' = changes + 1
    /\ card' = [card EXCEPT ![f] = @ + 1]
    /\ notices' = notices \cup {f}
    /\ told' = Nothing
    /\ UNCHANGED <<op_q, op_source, call, fd, cache, announced, imsi, missed, restarts, asked>>

FlushedHeaderOnly(F) ==
    /\ cache' = [f \in Cached |-> IF f \in F THEN [cache[f] EXCEPT !.header = card[f]] ELSE cache[f]]
    /\ UNCHANGED fd

\* remove() of the cache files of F: one that is open lives on unseen.
Flushed(F) ==
    /\ cache' = [f \in Cached |-> IF f \in F THEN NoFile ELSE cache[f]]
    /\ fd' = IF fd.state = "linked" /\ file \in F THEN [state |-> "orphan", file |-> cache[file]]
             ELSE fd

\* The SIM toolkit hears of REFRESH only when the SIM is ready, and after the
\* answers the card gave before it.  A full refresh flushes everything; the
\* SIM may be initialised anew.
refresh(F) ==
    /\ imsi /\ F \cap notices # {} /\ call.served = "no"
    /\ Flushed(F)
    /\ notices' = notices \ F /\ missed' = missed \ F
    /\ announced' = [f \in Files |-> IF f \in F THEN card[f] ELSE announced[f]]
    /\ told' = Nothing
    /\ imsi' \in BOOLEAN
    /\ UNCHANGED <<op_q, op_source, call, card, changes, restarts, asked>>

sim_imsi_obtained ==
    /\ ~imsi
    /\ imsi' = TRUE
    /\ told' = Nothing
    /\ UNCHANGED <<op_q, op_source, call, fd, cache, announced, card, notices, missed, changes,
                   restarts, asked>>

Gone ==
    /\ restarts < MaxRestarts
    /\ restarts' = restarts + 1
    /\ op_q' = <<>> /\ op_source' = "none" /\ call' = NoCall /\ fd' = Closed
    /\ imsi' = FALSE
    /\ notices' = {} /\ missed' = missed \cup notices
    /\ told' = Nothing
    /\ UNCHANGED <<announced, card, changes, asked>>

sim_fs_free == Gone /\ UNCHANGED cache

\* ofonod is killed between the two writes of cache_block.
KilledInCacheBlock ==
    /\ call.what \in {"block", "record"} /\ call.served = "ok" /\ fd.state = "linked"
    /\ Writes(FirstWrite(OpenFile, op.current, call.version))
    /\ Gone

Next ==
    \/ \E c \in Clients : (\E req \in Requests : submit(c, req)) \/ context_free(c)
    \/ op_next \/ op_info_cb \/ op_write_cb
    \/ op_read_block \/ op_read_block_cb \/ op_read_record \/ op_retrieve_cb
    \/ CardServes \/ (\E f \in Cached : CardChanges(f))
    \/ (\E F \in SUBSET Cached : refresh(F)) \/ sim_imsi_obtained
    \/ sim_fs_free \/ KilledInCacheBlock

Driver == op_info_cb \/ op_write_cb \/ op_read_block_cb \/ op_retrieve_cb \/ CardServes
Idle == op_next \/ op_read_block \/ op_read_record

Fairness == WF_vars(Idle) /\ WF_vars(Driver)

Spec == Init /\ [][Next]_vars /\ Fairness

-----------------------------------------------------------------------------
(* Properties.                                                             *)

Numbers == 0 .. MaxChanges
Bytes == [at : -1 .. Length + BLOCK, version : Numbers]
Buffers == {<<>>} \cup UNION {[0 .. n - 1 -> Bytes] : n \in {BLOCK - 1, BLOCK, Length}}
IsFile(c) ==
    /\ c.there /\ c.header \in Numbers /\ c.bits \subseteq DOMAIN c.data
    /\ \A b \in DOMAIN c.data : c.data[b] \in Numbers

\* Types; a bit of a cache file is set only for a block that was written.
TypeOK ==
    /\ \A i \in DOMAIN op_q :
        /\ op_q[i].id \in 1 .. asked /\ op_q[i].client \in Clients /\ op_q[i].req \in Requests
        /\ op_q[i].cb \in BOOLEAN /\ op_q[i].since \in Numbers
        /\ op_q[i].current \in Blocks(FileOf(op_q[i].req)) /\ op_q[i].buffer \in Buffers
    /\ op_source \in {"none", "next", "block", "record"}
    /\ call \in [what : {"none", "info", "block", "record", "write"},
                 served : {"no", "ok", "error"}, version : Numbers]
    /\ fd \in {Closed, Linked} \/ (fd.state = "orphan" /\ IsFile(fd.file))
    /\ \A f \in Cached : cache[f] = NoFile \/ IsFile(cache[f])
    /\ imsi \in BOOLEAN /\ asked \in 0 .. MaxRequests /\ restarts \in 0 .. MaxRestarts
    /\ card \in [Files -> Numbers] /\ announced \in [Files -> Numbers]
    /\ notices \subseteq Cached /\ missed \subseteq Cached /\ changes \in Numbers

\* While operations are queued exactly one of the idle source and the driver's
\* call takes them on, else neither, whatever callbacks queue, free and end in
\* between; a cache file is open only for the operation being served.
QueueIsServed ==
    /\ op_q # <<>> <=> (op_source # "none" \/ call.what # "none")
    /\ op_source = "none" \/ call.what = "none"
    /\ fd.state # "closed" => op_q # <<>> /\ file \in Cached

\* What the cache says of a file is what the card holds, unless the card's
\* REFRESH is still to be handled or was lost with ofonod: also after ofonod
\* was killed between the writes of a block, after a write failed, and after a
\* file was removed while it was being filled (cache_block, cache_flush_file).
CacheTruth ==
    \A f \in Cached \ (notices \cup missed) :
        cache[f].there =>
            /\ cache[f].header = card[f]
            /\ \A b \in cache[f].bits : b \in DOMAIN cache[f].data /\ cache[f].data[b] = card[f]

\* A read within the first block returns the bytes it asked for, put together
\* from the cache, the card, or both.
ReadInPlace ==
    told.bytes # <<>> /\ told.req \in {"bytes", "read"} =>
        \A i \in DOMAIN told.bytes : told.bytes[i].at = i + (IF told.req = "bytes" THEN 1 ELSE 0)

\* The queue of operations, and what it puts together from cache and card.
OperationsAreServed == TypeOK /\ QueueIsServed /\ ReadInPlace

\* The clients see requests served in order, each by its own answer, with
\* content no older than what was announced when they asked (SimFiles): the
\* cache, its flushing and the restarts are invisible.
Files_ == INSTANCE SimFiles WITH
    pending <- {[id |-> op_q[i].id, client |-> op_q[i].client, file |-> FileOf(op_q[i].req),
                 since |-> op_q[i].since] : i \in {j \in DOMAIN op_q : op_q[j].cb}},
    told <- [id |-> told.id, got |-> told.got]
ImplementsFiles == Files_!Spec

\* Every operation ends, by the card's answers or with the SIM atom.
Queued(n) == \E i \in DOMAIN op_q : op_q[i].id = n
EveryRequestEnds == \A n \in 1 .. MaxRequests : Queued(n) ~> ~Queued(n)

\* include/sim.h says of a read that it is "to read all available records with
\* id from the SIM" and that "for transparent files, the callback will only be
\* called once": the one call has the whole file.
WholeRead ==
    told.bytes # <<>> /\ told.req = "whole" =>
        \A i \in DOMAIN told.bytes : told.bytes[i].at = i
==============================================================================
