----------------------------- MODULE GprsProofs -----------------------------
(***************************************************************************)
(* AttachmentAgrees, ContextsAgree and DeactivateAllMeansAll of Gprs for   *)
(* every number of contexts, drivers, cids, events and outstanding         *)
(* requests; contexts with as many cids as can be in use or lost.  a is,   *)
(* as in Gprs, what the functions of gprs.c change: the atom, the requests *)
(* at the attach driver, who decided last, and the context drivers.        *)
(***************************************************************************)
EXTENDS Gprs, FiniteSetTheorems, WellFoundedInduction, TLAPS

Flags == {"ATTACHING", "RECHECK", "ATTACHED_UPDATE"}
Atoms == [powered : BOOLEAN, roaming_allowed : BOOLEAN,
          netreg : Statuses \cup {"absent"}, status : Statuses,
          driver_attached : BOOLEAN, attached : BOOLEAN, flags : SUBSET Flags,
          pending : {"none", "remove", "all"}, cids : SUBSET (1 .. MaxCid)]
Calls == {"attach", "detach", "status"}
Deciders == {"update", "network", "failure"}

IsRecord(a) ==
    a \in [gprs : {a.gprs}, asked : {a.asked}, decided : {a.decided}, gc : {a.gc}]

Typed(a) == IsRecord(a) /\ a.gprs \in Atoms /\ a.asked \in Seq(Calls) /\ a.decided \in Deciders

\* While ATTACHING is set an answer is to come, which clears it.
Answerable(a) == "ATTACHING" \in a.gprs.flags => a.asked # <<>>

\* A second look is only due at the end of an attach request.
RecheckInTime(a) == "RECHECK" \in a.gprs.flags => "ATTACHING" \in a.gprs.flags

\* Unless a second look is due, the settings were followed, or the network
\* attached a modem that is switched on.
Wanted(a) ==
    "RECHECK" \notin a.gprs.flags =>
        /\ a.decided = "update" => a.gprs.driver_attached = Wish(a.gprs)
        /\ a.decided = "network" /\ a.gprs.driver_attached => a.gprs.powered

Roams(g) == ~g.roaming_allowed /\ g.status = "roaming" /\ g.netreg = "roaming"

Truthful(g) ==
    /\ g.attached => g.driver_attached /\ g.status \in Registered
    /\ g.driver_attached /\ g.status \in Registered
         => g.attached \/ "ATTACHED_UPDATE" \in g.flags

AtRest(a) ==
    a.asked = <<>> =>
        /\ Truthful(a.gprs)
        /\ "RECHECK" \notin a.gprs.flags /\ a.decided = "network" /\ a.gprs.driver_attached
             => ~Roams(a.gprs)

\* What holds between the steps of registration_status_cb, and after all.
Half(a) == Typed(a) /\ Answerable(a) /\ Wanted(a) /\ AtRest(a)
Whole(a) == Half(a) /\ RecheckInTime(a)

IInv == Whole(a0)

-----------------------------------------------------------------------------
(* The functions of gprs.c.                                                *)

\* gprs_attached_update sets Attached, or leaves the flag for later; nothing
\* else that matters here changes.
SameAttaching(a, b) ==
    /\ b.asked = a.asked /\ b.decided = a.decided
    /\ \A f \in {"ATTACHING", "RECHECK"} : f \in b.gprs.flags <=> f \in a.gprs.flags
    /\ b.gprs.powered = a.gprs.powered /\ b.gprs.roaming_allowed = a.gprs.roaming_allowed
    /\ b.gprs.netreg = a.gprs.netreg /\ b.gprs.status = a.gprs.status
    /\ b.gprs.driver_attached = a.gprs.driver_attached

LEMMA ReleaseKeeps ==
    ASSUME NEW a, NEW cs, Typed(a)
    PROVE  LET b == release_active_contexts(a, cs)
           IN  Typed(b) /\ b.gprs = a.gprs /\ b.asked = a.asked /\ b.decided = a.decided
BY DEF release_active_contexts, Typed, IsRecord

LEMMA AttachedUpdate ==
    ASSUME NEW a, NEW cs, Typed(a)
    PROVE  LET b == gprs_attached_update(a, cs)
           IN  Typed(b) /\ SameAttaching(a, b) /\ Truthful(b.gprs)
<1> DEFINE attached == a.gprs.driver_attached /\ a.gprs.status \in Registered
           b == gprs_attached_update(a, cs)
<1> USE DEF Atoms
<1>1. CASE attached = a.gprs.attached
    <2>1. b = a
        BY <1>1 DEF gprs_attached_update
    <2> QED
        BY <1>1, <2>1 DEF SameAttaching, Truthful, Typed
<1>2. CASE attached # a.gprs.attached /\ ~attached
    <2> DEFINE r == release_active_contexts(a, cs)
    <2>1. Typed(r) /\ r.gprs = a.gprs /\ r.asked = a.asked /\ r.decided = a.decided
        BY ReleaseKeeps
    <2>2. b = [r EXCEPT !.gprs.attached = FALSE]
        BY <1>2 DEF gprs_attached_update
    <2> HIDE DEF r, b
    <2>3. b.gprs = [a.gprs EXCEPT !.attached = FALSE] /\ b.asked = a.asked
          /\ b.decided = a.decided /\ IsRecord(b)
        BY <2>1, <2>2 DEF Typed, IsRecord
    <2>4. Typed(b) /\ SameAttaching(a, b)
        BY <2>1, <2>3 DEF SameAttaching, Typed
    <2>5. Truthful(b.gprs)
        BY <1>2, <2>3 DEF Truthful, Typed
    <2> QED
        BY <2>4, <2>5 DEF b
<1>3. CASE attached # a.gprs.attached /\ attached /\ have_active_contexts(cs)
    <2>1. b = Set(a, "ATTACHED_UPDATE")
        BY <1>3 DEF gprs_attached_update
    <2> HIDE DEF b
    <2>2. b.gprs = [a.gprs EXCEPT !.flags = @ \cup {"ATTACHED_UPDATE"}] /\ b.asked = a.asked
          /\ b.decided = a.decided /\ IsRecord(b)
        BY <2>1 DEF Typed, IsRecord, Set
    <2> QED
        BY <1>3, <2>2 DEF SameAttaching, Truthful, Typed, Flags, b
<1>4. CASE attached # a.gprs.attached /\ attached /\ ~have_active_contexts(cs)
    <2>1. b = [a EXCEPT !.gprs.attached = TRUE]
        BY <1>4 DEF gprs_attached_update
    <2> HIDE DEF b
    <2>2. b.gprs = [a.gprs EXCEPT !.attached = TRUE] /\ b.asked = a.asked
          /\ b.decided = a.decided /\ IsRecord(b)
        BY <2>1 DEF Typed, IsRecord
    <2> QED
        BY <1>4, <2>2 DEF SameAttaching, Truthful, Typed, b
<1> QED
    BY <1>1, <1>2, <1>3, <1>4

LEMMA SetAttached ==
    ASSUME NEW a, NEW what \in {"attach", "detach"}, Typed(a)
    PROVE  LET b == set_attached(a, what)
           IN  /\ Typed(b) /\ b.asked # <<>> /\ b.decided = a.decided
               /\ b.gprs = [a.gprs EXCEPT !.flags = @ \cup {"ATTACHING"}]
<1> DEFINE b == set_attached(a, what)
<1>1. b.gprs = [a.gprs EXCEPT !.flags = @ \cup {"ATTACHING"}]
      /\ b.asked = Append(a.asked, what) /\ b.decided = a.decided /\ IsRecord(b)
    <2> DEFINE c == [a EXCEPT !.asked = Append(@, what)]
    <2>1. c.gprs = a.gprs /\ c.asked = Append(a.asked, what) /\ c.decided = a.decided
          /\ IsRecord(c)
        BY DEF Typed, IsRecord
    <2>2. b = Set(c, "ATTACHING")
        BY DEF set_attached
    <2> HIDE DEF b, c
    <2> QED
        BY <2>1, <2>2 DEF Set, IsRecord
<1> HIDE DEF b
<1>2. b.asked \in Seq(Calls) /\ b.asked # <<>>
    BY <1>1 DEF Typed, Calls
<1> QED
    BY <1>1, <1>2 DEF Typed, Atoms, Flags, b

\* gprs_netreg_update needs no more of what was wished before: it compares.
LEMMA NetregUpdate ==
    ASSUME NEW a, Typed(a), Answerable(a), RecheckInTime(a), a.asked = <<>> => Truthful(a.gprs)
    PROVE  Whole(gprs_netreg_update(a))
<1> DEFINE b == gprs_netreg_update(a)
<1>w. Wish(a.gprs) \in BOOLEAN
    BY DEF Wish, Typed, Atoms
<1>1. CASE a.gprs.driver_attached = Wish(a.gprs)
    <2>1. b = [a EXCEPT !.decided = "update"]
        BY <1>1 DEF gprs_netreg_update
    <2> HIDE DEF b
    <2>2. b.gprs = a.gprs /\ b.asked = a.asked /\ b.decided = "update" /\ IsRecord(b)
        BY <2>1 DEF Typed, IsRecord
    <2>3. Typed(b)
        BY <2>2 DEF Typed, Deciders
    <2> QED
        BY <1>1, <2>2, <2>3 DEF Whole, Half, Answerable, RecheckInTime, Wanted, AtRest, b
<1>2. CASE a.gprs.driver_attached # Wish(a.gprs) /\ Has(a, "ATTACHING")
    <2>1. b = Set(a, "RECHECK")
        BY <1>2 DEF gprs_netreg_update
    <2> HIDE DEF b
    <2>2. b.gprs = [a.gprs EXCEPT !.flags = @ \cup {"RECHECK"}] /\ b.asked = a.asked
          /\ b.decided = a.decided /\ IsRecord(b)
        BY <2>1 DEF Set, Typed, IsRecord
    <2>3. Typed(b)
        BY <2>2 DEF Typed, Atoms, Flags
    <2>4. "ATTACHING" \in b.gprs.flags /\ "RECHECK" \in b.gprs.flags /\ b.asked # <<>>
        BY <1>2, <2>2 DEF Has, Answerable, Typed, Atoms
    <2> QED
        BY <2>3, <2>4 DEF Whole, Half, Answerable, RecheckInTime, Wanted, AtRest, b
<1>3. CASE a.gprs.driver_attached # Wish(a.gprs) /\ ~Has(a, "ATTACHING")
    <2> DEFINE what == IF Wish(a.gprs) THEN "attach" ELSE "detach"
               s == set_attached(a, what)
    <2>1. Typed(s) /\ s.asked # <<>> /\ s.gprs = [a.gprs EXCEPT !.flags = @ \cup {"ATTACHING"}]
        BY SetAttached
    <2>2. b = [s EXCEPT !.gprs.driver_attached = Wish(a.gprs), !.decided = "update"]
        BY <1>3 DEF gprs_netreg_update
    <2> HIDE DEF s, b
    <2>3. b.gprs = [s.gprs EXCEPT !.driver_attached = Wish(a.gprs)] /\ b.asked = s.asked
          /\ b.decided = "update" /\ IsRecord(b)
        BY <2>1, <2>2 DEF Typed, IsRecord
    <2>4. Typed(b)
        BY <1>w, <2>1, <2>3 DEF Typed, Atoms, Deciders
    <2>5. b.gprs = [a.gprs EXCEPT !.flags = @ \cup {"ATTACHING"},
                                  !.driver_attached = Wish(a.gprs)]
        BY <2>1, <2>3 DEF Typed, Atoms
    <2>6. "ATTACHING" \in b.gprs.flags /\ b.gprs.driver_attached = Wish(b.gprs)
        BY <1>w, <2>5 DEF Typed, Atoms, Wish
    <2> QED
        BY <2>1, <2>3, <2>4, <2>6 DEF Whole, Half, Answerable, RecheckInTime, Wanted, AtRest, b
<1> QED
    BY <1>1, <1>2, <1>3

\* A report of the packet domain, when no answer is cleared that is to come.
LEMMA StatusNotified ==
    ASSUME NEW a, NEW cs, NEW status \in Statuses, Typed(a), Answerable(a), Wanted(a)
    PROVE  LET b == ofono_gprs_status_notify(a, status, cs)
           IN  /\ Half(b)
               /\ "RECHECK" \in b.gprs.flags <=> "RECHECK" \in a.gprs.flags
               /\ "ATTACHING" \in a.gprs.flags => "ATTACHING" \in b.gprs.flags
<1> DEFINE r == [a EXCEPT !.gprs.status = status]
           refused == ~r.gprs.powered \/ (~r.gprs.roaming_allowed /\ status = "roaming")
           b == ofono_gprs_status_notify(a, status, cs)
<1>r. r.gprs = [a.gprs EXCEPT !.status = status] /\ r.asked = a.asked
      /\ r.decided = a.decided /\ IsRecord(r)
    BY DEF Typed, IsRecord
<1> HIDE DEF r
<1>t. Typed(r) /\ Answerable(r) /\ Wanted(r) /\ r.gprs.flags = a.gprs.flags
      /\ r.gprs.status = status
    BY <1>r DEF Typed, Atoms, Answerable, Wanted, Wish
<1>1. CASE status \notin Registered
    <2>1. b = gprs_attached_update(r, cs)
        BY <1>1 DEF ofono_gprs_status_notify, r
    <2>2. Typed(b) /\ SameAttaching(r, b) /\ Truthful(b.gprs)
        BY <1>t, <2>1, AttachedUpdate
    <2> HIDE DEF b
    <2>3. Answerable(b) /\ Wanted(b)
        BY <1>t, <2>2 DEF SameAttaching, Answerable, Wanted, Wish
    <2>4. ~Roams(b.gprs)
        BY <1>1, <1>t, <2>2 DEF SameAttaching, Roams, Registered
    <2> QED
        BY <1>t, <2>2, <2>3, <2>4 DEF Half, AtRest, SameAttaching, b
<1>2. CASE status \in Registered /\ Has(r, "ATTACHING")
    <2>1. b = r
        BY <1>2 DEF ofono_gprs_status_notify, r
    <2>2. r.asked # <<>>
        BY <1>2, <1>t DEF Has, Answerable
    <2> QED
        BY <1>t, <2>1, <2>2 DEF Half, AtRest
<1>3. CASE status \in Registered /\ ~Has(r, "ATTACHING") /\ refused
    <2>1. b = set_attached(r, "detach")
        BY <1>3 DEF ofono_gprs_status_notify, r
    <2>2. Typed(b) /\ b.asked # <<>> /\ b.decided = r.decided
          /\ b.gprs = [r.gprs EXCEPT !.flags = @ \cup {"ATTACHING"}]
        BY <1>t, <2>1, SetAttached
    <2> HIDE DEF b
    <2>3. ("RECHECK" \in b.gprs.flags <=> "RECHECK" \in r.gprs.flags)
          /\ "ATTACHING" \in b.gprs.flags
          /\ b.gprs.driver_attached = r.gprs.driver_attached /\ b.gprs.powered = r.gprs.powered
          /\ Wish(b.gprs) = Wish(r.gprs)
        <3>1. r.gprs \in Atoms
            BY <1>t DEF Typed
        <3> QED
            BY <2>2, <3>1 DEF Atoms, Wish
    <2>4. Wanted(b)
        BY <1>t, <2>2, <2>3 DEF Wanted
    <2> QED
        BY <1>t, <2>2, <2>3, <2>4 DEF Half, AtRest, Answerable, b
<1>4. CASE status \in Registered /\ ~Has(r, "ATTACHING") /\ ~refused
    <2> DEFINE n == [r EXCEPT !.gprs.driver_attached = TRUE, !.decided = "network"]
    <2>1. b = gprs_attached_update(n, cs)
        BY <1>4 DEF ofono_gprs_status_notify, r
    <2>2. n.gprs = [r.gprs EXCEPT !.driver_attached = TRUE] /\ n.asked = r.asked
          /\ n.decided = "network" /\ IsRecord(n)
        <3>1. IsRecord(r)
            BY <1>r
        <3> QED
            BY <3>1 DEF IsRecord
    <2> HIDE DEF n
    <2>3. Typed(n) /\ n.gprs.flags = r.gprs.flags /\ n.gprs.powered /\ ~Roams(n.gprs)
        BY <1>4, <1>t, <2>2 DEF Typed, Atoms, Deciders, Roams
    <2>4. Typed(b) /\ SameAttaching(n, b) /\ Truthful(b.gprs)
        BY <2>1, <2>3, AttachedUpdate
    <2> HIDE DEF b
    <2>5. Answerable(b) /\ Wanted(b) /\ ~Roams(b.gprs)
        BY <1>t, <2>2, <2>3, <2>4 DEF SameAttaching, Answerable, Wanted, Roams
    <2> QED
        BY <1>t, <2>3, <2>4, <2>5 DEF Half, AtRest, SameAttaching, b
<1> QED
    BY <1>1, <1>2, <1>3, <1>4

\* An attach request ends, and its second look follows if one was due.
LEMMA AfterStatusWhole ==
    ASSUME NEW a, NEW cs, Half(a)
    PROVE  Whole(AfterStatus(a, cs))
<1>1. CASE Has(a, "RECHECK")
    <2> DEFINE c == Clear(a, "RECHECK")
    <2>1. c.gprs = [a.gprs EXCEPT !.flags = @ \ {"RECHECK"}] /\ c.asked = a.asked
          /\ c.decided = a.decided /\ IsRecord(c)
        <3>1. IsRecord(a)
            BY DEF Half, Typed
        <3> QED
            BY <3>1 DEF Clear, IsRecord
    <2> HIDE DEF c
    <2>2. Typed(c) /\ Answerable(c) /\ RecheckInTime(c)
        BY <2>1 DEF Half, Typed, Atoms, Flags, Answerable, RecheckInTime
    <2>3. c.asked = <<>> => Truthful(c.gprs)
        BY <2>1 DEF Half, AtRest, Truthful, Typed, Atoms
    <2>4. Whole(gprs_netreg_update(c))
        BY <2>2, <2>3, NetregUpdate
    <2> QED
        BY <1>1, <2>4 DEF AfterStatus, c
<1>2. CASE ~Has(a, "RECHECK")
    BY <1>2 DEF AfterStatus, Has, Whole, RecheckInTime
<1> QED
    BY <1>1, <1>2

-----------------------------------------------------------------------------
(* The actions.                                                            *)

LEMMA BecomesIs ==
    ASSUME NEW a, IsRecord(a), Becomes(a)
    PROVE  a0' = a
BY DEF Becomes, a0, IsRecord

LEMMA InitWhole == Init => IInv
<1> SUFFICES ASSUME Init PROVE IInv
    OBVIOUS
<1>1. PICK powered, roaming_allowed \in BOOLEAN :
         gprs = [powered |-> powered, roaming_allowed |-> roaming_allowed,
                 netreg |-> "absent", status |-> "searching",
                 driver_attached |-> FALSE, attached |-> FALSE, flags |-> {},
                 pending |-> "none", cids |-> {}]
    BY DEF Init
<1>2. Typed(a0)
    BY <1>1 DEF Init, a0, Typed, IsRecord, Atoms, Statuses, Flags, Calls, Deciders
<1>3. Wish(gprs) = FALSE
    BY <1>1 DEF Wish
<1> QED
    BY <1>1, <1>2, <1>3 DEF Init, a0, IInv, Whole, Half, Answerable, RecheckInTime, Wanted,
       AtRest, Truthful

\* Where the requests, the wish and what is known of the network stay, all does.
LEMMA Untouched ==
    ASSUME IInv, UNCHANGED <<asked, decided>>, gprs' \in Atoms,
           gprs' = [gprs EXCEPT !.pending = gprs'.pending, !.cids = gprs'.cids]
    PROVE  IInv'
<1>1. gprs \in Atoms /\ asked \in Seq(Calls) /\ decided \in Deciders
    BY DEF IInv, Whole, Half, Typed, a0
<1>2. Typed(a0)'
    BY <1>1 DEF Typed, IsRecord, a0
<1>3. /\ gprs'.flags = gprs.flags /\ gprs'.powered = gprs.powered
      /\ gprs'.roaming_allowed = gprs.roaming_allowed /\ gprs'.netreg = gprs.netreg
      /\ gprs'.status = gprs.status /\ gprs'.driver_attached = gprs.driver_attached
      /\ gprs'.attached = gprs.attached
    BY <1>1 DEF Atoms
<1> QED
    BY <1>2, <1>3 DEF IInv, Whole, Half, Answerable, RecheckInTime, Wanted, Wish, AtRest,
       Truthful, Roams, a0

LEMMA SettingOrRegistration ==
    ASSUME IInv, NEW a, Typed(a), Becomes(gprs_netreg_update(a)), a.asked = asked,
           a.gprs.flags = gprs.flags, a.gprs.attached = gprs.attached,
           a.gprs.driver_attached = gprs.driver_attached, a.gprs.status = gprs.status
    PROVE  IInv'
<1>1. Answerable(a) /\ RecheckInTime(a) /\ (a.asked = <<>> => Truthful(a.gprs))
    BY DEF IInv, Whole, Half, Answerable, RecheckInTime, AtRest, Truthful, a0
<1>2. Whole(gprs_netreg_update(a))
    BY <1>1, NetregUpdate
<1>3. a0' = gprs_netreg_update(a)
    BY <1>2, BecomesIs DEF Whole, Half, Typed
<1> QED
    BY <1>2, <1>3 DEF IInv

LEMMA SetSettingKeeps ==
    ASSUME IInv, NEW property \in {"powered", "roaming_allowed"}, NEW value \in BOOLEAN,
           SetSetting(property, value)
    PROVE  IInv'
<1> DEFINE a == [a0 EXCEPT !.gprs[property] = value]
<1>1. gprs \in Atoms /\ asked \in Seq(Calls) /\ decided \in Deciders
    BY DEF IInv, Whole, Half, Typed, a0
<1>2. a.gprs = [gprs EXCEPT ![property] = value] /\ a.asked = asked /\ a.decided = decided
      /\ IsRecord(a)
    BY DEF a0, IsRecord
<1>3. Becomes(gprs_netreg_update(a))
    BY DEF SetSetting
<1> HIDE DEF a
<1>4. CASE property = "powered"
    <2>1. a.gprs = [gprs EXCEPT !.powered = value]
        BY <1>2, <1>4
    <2> QED
        BY <1>1, <1>2, <1>3, <2>1, SettingOrRegistration DEF Typed, Atoms
<1>5. CASE property = "roaming_allowed"
    <2>1. a.gprs = [gprs EXCEPT !.roaming_allowed = value]
        BY <1>2, <1>5
    <2> QED
        BY <1>1, <1>2, <1>3, <2>1, SettingOrRegistration DEF Typed, Atoms
<1> QED
    BY <1>4, <1>5

LEMMA NetregStatusKeeps ==
    ASSUME IInv, NEW status \in Statuses, NetregStatus(status)
    PROVE  IInv'
<1> DEFINE a == [a0 EXCEPT !.gprs.netreg = status]
<1>1. gprs \in Atoms /\ asked \in Seq(Calls) /\ decided \in Deciders
    BY DEF IInv, Whole, Half, Typed, a0
<1>2. a.gprs = [gprs EXCEPT !.netreg = status] /\ a.asked = asked /\ a.decided = decided
      /\ IsRecord(a)
    BY DEF a0, IsRecord
<1>3. Becomes(gprs_netreg_update(a))
    BY DEF NetregStatus
<1> HIDE DEF a
<1> QED
    BY <1>1, <1>2, <1>3, SettingOrRegistration DEF Typed, Atoms

\* The driver is taken to be detached: gprs_netreg_removed and
\* ofono_gprs_detached_notify, which differ in what they do to the flags.
LEMMA Detached ==
    ASSUME NEW a, NEW cs, Typed(a), ~a.gprs.driver_attached, Answerable(a), RecheckInTime(a),
           Wanted(a), Becomes(gprs_attached_update(a, cs))
    PROVE  IInv'
<1> DEFINE b == gprs_attached_update(a, cs)
<1>1. Typed(b) /\ SameAttaching(a, b) /\ Truthful(b.gprs)
    BY AttachedUpdate
<1>2. a0' = b
    BY <1>1, BecomesIs DEF Typed
<1> HIDE DEF b
<1>3. Whole(b)
    BY <1>1 DEF SameAttaching, Whole, Half, Answerable, RecheckInTime, Wanted, Wish, AtRest
<1> QED
    BY <1>2, <1>3 DEF IInv

\* gprs_netreg_removed before it looks at Attached.
NetregGone == [a0 EXCEPT !.gprs.netreg = "absent", !.gprs.driver_attached = FALSE,
                         !.decided = "update", !.gprs.flags = @ \ {"RECHECK", "ATTACHING"}]

LEMMA NetregGoneIs ==
    ASSUME IInv
    PROVE  /\ Typed(NetregGone) /\ NetregGone.gc = gc
           /\ NetregGone.asked = asked /\ NetregGone.decided = "update"
           /\ NetregGone.gprs = [gprs EXCEPT !.netreg = "absent", !.driver_attached = FALSE,
                                            !.flags = @ \ {"RECHECK", "ATTACHING"}]
<1> DEFINE a == NetregGone
<1>1. gprs \in Atoms /\ asked \in Seq(Calls)
    BY DEF IInv, Whole, Half, Typed, a0
<1>2. a.gprs = [gprs EXCEPT !.netreg = "absent", !.driver_attached = FALSE,
                            !.flags = @ \ {"RECHECK", "ATTACHING"}]
      /\ a.asked = asked /\ a.decided = "update" /\ a.gc = gc /\ IsRecord(a)
    <2> DEFINE n == [a0 EXCEPT !.gprs.netreg = "absent"]
               g == [n EXCEPT !.gprs.driver_attached = FALSE]
               u == [g EXCEPT !.decided = "update"]
    <2>1. n.gprs = [gprs EXCEPT !.netreg = "absent"] /\ n.asked = asked /\ n.gc = gc /\ IsRecord(n)
        BY DEF a0, IsRecord
    <2> HIDE DEF n
    <2>2. g.gprs = [n.gprs EXCEPT !.driver_attached = FALSE] /\ g.asked = asked /\ g.gc = gc /\ IsRecord(g)
        BY <2>1 DEF IsRecord
    <2> HIDE DEF g
    <2>3. u.gprs = g.gprs /\ u.asked = asked /\ u.gc = gc /\ u.decided = "update" /\ IsRecord(u)
        BY <2>2 DEF IsRecord
    <2> HIDE DEF u
    <2>4. a = [u EXCEPT !.gprs.flags = @ \ {"RECHECK", "ATTACHING"}]
        BY DEF n, g, u, NetregGone
    <2>5. a.gprs = [u.gprs EXCEPT !.flags = @ \ {"RECHECK", "ATTACHING"}]
          /\ a.asked = asked /\ a.decided = "update" /\ a.gc = gc /\ IsRecord(a)
        BY <2>3, <2>4 DEF IsRecord
    <2> HIDE DEF a
    <2> QED
        BY <1>1, <2>1, <2>2, <2>3, <2>5 DEF Atoms
<1> HIDE DEF a
<1>4. Typed(a)
    <2>1. a.gprs \in Atoms
        BY <1>1, <1>2 DEF Atoms, Flags
    <2> QED
        BY <1>1, <1>2, <2>1 DEF Typed, IsRecord, Deciders
<1> QED
    BY <1>2, <1>4 DEF a

LEMMA NetregRemovedKeeps ==
    ASSUME IInv, gprs_netreg_removed
    PROVE  IInv'
<1> DEFINE a == NetregGone
<1>1. gprs \in Atoms
    BY DEF IInv, Whole, Half, Typed, a0
<1>2. /\ Typed(a) /\ a.asked = asked /\ a.decided = "update"
      /\ a.gprs = [gprs EXCEPT !.netreg = "absent", !.driver_attached = FALSE,
                              !.flags = @ \ {"RECHECK", "ATTACHING"}]
    BY NetregGoneIs
<1>3. Becomes(gprs_attached_update(a, context))
    BY DEF gprs_netreg_removed, NetregGone
<1> HIDE DEF a
<1>5. a.gprs.driver_attached = FALSE /\ a.gprs.netreg = "absent" /\ "ATTACHING" \notin a.gprs.flags
      /\ "RECHECK" \notin a.gprs.flags /\ a.decided = "update"
    BY <1>1, <1>2 DEF Atoms
<1>6. Wish(a.gprs) = FALSE
    BY <1>5 DEF Wish
<1> QED
    BY <1>2, <1>3, <1>5, <1>6, Detached DEF Answerable, RecheckInTime, Wanted

LEMMA DetachedNotifyKeeps ==
    ASSUME IInv, ofono_gprs_detached_notify
    PROVE  IInv'
<1> DEFINE a == [a0 EXCEPT !.gprs.driver_attached = FALSE, !.decided = "network"]
<1>1. gprs \in Atoms /\ asked \in Seq(Calls)
    BY DEF IInv, Whole, Half, Typed, a0
<1>2. a.gprs = [gprs EXCEPT !.driver_attached = FALSE]
      /\ a.asked = asked /\ a.decided = "network" /\ IsRecord(a)
    BY DEF a0, IsRecord
<1>3. Becomes(gprs_attached_update(a, context))
    BY DEF ofono_gprs_detached_notify
<1> HIDE DEF a
<1>4. Typed(a)
    BY <1>1, <1>2 DEF Typed, IsRecord, Atoms, Deciders
<1>5. ~a.gprs.driver_attached /\ a.gprs.flags = gprs.flags /\ a.asked = asked
      /\ a.decided = "network"
    BY <1>1, <1>2 DEF Atoms
<1>6. Answerable(a) /\ RecheckInTime(a) /\ Wanted(a)
    BY <1>5 DEF IInv, Whole, Half, Answerable, RecheckInTime, Wanted, a0
<1> QED
    BY <1>3, <1>4, <1>5, <1>6, Detached

LEMMA StatusNotifyKeeps ==
    ASSUME IInv, NEW status \in Statuses, StatusNotify(status)
    PROVE  IInv'
<1> DEFINE b == ofono_gprs_status_notify(a0, status, context)
<1>1. Typed(a0) /\ Answerable(a0) /\ Wanted(a0) /\ RecheckInTime(a0)
    BY DEF IInv, Whole, Half
<1>2. /\ Half(b)
      /\ "RECHECK" \in b.gprs.flags <=> "RECHECK" \in a0.gprs.flags
      /\ "ATTACHING" \in a0.gprs.flags => "ATTACHING" \in b.gprs.flags
    BY <1>1, StatusNotified
<1>3. Becomes(b)
    BY DEF StatusNotify
<1> HIDE DEF b
<1>4. Whole(b)
    BY <1>1, <1>2 DEF Whole, RecheckInTime
<1>5. a0' = b
    BY <1>2, <1>3, BecomesIs DEF Half, Typed
<1> QED
    BY <1>4, <1>5 DEF IInv

LEMMA AttachCallbackKeeps ==
    ASSUME IInv, NEW ok \in BOOLEAN, gprs_attach_callback(ok)
    PROVE  IInv'
<1>1. gprs \in Atoms /\ asked \in Seq(Calls) /\ decided \in Deciders
    BY DEF IInv, Whole, Half, Typed, a0
<1>2. asked # <<>> /\ asked' = Append(Tail(asked), "status")
    BY DEF gprs_attach_callback
<1>3. asked' \in Seq(Calls) /\ asked' # <<>>
    <2>1. Tail(asked) \in Seq(Calls)
        BY <1>1, <1>2
    <2> QED
        BY <1>2, <2>1 DEF Calls
<1>4. gprs' \in Atoms /\ decided' \in Deciders
      /\ gprs'.flags = gprs.flags
      /\ \/ gprs' = gprs /\ decided' = decided
         \/ decided' = "failure"
    BY <1>1 DEF gprs_attach_callback, Atoms, Deciders
<1>5. Typed(a0)'
    BY <1>3, <1>4 DEF Typed, IsRecord, a0
<1> QED
    BY <1>3, <1>4, <1>5 DEF IInv, Whole, Half, Answerable, RecheckInTime, Wanted, AtRest, a0

\* What the answer of attached_status leaves before it looks at the status.
LEMMA AnsweredIs ==
    ASSUME IInv, asked # <<>>
    PROVE  /\ Typed(Answered) /\ Answerable(Answered) /\ Wanted(Answered)
           /\ "ATTACHING" \notin Answered.gprs.flags
           /\ Answered.gc = gc
           /\ Answered.gprs.pending = gprs.pending /\ Answered.gprs.cids = gprs.cids
<1>1. gprs \in Atoms /\ asked \in Seq(Calls) /\ decided \in Deciders
    BY DEF IInv, Whole, Half, Typed, a0
<1>2. asked # <<>>
    OBVIOUS
<1>3. Answered.gprs = [gprs EXCEPT !.flags = @ \ {"ATTACHING"}]
      /\ Answered.asked = Tail(asked) /\ Answered.decided = decided /\ Answered.gc = gc /\ IsRecord(Answered)
    <2> DEFINE s == [a0 EXCEPT !.asked = Tail(asked)]
    <2>1. s.gprs = gprs /\ s.asked = Tail(asked) /\ s.decided = decided /\ s.gc = gc /\ IsRecord(s)
        BY DEF a0, IsRecord
    <2>2. Answered = Clear(s, "ATTACHING")
        BY DEF Answered
    <2> HIDE DEF s
    <2> QED
        BY <2>1, <2>2 DEF Clear, IsRecord
<1>4. Typed(Answered)
    <2>1. Tail(asked) \in Seq(Calls)
        BY <1>1, <1>2
    <2> QED
        BY <1>1, <1>3, <2>1 DEF Typed, IsRecord, Atoms, Flags
<1>5. Answerable(Answered) /\ Wanted(Answered)
    <2>1. "ATTACHING" \notin Answered.gprs.flags
          /\ ("RECHECK" \in Answered.gprs.flags <=> "RECHECK" \in gprs.flags)
          /\ Answered.decided = decided
          /\ Answered.gprs.driver_attached = gprs.driver_attached
          /\ Answered.gprs.powered = gprs.powered /\ Wish(Answered.gprs) = Wish(gprs)
        BY <1>1, <1>3 DEF Atoms, Wish
    <2> QED
        BY <2>1 DEF Answerable, IInv, Whole, Half, Wanted, a0
<1> QED
    BY <1>1, <1>3, <1>4, <1>5 DEF Atoms

LEMMA RegistrationStatusKeeps ==
    ASSUME IInv, NEW ok \in BOOLEAN, NEW status \in Statuses, registration_status_cb(ok, status)
    PROVE  IInv'
<1> DEFINE b == IF ok THEN ofono_gprs_status_notify(Answered, status, context)
                ELSE gprs_attached_update([Answered EXCEPT !.decided = "failure"], context)
<1>1. /\ Typed(Answered) /\ Answerable(Answered) /\ Wanted(Answered)
      /\ "ATTACHING" \notin Answered.gprs.flags
    BY AnsweredIs DEF registration_status_cb
<1>6. Half(b)
    <2>1. CASE ok
        BY <1>1, <2>1, StatusNotified
    <2>2. CASE ~ok
        <3> DEFINE a == [Answered EXCEPT !.decided = "failure"]
        <3>1. a.gprs = Answered.gprs /\ a.asked = Answered.asked /\ a.decided = "failure"
              /\ IsRecord(a)
            BY <1>1 DEF Typed, IsRecord
        <3> HIDE DEF a
        <3>2. Typed(a) /\ "ATTACHING" \notin a.gprs.flags /\ a.decided = "failure"
            BY <1>1, <3>1 DEF Typed, Deciders
        <3>3. Typed(gprs_attached_update(a, context))
              /\ SameAttaching(a, gprs_attached_update(a, context))
              /\ Truthful(gprs_attached_update(a, context).gprs)
            BY <3>2, AttachedUpdate
        <3>4. b = gprs_attached_update(a, context)
            BY <2>2 DEF a
        <3> HIDE DEF b
        <3> QED
            BY <3>2, <3>3, <3>4 DEF SameAttaching, Half, Answerable, Wanted, AtRest
    <2> QED
        BY <2>1, <2>2
<1>7. Becomes(AfterStatus(b, context))
    BY DEF registration_status_cb
<1> HIDE DEF b
<1>8. Whole(AfterStatus(b, context))
    BY <1>6, AfterStatusWhole
<1>9. a0' = AfterStatus(b, context)
    BY <1>7, <1>8, BecomesIs DEF Whole, Half, Typed
<1> QED
    BY <1>8, <1>9 DEF IInv

\* The only step of the contexts' half that touches Attached.
LEMMA SessionEndKeeps ==
    ASSUME IInv, NEW d \in Drivers, ofono_gprs_context_deactivated(d)
    PROVE  IInv'
<1> DEFINE c == gc[d].ctx
           a == [a0 EXCEPT !.gprs = CidFreed(c), !.gc = Idle(d)]
           e == Clear(a, "ATTACHED_UPDATE")
<1>1. gprs \in Atoms /\ asked \in Seq(Calls) /\ decided \in Deciders
    BY DEF IInv, Whole, Half, Typed, a0
<1>2. a.gprs = CidFreed(c) /\ a.asked = asked /\ a.decided = decided /\ IsRecord(a)
    BY DEF a0, IsRecord
<1>3. CidFreed(c) \in Atoms
      /\ CidFreed(c) = [gprs EXCEPT !.pending = CidFreed(c).pending, !.cids = CidFreed(c).cids]
    BY <1>1 DEF CidFreed, Atoms
<1>4. Becomes(IF Has(a, "ATTACHED_UPDATE") THEN gprs_attached_update(e, Released(c)) ELSE a)
    BY DEF ofono_gprs_context_deactivated
<1>5. CASE ~Has(a, "ATTACHED_UPDATE")
    <2>1. gprs' = CidFreed(c) /\ asked' = asked /\ decided' = decided
        BY <1>2, <1>4, <1>5 DEF Becomes
    <2> QED
        BY <1>3, <2>1, Untouched
<1>6. CASE Has(a, "ATTACHED_UPDATE")
    <2>1. e.gprs = [CidFreed(c) EXCEPT !.flags = @ \ {"ATTACHED_UPDATE"}]
          /\ e.asked = asked /\ e.decided = decided /\ IsRecord(e)
        <3> HIDE DEF a
        <3> QED
            BY <1>2 DEF Clear, IsRecord
    <2> HIDE DEF e
    <2>2. Typed(e)
        BY <1>1, <1>3, <2>1 DEF Typed, IsRecord, Atoms, Flags
    <2>3. /\ e.asked = asked /\ e.decided = decided
          /\ \A f \in {"ATTACHING", "RECHECK"} : f \in e.gprs.flags <=> f \in gprs.flags
          /\ e.gprs.powered = gprs.powered /\ e.gprs.roaming_allowed = gprs.roaming_allowed
          /\ e.gprs.netreg = gprs.netreg /\ e.gprs.status = gprs.status
          /\ e.gprs.driver_attached = gprs.driver_attached
        BY <1>1, <1>3, <2>1 DEF Atoms
    <2> DEFINE b == gprs_attached_update(e, Released(c))
    <2>4. Typed(b) /\ SameAttaching(e, b) /\ Truthful(b.gprs)
        BY <2>2, AttachedUpdate
    <2>5. a0' = b
        BY <1>4, <1>6, <2>4, BecomesIs DEF Typed
    <2> HIDE DEF b
    <2>6. SameAttaching(a0, b)
        BY <2>3, <2>4 DEF SameAttaching, a0
    <2>7. Whole(b)
        BY <2>4, <2>6 DEF SameAttaching, IInv, Whole, Half, Answerable, RecheckInTime, Wanted,
           Wish, AtRest, Roams
    <2> QED
        BY <2>5, <2>7 DEF IInv
<1> QED
    BY <1>5, <1>6

\* What contexts do otherwise: cids and the request in hand.
ContextStep ==
    \/ \E c \in Contexts :
          Activate(c) \/ ActivateNoDriver(c) \/ Deactivate(c) \/ AddContext(c)
          \/ gprs_remove_context(c)
    \/ gprs_deactivate_all
    \/ \E d \in Drivers : ContextAnswers(d)

LEMMA ContextStepKeeps ==
    ASSUME IInv, ContextStep
    PROVE  IInv'
<1>1. gprs \in Atoms
    BY DEF IInv, Whole, Half, Typed, a0
<1> DEFINE Kept == gprs' \in Atoms
                   /\ gprs' = [gprs EXCEPT !.pending = gprs'.pending, !.cids = gprs'.cids]
<1>2. UNCHANGED <<asked, decided>>
    BY DEF ContextStep, Activate, ActivateNoDriver, Deactivate, AddContext,
       gprs_remove_context, gprs_deactivate_all, ContextAnswers, Connected, ActivateFailed,
       Deactivated, DeactivateFailed
<1>k. ASSUME NEW n, n \subseteq 1 .. MaxCid, NEW p \in {"none", "remove", "all"},
             gprs' = [gprs EXCEPT !.pending = p, !.cids = n]
      PROVE  Kept
    BY <1>1, <1>k DEF Atoms
<1>f. \A c : CidFreed(c).cids \subseteq 1 .. MaxCid /\ CidFreed(c) = [gprs EXCEPT !.cids = CidFreed(c).cids]
             /\ CidFreed(c) = [gprs EXCEPT !.pending = gprs.pending, !.cids = CidFreed(c).cids]
    BY <1>1 DEF CidFreed, Atoms
<1>u. UNCHANGED gprs => Kept
    BY <1>1 DEF Atoms
<1>3. Kept
    <2>1. ASSUME NEW c \in Contexts, Activate(c) \/ ActivateNoDriver(c) PROVE Kept
        <3> DEFINE n == gprs.cids \cup ({gprs_cid_alloc} \cap 1 .. MaxCid)
        <3>1. gprs' = [gprs EXCEPT !.cids = n]
            BY <2>1 DEF Activate, ActivateNoDriver
        <3>2. n \subseteq 1 .. MaxCid
            BY <1>1 DEF Atoms
        <3> HIDE DEF n
        <3>3. gprs' = [gprs EXCEPT !.pending = gprs.pending, !.cids = n]
            BY <1>1, <3>1 DEF Atoms
        <3>4. gprs.pending \in {"none", "remove", "all"}
            BY <1>1 DEF Atoms
        <3> QED
            BY <1>k, <3>2, <3>3, <3>4
    <2>2. ASSUME NEW c \in Contexts, Deactivate(c) \/ AddContext(c) PROVE Kept
        BY <1>u, <2>2 DEF Deactivate, AddContext
    <2>3. ASSUME NEW c \in Contexts, gprs_remove_context(c) PROVE Kept
        <3>1. UNCHANGED gprs \/ gprs' = [gprs EXCEPT !.pending = "remove"]
            BY <2>3 DEF gprs_remove_context
        <3> QED
            BY <1>1, <1>u, <3>1 DEF Atoms
    <2>4. ASSUME gprs_deactivate_all PROVE Kept
        <3>1. gprs' = [gprs EXCEPT !.pending = "all"]
            BY <2>4 DEF gprs_deactivate_all
        <3> QED
            BY <1>1, <3>1 DEF Atoms
    <2>5. ASSUME NEW d \in Drivers, ContextAnswers(d) PROVE Kept
        <3> DEFINE c == gc[d].ctx
        <3>1. \/ UNCHANGED gprs
              \/ gprs' = CidFreed(c)
              \/ gprs' = [CidFreed(c) EXCEPT !.pending = "none"]
              \/ gprs' = [gprs EXCEPT !.pending = "none"]
            BY <2>5 DEF ContextAnswers, Connected, ActivateFailed, Deactivated,
               DeactivateFailed, gprs_deactivate_next
        <3> DEFINE n == CidFreed(c).cids
        <3>2. n \subseteq 1 .. MaxCid
              /\ CidFreed(c) = [gprs EXCEPT !.pending = gprs.pending, !.cids = n]
            BY <1>f
        <3> HIDE DEF n
        <3> DEFINE g == CidFreed(c)
        <3> HIDE DEF g
        <3>3. gprs.pending \in {"none", "remove", "all"} /\ gprs.cids \subseteq 1 .. MaxCid
              /\ g = [gprs EXCEPT !.pending = gprs.pending, !.cids = n]
            BY <1>1, <3>2 DEF Atoms, g
        <3>4. CASE UNCHANGED gprs
            BY <1>u, <3>4
        <3>5. CASE gprs' = g
            BY <1>k, <3>2, <3>3, <3>5
        <3>6. CASE gprs' = [g EXCEPT !.pending = "none"]
            <4>1. gprs' = [gprs EXCEPT !.pending = "none", !.cids = n]
                BY <1>1, <3>3, <3>6 DEF Atoms
            <4> QED
                BY <1>k, <3>2, <4>1
        <3>7. CASE gprs' = [gprs EXCEPT !.pending = "none"]
            <4>1. gprs' = [gprs EXCEPT !.pending = "none", !.cids = gprs.cids]
                BY <1>1, <3>7 DEF Atoms
            <4> QED
                BY <1>k, <3>3, <4>1
        <3> QED
            BY <3>1, <3>4, <3>5, <3>6, <3>7 DEF g
    <2> QED
        BY <2>1, <2>2, <2>3, <2>4, <2>5 DEF ContextStep
<1> QED
    BY <1>2, <1>3, Untouched

LEMMA NextKeeps ==
    ASSUME IInv, [Next]_vars
    PROVE  IInv'
<1>1. CASE UNCHANGED vars
    BY <1>1 DEF vars, IInv, Whole, Half, Typed, IsRecord, Answerable, RecheckInTime, Wanted,
       Wish, AtRest, Truthful, Roams, a0
<1>2. CASE Next
    <2>1. CASE \E property \in {"powered", "roaming_allowed"}, value \in BOOLEAN :
                  SetSetting(property, value)
        BY <2>1, SetSettingKeeps
    <2>2. CASE ContextStep
        BY <2>2, ContextStepKeeps
    <2>3. CASE Network
        BY <2>3, NetregStatusKeeps, StatusNotifyKeeps, NetregRemovedKeeps, DetachedNotifyKeeps
           DEF Network
    <2>4. CASE AttachAnswers \/ Errors
        <3>1. "searching" \in Statuses
            BY DEF Statuses
        <3> QED
            BY <2>4, <3>1, AttachCallbackKeeps, RegistrationStatusKeeps DEF AttachAnswers, Errors
    <2>5. CASE \E d \in Drivers : ofono_gprs_context_deactivated(d)
        BY <2>5, SessionEndKeeps
    <2> QED
        BY <1>2, <2>1, <2>2, <2>3, <2>4, <2>5 DEF Next, Requests, ContextStep
<1> QED
    BY <1>1, <1>2

\* What holds at any time of settings, registration, driver and Attached
\* (gprs_netreg_update, gprs_attached_update and their callers).
THEOREM AttachingInvariance == Spec => []IInv
<1>1. Init => IInv
    BY InitWhole
<1>2. IInv /\ [Next]_vars => IInv'
    BY NextKeeps
<1> QED
    BY <1>1, <1>2, PTL DEF Spec

LEMMA WholeAgrees == IInv => AttachmentAgrees
<1> SUFFICES ASSUME IInv PROVE AttachmentAgrees
    OBVIOUS
<1>1. gprs \in Atoms
    BY DEF IInv, Whole, Half, Typed, a0
<1>2. WishFollowed
    BY DEF WishFollowed, ATTACHING, IInv, Whole, Half, Wanted, RecheckInTime, a0
<1>3. AttachedIsTrue /\ AttachedIsTold
    BY DEF AttachedIsTrue, AttachedIsTold, IInv, Whole, Half, AtRest, Truthful, a0
<1>4. OffMeansDetached
    <2> SUFFICES ASSUME asked = <<>>, gprs.attached, decided # "failure"
                 PROVE  gprs.powered
                        /\ (gprs.roaming_allowed \/ "roaming" \notin {gprs.status} \cap {gprs.netreg})
        BY DEF OffMeansDetached
    <2>1. gprs.driver_attached /\ "RECHECK" \notin gprs.flags /\ decided \in {"update", "network"}
        BY <1>3 DEF AttachedIsTrue, IInv, Whole, Half, Typed, Deciders, Answerable,
           RecheckInTime, a0
    <2>2. CASE decided = "update"
        BY <1>1, <2>1, <2>2 DEF IInv, Whole, Half, Wanted, Wish, a0, Atoms
    <2>3. CASE decided = "network"
        BY <1>1, <2>1, <2>3 DEF IInv, Whole, Half, Wanted, AtRest, Roams, a0, Atoms
    <2> QED
        BY <2>1, <2>2, <2>3
<1> QED
    BY <1>2, <1>3, <1>4 DEF AttachmentAgrees

\* However settings, registration and the driver's answers interleave, the
\* driver was asked for what was wished last, and at rest clients are told the
\* truth about being attached (l.1489-1597, 2146-2182).
THEOREM AttachmentRight == Spec => []AttachmentAgrees
BY AttachingInvariance, WholeAgrees, PTL

-----------------------------------------------------------------------------
(* Contexts, drivers and cids: the invariant.                              *)

ContextType == [known : BOOLEAN, active : BOOLEAN,
                pending : {"none", "activate", "deactivate"},
                gc : Drivers \cup {NoDriver}, cid : 0 .. MaxCid]
DriverType == [inuse : BOOLEAN, state : {"idle", "enabling", "active", "disabling"},
               cb : {"none", "activate", "deactivate", "remove", "all"},
               ctx : Contexts \cup {0}, cid : 0 .. MaxCid, shut : BOOLEAN]

ContextTypes ==
    /\ events \in 0 .. MaxEvents /\ network \in BOOLEAN
    /\ context \in [Contexts -> ContextType] /\ gc \in [Drivers -> DriverType]

\* A driver has a callback while it works on a request.
DriverStates(g) ==
    /\ g.inuse = (g.state # "idle")
    /\ g.state \in {"idle", "active"} <=> g.cb = "none"
    /\ g.state = "enabling" <=> g.cb = "activate"

\* The request of its context a driver works on.
Own(g) == IF g.cb \in {"activate", "deactivate"} THEN g.cb ELSE "none"

\* The context a driver in use works for has it, its cid, and its request.
Serving(g, d, cs) ==
    g.inuse =>
        /\ g.ctx \in Contexts /\ cs[g.ctx].known
        /\ cs[g.ctx].gc = d /\ cs[g.ctx].cid = g.cid
        /\ cs[g.ctx].active = (g.state # "enabling")
        /\ cs[g.ctx].pending = Own(g)

\* A context without a driver is down and waits for nothing.
Served(k, c, gs) ==
    IF k.gc = NoDriver
    THEN ~k.active /\ k.pending = "none"
    ELSE gs[k.gc].inuse /\ gs[k.gc].ctx = c

Pairs ==
    /\ \A d \in Drivers : DriverStates(gc[d]) /\ Serving(gc[d], d, context)
    /\ \A c \in Contexts : Served(context[c], c, gc)

\* Drivers in use have cids of their own, and not too many have been lost.
InUse == {d \in Drivers : gc[d].inuse}
Taken == {gc[d].cid : d \in InUse}
OwnCids ==
    /\ Taken \subseteq gprs.cids
    /\ \A d, e \in InUse : gc[d].cid = gc[e].cid => d = e
    /\ Cardinality(gprs.cids \ Taken) <= MaxLeaks

\* One driver works on a request of the atom, and during DeactivateAll none on
\* one of a context.
ForAtom == {"remove", "all"}
AtomRequest ==
    /\ \A d, e \in Drivers : gc[d].cb \in ForAtom /\ gc[e].cb \in ForAtom => d = e
    /\ \A d \in Drivers : gc[d].cb \in ForAtom => gprs.pending = gc[d].cb
    /\ gprs.pending # "none" => \E d \in Drivers : gc[d].cb = gprs.pending
    /\ gprs.pending = "all" => \A c \in Contexts : context[c].pending = "none"

ContextInv == ContextTypes /\ Pairs /\ OwnCids /\ AtomRequest

\* Enough cids for the drivers and for those that get lost, and clients that
\* let an activation end before they remove its context.
Conditions ==
    /\ IsFiniteSet(Drivers) /\ Cardinality(Drivers) + MaxLeaks <= MaxCid
    /\ ~RemovesActivating

LEMMA InitContexts == Init => ContextInv
<1> SUFFICES ASSUME Init PROVE ContextInv
    OBVIOUS
<1>1. /\ context = [c \in Contexts |-> NewContext] /\ gc = [d \in Drivers |-> IdleDriver]
      /\ gprs.cids = {} /\ gprs.pending = "none" /\ events = 0 /\ network = FALSE
    BY DEF Init
<1>2. NewContext \in ContextType /\ IdleDriver \in DriverType /\ 0 \in 0 .. MaxEvents
    BY GprsAssumption DEF NewContext, IdleDriver, ContextType, DriverType
<1>3. Pairs
    BY <1>1 DEF Pairs, DriverStates, Serving, Served, NewContext, IdleDriver
<1>4. OwnCids
    <2>1. InUse = {} /\ gprs.cids \ Taken = {}
        BY <1>1 DEF InUse, Taken, IdleDriver
    <2>2. Cardinality({}) = 0
        BY FS_EmptySet
    <2> QED
        BY <1>1, <2>1, <2>2, GprsAssumption DEF OwnCids, Taken
<1>5. AtomRequest
    BY <1>1 DEF AtomRequest, IdleDriver, ForAtom
<1> QED
    BY <1>1, <1>2, <1>3, <1>4, <1>5 DEF ContextInv, ContextTypes

-----------------------------------------------------------------------------
(* Attaching leaves contexts alone but for detach_shutdown.                *)

Alike(g, h) ==
    /\ h.inuse = g.inuse /\ h.state = g.state /\ h.cb = g.cb
    /\ h.ctx = g.ctx /\ h.cid = g.cid

KeepsContexts(a, b) ==
    /\ b.gc \in [Drivers -> DriverType]
    /\ \A d \in Drivers : Alike(a.gc[d], b.gc[d])
    /\ b.gprs.pending = a.gprs.pending /\ b.gprs.cids = a.gprs.cids

LEMMA SameKeeps ==
    ASSUME NEW a, NEW b, a.gc \in [Drivers -> DriverType], b.gc = a.gc,
           b.gprs.pending = a.gprs.pending, b.gprs.cids = a.gprs.cids
    PROVE  KeepsContexts(a, b)
BY DEF KeepsContexts, Alike

LEMMA KeepsOn ==
    ASSUME NEW a, NEW b, NEW c, KeepsContexts(a, b), KeepsContexts(b, c)
    PROVE  KeepsContexts(a, c)
BY DEF KeepsContexts, Alike

LEMMA AttachedUpdateKeeps ==
    ASSUME NEW a, NEW cs, Typed(a), a.gc \in [Drivers -> DriverType]
    PROVE  KeepsContexts(a, gprs_attached_update(a, cs))
<1> DEFINE r == release_active_contexts(a, cs)
           b == gprs_attached_update(a, cs)
<1>1. KeepsContexts(a, r) /\ IsRecord(r) /\ r.gprs = a.gprs
    <2>1. CASE DetachShutdown
        <3> DEFINE released == {cs[c].gc : c \in {k \in Contexts : cs[k].active /\ cs[k].pending = "none"}}
                   gs == [d \in Drivers |-> IF d \in released THEN [a.gc[d] EXCEPT !.shut = TRUE]
                                            ELSE a.gc[d]]
        <3>1. r = [a EXCEPT !.gc = gs]
            BY <2>1 DEF release_active_contexts
        <3> HIDE DEF released
        <3>2. gs \in [Drivers -> DriverType] /\ \A d \in Drivers : Alike(a.gc[d], gs[d])
            <4>1. \A g \in DriverType : [g EXCEPT !.shut = TRUE] \in DriverType /\ Alike(g, [g EXCEPT !.shut = TRUE])
                BY DEF DriverType, Alike
            <4> QED
                BY <4>1 DEF Alike
        <3> HIDE DEF gs, r
        <3>3. r.gc = gs /\ r.gprs = a.gprs /\ IsRecord(r)
            BY <3>1 DEF Typed, IsRecord
        <3> QED
            BY <3>2, <3>3 DEF KeepsContexts, r
    <2>2. CASE ~DetachShutdown
        <3>1. r = a
            BY <2>2 DEF release_active_contexts
        <3> QED
            BY <3>1, SameKeeps DEF Typed
    <2> QED
        BY <2>1, <2>2
<1>2. CASE b = a
    BY <1>2, SameKeeps
<1>3. CASE b = [r EXCEPT !.gprs.attached = FALSE]
    <2> HIDE DEF r, b
    <2>1. b.gc = r.gc /\ b.gprs = [r.gprs EXCEPT !.attached = FALSE] /\ r.gprs \in Atoms
        BY <1>1, <1>3 DEF IsRecord, Typed
    <2>2. b.gprs.pending = r.gprs.pending /\ b.gprs.cids = r.gprs.cids
        BY <2>1 DEF Atoms
    <2>3. KeepsContexts(r, b)
        BY <1>1, <2>1, <2>2, SameKeeps DEF KeepsContexts
    <2> QED
        BY <1>1, <2>3, KeepsOn DEF b
<1>4. CASE b = Set(a, "ATTACHED_UPDATE") \/ b = [a EXCEPT !.gprs.attached = TRUE]
    <2> HIDE DEF b
    <2>1. b.gc = a.gc /\ b.gprs.pending = a.gprs.pending /\ b.gprs.cids = a.gprs.cids
        BY <1>4 DEF Set, Typed, IsRecord, Atoms
    <2> QED
        BY <2>1, SameKeeps DEF b
<1>5. \/ b = a \/ b = [r EXCEPT !.gprs.attached = FALSE]
      \/ b = Set(a, "ATTACHED_UPDATE") \/ b = [a EXCEPT !.gprs.attached = TRUE]
    BY DEF gprs_attached_update
<1> QED
    BY <1>2, <1>3, <1>4, <1>5

LEMMA SetAttachedKeeps ==
    ASSUME NEW a, NEW what, Typed(a), a.gc \in [Drivers -> DriverType]
    PROVE  KeepsContexts(a, set_attached(a, what)) /\ IsRecord(set_attached(a, what))
           /\ set_attached(a, what).gprs = [a.gprs EXCEPT !.flags = @ \cup {"ATTACHING"}]
<1> DEFINE c == [a EXCEPT !.asked = Append(@, what)]
           b == set_attached(a, what)
<1>1. c.gprs = a.gprs /\ c.gc = a.gc /\ IsRecord(c)
    BY DEF Typed, IsRecord
<1>2. b = [c EXCEPT !.gprs.flags = @ \cup {"ATTACHING"}]
    BY DEF set_attached, Set
<1> HIDE DEF c, b
<1>3. b.gprs = [a.gprs EXCEPT !.flags = @ \cup {"ATTACHING"}] /\ b.gc = a.gc /\ IsRecord(b)
    BY <1>1, <1>2 DEF IsRecord
<1>4. b.gprs.pending = a.gprs.pending /\ b.gprs.cids = a.gprs.cids
    BY <1>3 DEF Typed, Atoms
<1> QED
    BY <1>3, <1>4, SameKeeps DEF b

LEMMA NetregUpdateKeeps ==
    ASSUME NEW a, Typed(a), a.gc \in [Drivers -> DriverType]
    PROVE  KeepsContexts(a, gprs_netreg_update(a))
<1> DEFINE b == gprs_netreg_update(a)
           what == IF Wish(a.gprs) THEN "attach" ELSE "detach"
           s == set_attached(a, what)
<1>1. CASE b = [a EXCEPT !.decided = "update"]
    <2> HIDE DEF b
    <2>1. b.gc = a.gc /\ b.gprs = a.gprs
        BY <1>1 DEF Typed, IsRecord
    <2> QED
        BY <2>1, SameKeeps DEF b
<1>2. CASE b = Set(a, "RECHECK")
    <2> HIDE DEF b
    <2>1. b.gc = a.gc /\ b.gprs.pending = a.gprs.pending /\ b.gprs.cids = a.gprs.cids
        BY <1>2 DEF Set, Typed, IsRecord, Atoms
    <2> QED
        BY <2>1, SameKeeps DEF b
<1>3. CASE b = [s EXCEPT !.gprs.driver_attached = Wish(a.gprs), !.decided = "update"]
    <2>1. KeepsContexts(a, s) /\ IsRecord(s)
          /\ s.gprs = [a.gprs EXCEPT !.flags = @ \cup {"ATTACHING"}]
        BY SetAttachedKeeps
    <2> HIDE DEF s, b
    <2>2. b.gc = s.gc /\ b.gprs = [s.gprs EXCEPT !.driver_attached = Wish(a.gprs)]
        BY <1>3, <2>1 DEF IsRecord
    <2>3. b.gprs.pending = s.gprs.pending /\ b.gprs.cids = s.gprs.cids
        BY <2>1, <2>2 DEF Typed, Atoms
    <2>4. KeepsContexts(s, b)
        BY <2>1, <2>2, <2>3, SameKeeps DEF KeepsContexts
    <2> QED
        BY <2>1, <2>4, KeepsOn DEF b
<1> QED
    BY <1>1, <1>2, <1>3 DEF gprs_netreg_update

LEMMA StatusNotifiedKeeps ==
    ASSUME NEW a, NEW cs, NEW status \in Statuses, Typed(a), a.gc \in [Drivers -> DriverType]
    PROVE  KeepsContexts(a, ofono_gprs_status_notify(a, status, cs))
<1> DEFINE r == [a EXCEPT !.gprs.status = status]
           n == [r EXCEPT !.gprs.driver_attached = TRUE, !.decided = "network"]
           b == ofono_gprs_status_notify(a, status, cs)
<1>1. \/ b = gprs_attached_update(r, cs) \/ b = r
      \/ b = set_attached(r, "detach") \/ b = gprs_attached_update(n, cs)
    BY DEF ofono_gprs_status_notify
<1>2. r.gprs = [a.gprs EXCEPT !.status = status] /\ r.asked = a.asked
      /\ r.decided = a.decided /\ r.gc = a.gc /\ IsRecord(r)
    BY DEF Typed, IsRecord
<1> HIDE DEF r
<1>3. n.gprs = [r.gprs EXCEPT !.driver_attached = TRUE] /\ n.asked = r.asked
      /\ n.decided = "network" /\ n.gc = r.gc /\ IsRecord(n)
    BY <1>2 DEF IsRecord
<1> HIDE DEF n, b
<1>4. Typed(r) /\ KeepsContexts(a, r)
    <2>1. r.gprs \in Atoms /\ r.gprs.pending = a.gprs.pending /\ r.gprs.cids = a.gprs.cids
        BY <1>2 DEF Typed, Atoms
    <2> QED
        BY <1>2, <2>1, SameKeeps DEF Typed
<1>5. Typed(n) /\ KeepsContexts(r, n)
    <2>1. n.gprs \in Atoms /\ n.gprs.pending = r.gprs.pending /\ n.gprs.cids = r.gprs.cids
        BY <1>3, <1>4 DEF Typed, Atoms
    <2> QED
        BY <1>2, <1>3, <1>4, <2>1, SameKeeps DEF Typed, Deciders
<1>6. KeepsContexts(a, n)
    BY <1>4, <1>5, KeepsOn
<1>7. r.gc \in [Drivers -> DriverType] /\ n.gc \in [Drivers -> DriverType]
    BY <1>2, <1>3
<1>8. CASE b = gprs_attached_update(r, cs)
    BY <1>4, <1>7, <1>8, AttachedUpdateKeeps, KeepsOn DEF b
<1>9. CASE b = set_attached(r, "detach")
    BY <1>4, <1>7, <1>9, SetAttachedKeeps, KeepsOn DEF b
<1>10. CASE b = gprs_attached_update(n, cs)
    BY <1>5, <1>6, <1>7, <1>10, AttachedUpdateKeeps, KeepsOn DEF b
<1> QED
    BY <1>1, <1>4, <1>8, <1>9, <1>10 DEF b

\* What the steps of attaching leave of contexts and context drivers.
Kept ==
    /\ gc' \in [Drivers -> DriverType]
    /\ \A d \in Drivers : Alike(gc[d], gc'[d])
    /\ gprs'.pending = gprs.pending /\ gprs'.cids = gprs.cids
    /\ context' = context

LEMMA BecomesKeeps ==
    ASSUME NEW a, a.gc = gc, a.gprs.pending = gprs.pending, a.gprs.cids = gprs.cids,
           NEW b, KeepsContexts(a, b), Becomes(b), context' = context
    PROVE  Kept
BY DEF KeepsContexts, Becomes, Kept

LEMMA AttachingKeeps ==
    ASSUME IInv, ContextTypes,
           \/ \E property \in {"powered", "roaming_allowed"}, value \in BOOLEAN :
                 SetSetting(property, value)
           \/ Network \/ AttachAnswers \/ Errors
    PROVE  Kept /\ ContextTypes'
<1>1. /\ gprs \in Atoms /\ asked \in Seq(Calls) /\ decided \in Deciders
      /\ Typed(a0) /\ a0.gc = gc /\ a0.gprs = gprs
      /\ gc \in [Drivers -> DriverType] /\ context \in [Contexts -> ContextType]
    BY DEF IInv, Whole, Half, Typed, a0, ContextTypes
<1>e. Event => events' \in 0 .. MaxEvents
    BY GprsAssumption DEF Event, ContextTypes
<1>t. Kept /\ events' \in 0 .. MaxEvents /\ network' \in BOOLEAN => ContextTypes'
    BY <1>1 DEF Kept, ContextTypes
<1>2. ASSUME NEW property \in {"powered", "roaming_allowed"}, NEW value \in BOOLEAN,
             SetSetting(property, value)
      PROVE  Kept /\ ContextTypes'
    <2> DEFINE a == [a0 EXCEPT !.gprs[property] = value]
    <2>1. a.gprs = [gprs EXCEPT ![property] = value] /\ a.asked = asked /\ a.decided = decided
          /\ a.gc = gc /\ IsRecord(a)
        BY DEF a0, IsRecord
    <2>2. Becomes(gprs_netreg_update(a)) /\ context' = context /\ network' = network /\ Event
        BY <1>2 DEF SetSetting
    <2> HIDE DEF a
    <2>3. Typed(a) /\ a.gprs.pending = gprs.pending /\ a.gprs.cids = gprs.cids
        <3>1. CASE property = "powered"
            <4>1. a.gprs = [gprs EXCEPT !.powered = value]
                BY <2>1, <3>1
            <4> QED
                BY <1>1, <2>1, <4>1 DEF Typed, Atoms
        <3>2. CASE property = "roaming_allowed"
            <4>1. a.gprs = [gprs EXCEPT !.roaming_allowed = value]
                BY <2>1, <3>2
            <4> QED
                BY <1>1, <2>1, <4>1 DEF Typed, Atoms
        <3> QED
            BY <3>1, <3>2
    <2>4. KeepsContexts(a, gprs_netreg_update(a))
        BY <1>1, <2>1, <2>3, NetregUpdateKeeps
    <2>5. Kept
        BY <2>1, <2>2, <2>3, <2>4, BecomesKeeps
    <2> QED
        BY <1>e, <1>t, <2>2, <2>5 DEF ContextTypes
<1>3. ASSUME NEW status \in Statuses, NetregStatus(status)
      PROVE  Kept /\ ContextTypes'
    <2> DEFINE a == [a0 EXCEPT !.gprs.netreg = status]
    <2>1. a.gprs = [gprs EXCEPT !.netreg = status] /\ a.asked = asked /\ a.decided = decided
          /\ a.gc = gc /\ IsRecord(a)
        BY DEF a0, IsRecord
    <2>2. Becomes(gprs_netreg_update(a)) /\ context' = context /\ network' = network /\ Event
        BY <1>3 DEF NetregStatus
    <2> HIDE DEF a
    <2>3. Typed(a) /\ a.gprs.pending = gprs.pending /\ a.gprs.cids = gprs.cids
        BY <1>1, <2>1 DEF Typed, Atoms
    <2>4. KeepsContexts(a, gprs_netreg_update(a))
        BY <1>1, <2>1, <2>3, NetregUpdateKeeps
    <2>5. Kept
        BY <2>1, <2>2, <2>3, <2>4, BecomesKeeps
    <2> QED
        BY <1>e, <1>t, <2>2, <2>5 DEF ContextTypes
<1>4. ASSUME NEW status \in Statuses, StatusNotify(status)
      PROVE  Kept /\ ContextTypes'
    <2> DEFINE b == ofono_gprs_status_notify(a0, status, context)
    <2>1. Becomes(b) /\ context' = context /\ network' \in BOOLEAN /\ Event
        BY <1>4 DEF StatusNotify
    <2>2. KeepsContexts(a0, b)
        BY <1>1, StatusNotifiedKeeps
    <2> HIDE DEF b
    <2>3. Kept
        BY <1>1, <2>1, <2>2, BecomesKeeps
    <2> QED
        BY <1>e, <1>t, <2>1, <2>3
<1>5. ASSUME gprs_netreg_removed
      PROVE  Kept /\ ContextTypes'
    <2>1. /\ Becomes(gprs_attached_update(NetregGone, context))
          /\ context' = context /\ network' = network /\ Event
        BY <1>5 DEF gprs_netreg_removed, NetregGone
    <2>2. /\ Typed(NetregGone) /\ NetregGone.gc = gc
          /\ NetregGone.gprs.pending = gprs.pending /\ NetregGone.gprs.cids = gprs.cids
        BY <1>1, NetregGoneIs DEF Atoms
    <2>3. KeepsContexts(NetregGone, gprs_attached_update(NetregGone, context))
        BY <1>1, <2>2, AttachedUpdateKeeps
    <2>4. Kept
        BY <2>1, <2>2, <2>3, BecomesKeeps
    <2> QED
        BY <1>e, <1>t, <2>1, <2>4 DEF ContextTypes
<1>6. ASSUME ofono_gprs_detached_notify
      PROVE  Kept /\ ContextTypes'
    <2> DEFINE a == [a0 EXCEPT !.gprs.driver_attached = FALSE, !.decided = "network"]
    <2>1. a.gprs = [gprs EXCEPT !.driver_attached = FALSE] /\ a.asked = asked
          /\ a.decided = "network" /\ a.gc = gc /\ IsRecord(a)
        BY DEF a0, IsRecord
    <2>2. Becomes(gprs_attached_update(a, context)) /\ context' = context /\ network' = FALSE /\ Event
        BY <1>6 DEF ofono_gprs_detached_notify
    <2> HIDE DEF a
    <2>3. Typed(a) /\ a.gprs.pending = gprs.pending /\ a.gprs.cids = gprs.cids
        BY <1>1, <2>1 DEF Typed, Atoms, Deciders
    <2>4. KeepsContexts(a, gprs_attached_update(a, context))
        BY <1>1, <2>1, <2>3, AttachedUpdateKeeps
    <2>5. Kept
        BY <2>1, <2>2, <2>3, <2>4, BecomesKeeps
    <2> QED
        BY <1>e, <1>t, <2>2, <2>5
<1>7. ASSUME NEW ok \in BOOLEAN, gprs_attach_callback(ok)
      PROVE  Kept /\ ContextTypes'
    <2>1. /\ events' \in 0 .. MaxEvents
          /\ UNCHANGED <<context, gc>>
          /\ network' \in BOOLEAN
          /\ gprs' = gprs \/ gprs' = [gprs EXCEPT !.driver_attached = ~@]
        BY <1>e, <1>7 DEF gprs_attach_callback, ContextTypes
    <2>2. Kept
        BY <1>1, <2>1 DEF Kept, Alike, Atoms
    <2> QED
        BY <1>t, <2>1, <2>2
<1>8. ASSUME NEW ok \in BOOLEAN, NEW status \in Statuses, registration_status_cb(ok, status)
      PROVE  Kept /\ ContextTypes'
    <2> DEFINE f == [Answered EXCEPT !.decided = "failure"]
               b == IF ok THEN ofono_gprs_status_notify(Answered, status, context)
                    ELSE gprs_attached_update(f, context)
    <2>1. /\ events' \in 0 .. MaxEvents /\ network' = network /\ context' = context
          /\ Becomes(AfterStatus(b, context))
        BY <1>e, <1>8 DEF registration_status_cb, ContextTypes
    <2>2. Typed(Answered) /\ Answerable(Answered) /\ Wanted(Answered) /\ KeepsContexts(a0, Answered)
        <3>1. asked # <<>>
            BY <1>8 DEF registration_status_cb
        <3> QED
            BY <1>1, <3>1, AnsweredIs, SameKeeps
    <2>3. Typed(f) /\ KeepsContexts(Answered, f)
        <3>1. f.gprs = Answered.gprs /\ f.asked = Answered.asked /\ f.decided = "failure"
              /\ f.gc = Answered.gc /\ IsRecord(f)
            BY <2>2 DEF Typed, IsRecord
        <3> QED
            BY <2>2, <3>1, SameKeeps DEF Typed, Deciders, KeepsContexts
    <2> HIDE DEF f
    <2>4. Typed(b) /\ KeepsContexts(Answered, b)
        <3>1. Answered.gc \in [Drivers -> DriverType] /\ f.gc \in [Drivers -> DriverType]
            BY <2>2, <2>3 DEF KeepsContexts
        <3>2. CASE ok
            BY <2>2, <3>1, <3>2, StatusNotified, StatusNotifiedKeeps DEF Half
        <3>3. CASE ~ok
            BY <2>3, <3>1, <3>3, AttachedUpdate, AttachedUpdateKeeps, KeepsOn
        <3> QED
            BY <3>2, <3>3
    <2> HIDE DEF b
    <2>5. KeepsContexts(b, AfterStatus(b, context))
        <3> DEFINE c == Clear(b, "RECHECK")
        <3>1. b.gc \in [Drivers -> DriverType]
            BY <2>4 DEF KeepsContexts
        <3>2. c.gprs = [b.gprs EXCEPT !.flags = @ \ {"RECHECK"}] /\ c.asked = b.asked
              /\ c.decided = b.decided /\ c.gc = b.gc /\ IsRecord(c)
            BY <2>4 DEF Clear, Typed, IsRecord
        <3> HIDE DEF c
        <3>3. Typed(c) /\ c.gprs.pending = b.gprs.pending /\ c.gprs.cids = b.gprs.cids
            BY <2>4, <3>2 DEF Typed, Atoms
        <3>4. KeepsContexts(b, gprs_netreg_update(c))
            BY <3>1, <3>2, <3>3, NetregUpdateKeeps, SameKeeps, KeepsOn
        <3>5. KeepsContexts(b, b)
            BY <3>1, SameKeeps
        <3> QED
            BY <3>4, <3>5 DEF AfterStatus, c
    <2>6. KeepsContexts(a0, AfterStatus(b, context))
        BY <2>2, <2>4, <2>5, KeepsOn
    <2>7. Kept
        BY <1>1, <2>1, <2>6, BecomesKeeps
    <2> QED
        BY <1>t, <2>1, <2>7 DEF ContextTypes
<1>9. "searching" \in Statuses
    BY DEF Statuses
<1> QED
    BY <1>2, <1>3, <1>4, <1>5, <1>6, <1>7, <1>8, <1>9 DEF Network, AttachAnswers, Errors

-----------------------------------------------------------------------------
(* Contexts and their drivers.                                             *)

\* A driver goes on with what it does for its context.
Working(g, h) ==
    /\ h.inuse = g.inuse /\ h.ctx = g.ctx /\ h.cid = g.cid
    /\ DriverStates(h)
    /\ h.state = "enabling" <=> g.state = "enabling"
    /\ Own(h) = Own(g)

LEMMA AlikeWorks ==
    ASSUME NEW g, NEW h, DriverStates(g), Alike(g, h)
    PROVE  Working(g, h)
BY DEF Alike, Working, DriverStates, Own

LEMMA StillServing ==
    ASSUME NEW g, NEW h, NEW d, NEW cs, NEW ds, Serving(g, d, cs), Working(g, h),
           g.inuse => ds[g.ctx] = cs[g.ctx]
    PROVE  Serving(h, d, ds)
BY DEF Serving, Working

\* One driver with its context changes; they had each other, or nobody.
LEMMA OnePair ==
    ASSUME ContextTypes, Pairs, NEW d \in Drivers, NEW c \in Contexts,
           \/ gc[d].inuse /\ gc[d].ctx = c
           \/ ~gc[d].inuse /\ context[c].gc = NoDriver,
           \A k \in Contexts \ {c} : context'[k] = context[k],
           \A e \in Drivers \ {d} : Working(gc[e], gc'[e]),
           DriverStates(gc'[d]), Serving(gc'[d], d, context'), Served(context'[c], c, gc')
    PROVE  Pairs'
<1>1. \A e \in Drivers : e # NoDriver
    BY GprsAssumption DEF NoDriver
<1>2. ASSUME NEW e \in Drivers \ {d}
      PROVE  DriverStates(gc'[e]) /\ Serving(gc'[e], e, context')
    <2>1. DriverStates(gc'[e]) /\ Serving(gc[e], e, context) /\ Working(gc[e], gc'[e])
        BY DEF Pairs, Working
    <2>2. ASSUME gc[e].inuse PROVE context'[gc[e].ctx] = context[gc[e].ctx]
        <3>1. gc[e].ctx \in Contexts /\ context[gc[e].ctx].gc = e
            BY <2>1, <2>2 DEF Serving
        <3>2. context[c].gc # e
            BY <1>1 DEF Pairs, Serving
        <3> QED
            BY <3>1, <3>2
    <2> QED
        BY <2>1, <2>2, StillServing
<1>3. ASSUME NEW k \in Contexts \ {c} PROVE Served(context'[k], k, gc')
    <2>1. context'[k] = context[k] /\ Served(context[k], k, gc)
        BY DEF Pairs
    <2>2. CASE context[k].gc = NoDriver
        BY <2>1, <2>2 DEF Served
    <2>3. CASE context[k].gc # NoDriver
        <3> DEFINE e == context[k].gc
        <3>1. e \in Drivers
            BY <2>3 DEF ContextTypes, ContextType
        <3>2. gc[e].inuse /\ gc[e].ctx = k
            BY <2>1, <2>3 DEF Served
        <3>3. e \in Drivers \ {d}
            BY <3>1, <3>2
        <3>4. gc'[e].inuse = gc[e].inuse /\ gc'[e].ctx = gc[e].ctx
            BY <3>3 DEF Working
        <3> QED
            BY <2>1, <2>3, <3>2, <3>4 DEF Served
    <2> QED
        BY <2>2, <2>3
<1> QED
    BY <1>2, <1>3 DEF Pairs

\* A context without a driver stays without.
LEMMA NoPair ==
    ASSUME ContextTypes, Pairs, NEW c \in Contexts, context[c].gc = NoDriver, gc' = gc,
           \A k \in Contexts \ {c} : context'[k] = context[k],
           context'[c].gc = NoDriver, ~context'[c].active, context'[c].pending = "none"
    PROVE  Pairs'
<1>1. \A e \in Drivers : e # NoDriver
    BY GprsAssumption DEF NoDriver
<1>2. ASSUME NEW d \in Drivers
      PROVE  DriverStates(gc[d]) /\ Serving(gc[d], d, context')
    <2>1. DriverStates(gc[d]) /\ Serving(gc[d], d, context)
        BY DEF Pairs
    <2>2. gc[d].inuse => gc[d].ctx \in Contexts \ {c}
        BY <1>1, <2>1 DEF Serving
    <2> QED
        BY <2>1, <2>2 DEF Serving
<1>3. \A k \in Contexts : Served(context'[k], k, gc)
    BY DEF Pairs, Served
<1> QED
    BY <1>2, <1>3 DEF Pairs

-----------------------------------------------------------------------------
(* Cids.                                                                   *)

\* Every driver keeps its cid.
LEMMA SameCids ==
    ASSUME OwnCids, gprs'.cids = gprs.cids,
           \A d \in Drivers : gc'[d].inuse = gc[d].inuse /\ gc'[d].cid = gc[d].cid
    PROVE  OwnCids'
<1>1. InUse' = InUse
    BY DEF InUse
<1>2. Taken' = Taken
    BY <1>1 DEF Taken, InUse
<1> QED
    BY <1>1, <1>2 DEF OwnCids, InUse

\* release_context gives one back.
LEMMA GivenBack ==
    ASSUME OwnCids, NEW d \in Drivers, gc[d].inuse, ~gc'[d].inuse,
           \A e \in Drivers \ {d} : gc'[e].inuse = gc[e].inuse /\ gc'[e].cid = gc[e].cid,
           gprs'.cids = gprs.cids \ {gc[d].cid}
    PROVE  OwnCids'
<1>1. InUse' = InUse \ {d} /\ d \in InUse
    BY DEF InUse
<1>2. \A e \in InUse' : gc'[e].cid = gc[e].cid /\ gc[e].cid # gc[d].cid
    BY <1>1 DEF InUse, OwnCids
<1>3. Taken' = Taken \ {gc[d].cid}
    BY <1>1, <1>2 DEF Taken
<1>4. gc[d].cid \in Taken /\ Taken \subseteq gprs.cids
    BY <1>1 DEF Taken, OwnCids
<1>5. gprs'.cids \ Taken' = gprs.cids \ Taken
    BY <1>3, <1>4
<1>6. Taken' \subseteq gprs'.cids
    BY <1>3, <1>4
<1>7. \A e, f \in InUse' : gc'[e].cid = gc'[f].cid => e = f
    BY <1>1, <1>2 DEF OwnCids
<1>8. Cardinality(gprs'.cids \ Taken') <= MaxLeaks
    BY <1>5 DEF OwnCids
<1> QED
    BY <1>6, <1>7, <1>8 DEF OwnCids

\* assign_context takes one for a driver.
LEMMA TakenForDriver ==
    ASSUME OwnCids, NEW d \in Drivers, ~gc[d].inuse, gc'[d].inuse,
           gc'[d].cid \in FreeCids,
           \A e \in Drivers \ {d} : gc'[e] = gc[e],
           gprs'.cids = gprs.cids \cup {gc'[d].cid}
    PROVE  OwnCids'
<1> DEFINE n == gc'[d].cid
<1>1. InUse' = InUse \cup {d} /\ d \notin InUse
    BY DEF InUse
<1>2. n \notin gprs.cids
    BY DEF FreeCids
<1>3. \A e \in InUse : gc'[e] = gc[e]
    BY DEF InUse
<1>4. Taken \subseteq gprs.cids /\ \A e \in InUse : gc[e].cid \in Taken
    BY DEF OwnCids, Taken
<1>5. Taken' = Taken \cup {n}
    <2>1. Taken' = {gc'[e].cid : e \in InUse'}
        BY DEF Taken
    <2>2. {gc'[e].cid : e \in InUse'} = {gc'[e].cid : e \in InUse} \cup {n}
        BY <1>1
    <2>3. {gc'[e].cid : e \in InUse} = Taken
        BY <1>3 DEF Taken
    <2> QED
        BY <2>1, <2>2, <2>3
<1>6. gprs'.cids \ Taken' = gprs.cids \ Taken
    BY <1>2, <1>5
<1>7. Taken' \subseteq gprs'.cids
    BY <1>4, <1>5
<1>8. ASSUME NEW e \in InUse', NEW f \in InUse', gc'[e].cid = gc'[f].cid
      PROVE  e = f
    <2>1. CASE e = d \/ f = d
        BY <1>1, <1>2, <1>3, <1>4, <1>8, <2>1
    <2>2. CASE e # d /\ f # d
        BY <1>1, <1>3, <1>8, <2>2 DEF OwnCids
    <2> QED
        BY <2>1, <2>2
<1>9. Cardinality(gprs'.cids \ Taken') <= MaxLeaks
    BY <1>6 DEF OwnCids
<1> QED
    BY <1>7, <1>8, <1>9 DEF OwnCids

LEMMA NotTaken ==
    ASSUME Pairs, ContextTypes
    PROVE  Leaked = gprs.cids \ Taken
<1>1. ASSUME NEW d \in InUse
      PROVE  \E c \in Contexts : context[c].gc # NoDriver /\ context[c].cid = gc[d].cid
    <2>1. d \in Drivers /\ d # NoDriver /\ gc[d].inuse
        BY GprsAssumption DEF InUse, NoDriver
    <2>2. gc[d].ctx \in Contexts /\ context[gc[d].ctx].gc = d
          /\ context[gc[d].ctx].cid = gc[d].cid
        BY <2>1 DEF Pairs, Serving
    <2> QED
        BY <2>1, <2>2
<1>2. ASSUME NEW c \in Contexts, context[c].gc # NoDriver
      PROVE  \E d \in InUse : gc[d].cid = context[c].cid
    <2>1. context[c].gc \in Drivers
        BY <1>2 DEF ContextTypes, ContextType
    <2>2. gc[context[c].gc].inuse /\ gc[context[c].gc].ctx = c
        BY <1>2 DEF Pairs, Served
    <2>3. context[c].cid = gc[context[c].gc].cid
        BY <2>1, <2>2 DEF Pairs, Serving
    <2> QED
        BY <2>1, <2>2, <2>3 DEF InUse
<1>3. Taken = {context[c].cid : c \in {k \in Contexts : context[k].gc # NoDriver}}
    BY <1>1, <1>2 DEF Taken
<1> QED
    BY <1>3 DEF Leaked

\* ... or for none, and it is lost.
LEMMA LostCid ==
    ASSUME OwnCids, gc' = gc, gprs.cids \subseteq 1 .. MaxCid, NEW n \in FreeCids,
           gprs'.cids = gprs.cids \cup {n}, Cardinality(gprs.cids \ Taken) < MaxLeaks
    PROVE  OwnCids'
<1> DEFINE lost == gprs.cids \ Taken
<1>1. InUse' = InUse /\ Taken' = Taken
    BY DEF InUse, Taken
<1>2. n \notin gprs.cids /\ gprs'.cids \ Taken' = lost \cup {n} /\ n \notin lost
    BY <1>1 DEF FreeCids, OwnCids
<1>3. IsFiniteSet(1 .. MaxCid)
    BY FS_Interval, GprsAssumption
<1>4. IsFiniteSet(lost)
    BY <1>3, FS_Subset
<1> HIDE DEF lost
<1>5. Cardinality(lost) \in Nat /\ Cardinality(lost \cup {n}) = Cardinality(lost) + 1
    BY <1>2, <1>4, FS_CardinalityType, FS_AddElement
<1>6. Cardinality(lost) < MaxLeaks /\ MaxLeaks \in Nat
    BY GprsAssumption DEF lost
<1>7. Cardinality(gprs'.cids \ Taken') <= MaxLeaks
    <2>1. Cardinality(gprs'.cids \ Taken') = Cardinality(lost \cup {n})
        BY <1>2, Zenon
    <2> HIDE <1>2
    <2> QED
        BY <1>5, <1>6, <2>1
<1>8. Taken' \subseteq gprs'.cids
    BY <1>1 DEF OwnCids
<1>9. \A e, f \in InUse' : gc'[e].cid = gc'[f].cid => e = f
    BY <1>1 DEF OwnCids
<1> QED
    BY <1>7, <1>8, <1>9 DEF OwnCids

\* A set of naturals has a least element.
LEMMA MinOfNaturals ==
    ASSUME NEW S \in SUBSET Nat, S # {}
    PROVE  Min(S) \in S /\ \A x \in S : Min(S) <= x
<1>1. IsWellFoundedOn(OpToRel(<, Nat), Nat)
    BY NatLessThanWellFounded
<1>2. \E x \in S : \A y \in S : ~(<<y, x>> \in OpToRel(<, Nat))
    BY <1>1, WFMin
<1>3. PICK x \in S : \A y \in S : ~(<<y, x>> \in OpToRel(<, Nat))
    BY <1>2
<1>4. \A y \in S : x <= y
    <2> SUFFICES ASSUME NEW y \in S PROVE x <= y
        OBVIOUS
    <2>1. x \in Nat /\ y \in Nat
        OBVIOUS
    <2>2. ~(y < x)
        BY <1>3, <2>1 DEF OpToRel
    <2> QED
        BY <2>1, <2>2
<1> QED
    BY <1>3, <1>4 DEF Min

\* There is a cid for a driver that is free, and one to lose.
LEMMA CidFree ==
    ASSUME Conditions, OwnCids, gprs.cids \subseteq 1 .. MaxCid,
           InUse # Drivers \/ Cardinality(gprs.cids \ Taken) < MaxLeaks
    PROVE  gprs_cid_alloc \in FreeCids
<1> DEFINE lost == gprs.cids \ Taken
           of == [d \in InUse |-> gc[d].cid]
<1>1. MaxCid \in Nat /\ IsFiniteSet(1 .. MaxCid) /\ Cardinality(1 .. MaxCid) = MaxCid
    BY FS_Interval, GprsAssumption
<1>2. IsFiniteSet(lost) /\ Cardinality(lost) \in Nat
    BY <1>1, FS_Subset, FS_CardinalityType
<1>3. /\ IsFiniteSet(InUse) /\ Cardinality(InUse) \in Nat /\ Cardinality(Drivers) \in Nat
      /\ Cardinality(InUse) <= Cardinality(Drivers)
      /\ Cardinality(InUse) = Cardinality(Drivers) => InUse = Drivers
    <2>1. InUse \in SUBSET Drivers /\ IsFiniteSet(Drivers)
        BY DEF InUse, Conditions
    <2> QED
        BY <2>1, FS_Subset, FS_CardinalityType
<1>4. IsFiniteSet(Taken) /\ Cardinality(Taken) <= Cardinality(InUse) /\ Cardinality(Taken) \in Nat
    <2>1. of \in Surjection(InUse, Taken)
        BY DEF Surjection, Taken
    <2> HIDE DEF of
    <2> QED
        BY <1>3, <2>1, FS_Surjection, FS_CardinalityType
<1>5. IsFiniteSet(gprs.cids) /\ Cardinality(gprs.cids) = Cardinality(lost) + Cardinality(Taken)
    <2>1. gprs.cids = lost \cup Taken /\ lost \cap Taken = {}
        BY DEF OwnCids
    <2> HIDE DEF lost
    <2>2. Cardinality(lost \cup Taken) = Cardinality(lost) + Cardinality(Taken) - Cardinality(lost \cap Taken)
          /\ IsFiniteSet(lost \cup Taken)
        BY <1>2, <1>4, FS_Union
    <2>3. Cardinality(lost \cap Taken) = 0
        BY <2>1, FS_EmptySet
    <2> QED
        BY <1>2, <1>4, <2>1, <2>2, <2>3
<1>6. Cardinality(lost) <= MaxLeaks /\ MaxLeaks \in Nat /\ Cardinality(Drivers) + MaxLeaks <= MaxCid
    BY GprsAssumption DEF OwnCids, Conditions
<1>7. Cardinality(gprs.cids) < MaxCid
    <2>1. CASE InUse # Drivers
        <3> HIDE DEF lost
        <3> QED
            BY <1>1, <1>2, <1>3, <1>4, <1>5, <1>6, <2>1
    <2>2. CASE Cardinality(lost) < MaxLeaks
        <3> HIDE DEF lost
        <3> QED
            BY <1>1, <1>2, <1>3, <1>4, <1>5, <1>6, <2>2
    <2> QED
        BY <2>1, <2>2
<1>8. FreeCids # {}
    <2> SUFFICES ASSUME FreeCids = {} PROVE FALSE
        OBVIOUS
    <2>1. gprs.cids = 1 .. MaxCid
        BY DEF FreeCids
    <2> QED
        BY <1>1, <1>7, <2>1
<1>9. FreeCids \in SUBSET Nat
    BY DEF FreeCids
<1> QED
    BY <1>8, <1>9, MinOfNaturals DEF gprs_cid_alloc


-----------------------------------------------------------------------------
(* Requests of the atom.                                                   *)

\* No driver begins or ends a request of the atom.
LEMMA SameRequest ==
    ASSUME AtomRequest, gprs'.pending = gprs.pending,
           \A d \in Drivers : \/ gc'[d].cb = gc[d].cb
                              \/ gc'[d].cb \notin ForAtom /\ gc[d].cb \notin ForAtom,
           gprs.pending = "all" =>
                \A c \in Contexts : context'[c] = context[c] \/ context'[c].pending = "none",
           gprs.pending \in {"none", "remove", "all"}
    PROVE  AtomRequest'
<1>1. \A d \in Drivers : gc'[d].cb \in ForAtom <=> gc[d].cb \in ForAtom /\ gc'[d].cb = gc[d].cb
    OBVIOUS
<1>2. \A d, e \in Drivers : gc'[d].cb \in ForAtom /\ gc'[e].cb \in ForAtom => d = e
    BY <1>1 DEF AtomRequest
<1>3. \A d \in Drivers : gc'[d].cb \in ForAtom => gprs'.pending = gc'[d].cb
    BY <1>1 DEF AtomRequest
<1>4. gprs'.pending # "none" => \E d \in Drivers : gc'[d].cb = gprs'.pending
    BY <1>1 DEF AtomRequest, ForAtom
<1>5. gprs'.pending = "all" => \A c \in Contexts : context'[c].pending = "none"
    BY DEF AtomRequest
<1> QED
    BY <1>2, <1>3, <1>4, <1>5 DEF AtomRequest, ForAtom

\* The atom has none: nobody works on one.
LEMMA NobodyForAtom ==
    ASSUME AtomRequest, gprs.pending = "none", NEW d \in Drivers
    PROVE  gc[d].cb \notin ForAtom
BY DEF AtomRequest, ForAtom

LEMMA NewRequest ==
    ASSUME AtomRequest, gprs.pending = "none", NEW d \in Drivers, gc'[d].cb \in ForAtom,
           gprs'.pending = gc'[d].cb,
           \A e \in Drivers \ {d} : gc'[e] = gc[e], context' = context,
           gprs'.pending = "all" => \A c \in Contexts : context[c].pending = "none"
    PROVE  AtomRequest'
<1>1. \A e \in Drivers \ {d} : gc'[e].cb \notin ForAtom
    BY NobodyForAtom
<1>2. \A e, f \in Drivers : gc'[e].cb \in ForAtom /\ gc'[f].cb \in ForAtom => e = f
    BY <1>1
<1>3. \A e \in Drivers : gc'[e].cb \in ForAtom => gprs'.pending = gc'[e].cb
    BY <1>1
<1> QED
    BY <1>2, <1>3 DEF AtomRequest, ForAtom

LEMMA RequestDone ==
    ASSUME AtomRequest, NEW d \in Drivers, gc[d].cb \in ForAtom, gc'[d].cb \notin ForAtom,
           \A e \in Drivers \ {d} : gc'[e].cb = gc[e].cb, gprs'.pending = "none"
    PROVE  AtomRequest'
<1>1. \A e \in Drivers \ {d} : gc[e].cb \notin ForAtom
    BY DEF AtomRequest
<1>2. \A e \in Drivers : gc'[e].cb \notin ForAtom
    BY <1>1
<1> QED
    BY <1>2 DEF AtomRequest, ForAtom

\* The next context of DeactivateAll.
LEMMA RequestGoesOn ==
    ASSUME AtomRequest, NEW d \in Drivers, NEW e \in Drivers \ {d}, gc[d].cb = "all",
           gc'[d].cb = "none", gc'[e].cb = "all",
           \A f \in Drivers \ {d, e} : gc'[f].cb = gc[f].cb, gprs'.pending = gprs.pending,
           \A c \in Contexts : context'[c] = context[c] \/ context'[c].pending = "none"
    PROVE  AtomRequest'
<1>1. \A f \in Drivers \ {d} : gc[f].cb \notin ForAtom
    BY DEF AtomRequest, ForAtom
<1>2. gprs.pending = "all" /\ \A c \in Contexts : context'[c].pending = "none"
    BY DEF AtomRequest, ForAtom
<1>3. \A f \in Drivers \ {e} : gc'[f].cb \notin ForAtom
    BY <1>1 DEF ForAtom
<1>4. \A f, g \in Drivers : gc'[f].cb \in ForAtom /\ gc'[g].cb \in ForAtom => f = g
    BY <1>3
<1>5. \A f \in Drivers : gc'[f].cb \in ForAtom => gprs'.pending = gc'[f].cb
    BY <1>2, <1>3
<1> QED
    BY <1>2, <1>4, <1>5 DEF AtomRequest, ForAtom

-----------------------------------------------------------------------------
(* The invariant and the steps.                                            *)

LEMMA Known ==
    ASSUME IInv, ContextInv
    PROVE  /\ gprs \in Atoms /\ Typed(a0) /\ a0.gc = gc /\ a0.gprs = gprs
           /\ gprs.cids \subseteq 1 .. MaxCid /\ gprs.pending \in {"none", "remove", "all"}
           /\ gc \in [Drivers -> DriverType] /\ context \in [Contexts -> ContextType]
           /\ Drivers \in SUBSET Nat /\ Contexts \in SUBSET Nat /\ NoDriver \notin Drivers
<1>1. gprs \in Atoms
    BY DEF IInv, Whole, Half, Typed, a0
<1>2. gprs.cids \subseteq 1 .. MaxCid /\ gprs.pending \in {"none", "remove", "all"}
    BY <1>1 DEF Atoms
<1> QED
    BY <1>1, <1>2, GprsAssumption
    DEF IInv, Whole, Half, a0, ContextInv, ContextTypes, NoDriver

\* The driver of a context.
LEMMA OnDriver ==
    ASSUME IInv, ContextInv, NEW c \in Contexts, context[c].gc # NoDriver
    PROVE  /\ context[c].gc \in Drivers
           /\ gc[context[c].gc].inuse /\ gc[context[c].gc].ctx = c
           /\ Serving(gc[context[c].gc], context[c].gc, context)
           /\ DriverStates(gc[context[c].gc])
<1>1. context[c].gc \in Drivers
    BY Known DEF ContextType
<1> QED
    BY <1>1 DEF ContextInv, Pairs, Served

LEMMA ActiveOnDriver ==
    ASSUME IInv, ContextInv, NEW c \in Contexts, context[c].active
    PROVE  context[c].gc # NoDriver /\ gc[context[c].gc].state # "enabling"
<1>1. context[c].gc # NoDriver
    BY DEF ContextInv, Pairs, Served
<1> QED
    BY <1>1, OnDriver DEF Serving

\* A context that is down and waits for nothing has no driver.
LEMMA RestsAlone ==
    ASSUME IInv, ContextInv, NEW c \in Contexts, ~context[c].active,
           context[c].pending = "none"
    PROVE  context[c].gc = NoDriver
<1> SUFFICES ASSUME context[c].gc # NoDriver PROVE FALSE
    OBVIOUS
<1> DEFINE g == gc[context[c].gc]
<1>1. g.inuse /\ g.ctx = c /\ Serving(g, context[c].gc, context) /\ DriverStates(g)
    BY OnDriver
<1> HIDE DEF g
<1>2. g.state = "enabling" /\ Own(g) = "none"
    BY <1>1 DEF Serving
<1> QED
    BY <1>1, <1>2 DEF DriverStates, Own

\* A context that is not known has none either.
LEMMA UnknownAlone ==
    ASSUME IInv, ContextInv, NEW c \in Contexts, ~context[c].known
    PROVE  context[c].gc = NoDriver
BY OnDriver DEF Serving

LEMMA FirstActiveIs ==
    ASSUME NEW cs, have_active_contexts(cs)
    PROVE  FirstActive(cs) \in Contexts /\ cs[FirstActive(cs)].active
<1> DEFINE S == {c \in Contexts : cs[c].active}
<1>1. S \in SUBSET Nat /\ S # {}
    BY GprsAssumption DEF have_active_contexts
<1>2. Min(S) \in S
    BY <1>1, MinOfNaturals
<1> QED
    BY <1>2 DEF FirstActive

LEMMA KeptKeeps ==
    ASSUME IInv, ContextInv, Kept, ContextTypes'
    PROVE  ContextInv'
<1>1. \A d \in Drivers : Working(gc[d], gc'[d])
    BY AlikeWorks DEF ContextInv, Pairs, Kept
<1>2. Pairs'
    <2>1. ASSUME NEW d \in Drivers PROVE DriverStates(gc'[d]) /\ Serving(gc'[d], d, context')
        <3>1. Serving(gc[d], d, context)
            BY DEF ContextInv, Pairs
        <3> QED
            BY <1>1, <3>1, StillServing DEF Kept, Working
    <2>2. ASSUME NEW c \in Contexts PROVE Served(context'[c], c, gc')
        <3>1. context'[c] = context[c] /\ Served(context[c], c, gc)
            BY DEF ContextInv, Pairs, Kept
        <3>2. context[c].gc # NoDriver => context[c].gc \in Drivers
            BY OnDriver
        <3> QED
            BY <3>1, <3>2 DEF Served, Kept, Alike
    <2> QED
        BY <2>1, <2>2 DEF Pairs
<1>3. OwnCids'
    BY SameCids DEF ContextInv, Kept, Alike
<1>4. AtomRequest'
    BY SameRequest, Known DEF ContextInv, Kept, Alike
<1> QED
    BY <1>2, <1>3, <1>4 DEF ContextInv

\* release_context: the driver stops, the context is without one, the cid is free.
LEMMA ReleaseKeepsPairs ==
    ASSUME IInv, ContextInv, NEW d \in Drivers, gc[d].inuse,
           NEW c \in Contexts, c = gc[d].ctx,
           ~gc'[d].inuse, DriverStates(gc'[d]),
           \A e \in Drivers \ {d} : Working(gc[e], gc'[e]),
           \A k \in Contexts \ {c} : context'[k] = context[k],
           context'[c].gc = NoDriver, ~context'[c].active, context'[c].pending = "none",
           gprs'.cids = gprs.cids \ {context[c].cid}
    PROVE  Pairs' /\ OwnCids'
<1>1. ContextTypes /\ Pairs /\ OwnCids
    BY DEF ContextInv
<1>2. context[c].cid = gc[d].cid
    BY <1>1 DEF Pairs, Serving
<1>3. Serving(gc'[d], d, context') /\ Served(context'[c], c, gc')
    BY DEF Serving, Served
<1>4. Pairs'
    BY <1>1, <1>3, OnePair
<1>5. OwnCids'
    <2>1. \A e \in Drivers \ {d} : gc'[e].inuse = gc[e].inuse /\ gc'[e].cid = gc[e].cid
        BY DEF Working
    <2> QED
        BY <1>1, <1>2, <2>1, GivenBack
<1> QED
    BY <1>4, <1>5

LEMMA UnchangedWorks ==
    ASSUME IInv, ContextInv, NEW d \in Drivers, NEW h, h = gc[d]
    PROVE  Working(gc[d], h)
<1>1. DriverStates(gc[d])
    BY DEF ContextInv, Pairs
<1> QED
    BY <1>1 DEF Working

\* A driver is asked to deactivate.
Asked(g, h, cb) ==
    /\ h.inuse = g.inuse /\ h.ctx = g.ctx /\ h.cid = g.cid
    /\ h.state = "disabling" /\ h.cb = cb

Disabled(ds, d, cb) == [ds EXCEPT ![d].state = "disabling", ![d].cb = cb]

LEMMA DisablingIs ==
    ASSUME NEW ds \in [Drivers -> DriverType], NEW d \in Drivers,
           NEW cb \in {"deactivate", "remove", "all"},
           NEW es, es = Disabled(ds, d, cb)
    PROVE  /\ es \in [Drivers -> DriverType] /\ Asked(ds[d], es[d], cb)
           /\ \A e \in Drivers \ {d} : es[e] = ds[e]
<1> DEFINE new(g) == [g EXCEPT !.state = "disabling", !.cb = cb]
<1>1. \A g \in DriverType : new(g) \in DriverType /\ Asked(g, new(g), cb)
    <2> SUFFICES ASSUME NEW g \in DriverType PROVE new(g) \in DriverType /\ Asked(g, new(g), cb)
        OBVIOUS
    <2> DEFINE h == [g EXCEPT !.state = "disabling"]
               i == [h EXCEPT !.cb = cb]
    <2>1. h \in DriverType /\ h.inuse = g.inuse /\ h.ctx = g.ctx /\ h.cid = g.cid
          /\ h.state = "disabling"
        BY DEF DriverType
    <2>2. new(g) = i
        OBVIOUS
    <2> HIDE DEF h
    <2>3. i \in DriverType /\ i.inuse = h.inuse /\ i.ctx = h.ctx /\ i.cid = h.cid
          /\ i.state = h.state /\ i.cb = cb
        BY <2>1 DEF DriverType
    <2> QED
        BY <2>1, <2>2, <2>3 DEF Asked
<1> DEFINE h == new(ds[d])
<1>2. es = [ds EXCEPT ![d] = h] /\ ds[d] \in DriverType
    BY DEF Disabled
<1>3. h \in DriverType /\ Asked(ds[d], h, cb)
    BY <1>1, <1>2
<1> HIDE DEF h
<1> QED
    BY <1>2, <1>3

\* ... for the atom: it goes on with what its context waits for, nothing.
LEMMA AskedWorks ==
    ASSUME NEW g, NEW h, NEW cb \in ForAtom, DriverStates(g), g.inuse,
           g.state # "enabling", Own(g) = "none", Asked(g, h, cb)
    PROVE  Working(g, h)
BY DEF Asked, Working, DriverStates, Own, ForAtom

LEMMA ActivateKeeps ==
    ASSUME Conditions, IInv, ContextInv, NEW c \in Contexts, Activate(c)
    PROVE  ContextInv'
<1> DEFINE d == Min(FreeDrivers(c))
           n == gprs_cid_alloc
           h == [inuse |-> TRUE, state |-> "enabling", cb |-> "activate",
                 ctx |-> c, cid |-> n, shut |-> FALSE]
           k == [context[c] EXCEPT !.cid = n, !.gc = d, !.pending = "activate"]
<1>1. /\ ContextTypes /\ Pairs /\ OwnCids /\ AtomRequest
      /\ gprs \in Atoms /\ gc \in [Drivers -> DriverType] /\ context \in [Contexts -> ContextType]
      /\ Drivers \in SUBSET Nat /\ gprs.cids \subseteq 1 .. MaxCid
      /\ gprs.pending \in {"none", "remove", "all"}
    BY Known DEF ContextInv
<1>2. d \in Drivers /\ ~gc[d].inuse
    <2>1. FreeDrivers(c) \in SUBSET Nat /\ FreeDrivers(c) # {}
        BY <1>1 DEF Activate, FreeDrivers
    <2>2. d \in FreeDrivers(c)
        BY <2>1, MinOfNaturals
    <2> QED
        BY <2>2 DEF FreeDrivers
<1>3. n \in FreeCids
    <2>1. InUse # Drivers
        BY <1>2 DEF InUse
    <2> QED
        BY <1>1, <2>1, CidFree
<1>4. n \in 1 .. MaxCid /\ n \in 0 .. MaxCid
    <2>1. n \in 1 .. MaxCid
        BY <1>3 DEF FreeCids
    <2> HIDE DEF n
    <2> QED
        BY <2>1, GprsAssumption
<1>5. context[c].gc = NoDriver /\ context[c].known = TRUE /\ context[c].active = FALSE
    BY RestsAlone, <1>1 DEF Activate, ContextType
<1>6. /\ gprs' = [gprs EXCEPT !.cids = @ \cup ({n} \cap 1 .. MaxCid)]
      /\ context' = [context EXCEPT ![c] = k]
      /\ gc' = [gc EXCEPT ![d] = h]
      /\ events' = events /\ network' = network /\ context[c].pending = "none"
    BY DEF Activate
<1> HIDE DEF n, d
<1>7. /\ k \in ContextType /\ k.cid = n /\ k.gc = d /\ k.pending = "activate"
      /\ k.known = TRUE /\ k.active = FALSE
    <2> DEFINE k1 == [context[c] EXCEPT !.cid = n]
               k2 == [k1 EXCEPT !.gc = d]
               k3 == [k2 EXCEPT !.pending = "activate"]
    <2>1. k1 \in ContextType /\ k1.cid = n /\ k1.known = TRUE /\ k1.active = FALSE
        BY <1>1, <1>4, <1>5 DEF ContextType
    <2>2. k = k3
        OBVIOUS
    <2> HIDE DEF k1, k
    <2>3. k2 \in ContextType /\ k2.cid = n /\ k2.known = TRUE /\ k2.active = FALSE /\ k2.gc = d
        BY <2>1, <1>2 DEF ContextType
    <2> HIDE DEF k2
    <2>4. k3 \in ContextType /\ k3.cid = n /\ k3.known = TRUE /\ k3.active = FALSE /\ k3.gc = d
          /\ k3.pending = "activate"
        BY <2>3 DEF ContextType
    <2> QED
        BY <2>2, <2>4
<1> HIDE DEF k
<1>8. h \in DriverType /\ h.inuse /\ h.state = "enabling" /\ h.cb = "activate" /\ h.ctx = c /\ h.cid = n
    BY <1>4 DEF DriverType
<1> HIDE DEF h
<1>9. /\ context'[c] = k /\ gc'[d] = h
      /\ \A j \in Contexts \ {c} : context'[j] = context[j]
      /\ \A e \in Drivers \ {d} : gc'[e] = gc[e]
    BY <1>1, <1>2, <1>6
<1>10. gprs'.cids = gprs.cids \cup {n} /\ gprs'.pending = gprs.pending
    BY <1>1, <1>4, <1>6 DEF Atoms
<1>11. ContextTypes'
    BY <1>1, <1>2, <1>6, <1>7, <1>8 DEF ContextTypes
<1>12. Pairs'
    <2>1. DriverStates(gc'[d]) /\ Own(gc'[d]) = "activate"
        BY <1>8, <1>9 DEF DriverStates, Own
    <2>2. Serving(gc'[d], d, context')
        BY <1>7, <1>8, <1>9, <2>1 DEF Serving
    <2>3. Served(context'[c], c, gc')
        BY <1>1, <1>2, <1>7, <1>8, <1>9, Known DEF Served
    <2>4. \A e \in Drivers \ {d} : Working(gc[e], gc'[e])
        BY <1>9, UnchangedWorks
    <2> QED
        BY <1>1, <1>2, <1>5, <1>9, <2>1, <2>2, <2>3, <2>4, OnePair
<1>13. OwnCids'
    <2>1. gc'[d].cid \in FreeCids /\ gc'[d].inuse /\ gprs'.cids = gprs.cids \cup {gc'[d].cid}
        BY <1>3, <1>8, <1>9, <1>10
    <2> QED
        BY <1>1, <1>2, <1>9, <2>1, TakenForDriver
<1>14. AtomRequest'
    <2>1. gc[d].cb \notin ForAtom /\ gprs.pending = "none"
        BY <1>1, <1>2, NobodyForAtom DEF Activate
    <2>2. gc'[d].cb \notin ForAtom
        BY <1>8, <1>9 DEF ForAtom
    <2>3. \A e \in Drivers : \/ gc'[e].cb = gc[e].cb
                             \/ gc'[e].cb \notin ForAtom /\ gc[e].cb \notin ForAtom
        BY <1>9, <2>1, <2>2
    <2> QED
        BY <1>1, <1>10, <2>1, <2>3, SameRequest
<1> QED
    BY <1>11, <1>12, <1>13, <1>14 DEF ContextInv

\* What the steps below keep besides: the types of what they leave alone.
LEMMA NothingElse ==
    ASSUME ContextTypes, events' = events, network' = network,
           context' \in [Contexts -> ContextType], gc' \in [Drivers -> DriverType]
    PROVE  ContextTypes'
BY DEF ContextTypes

LEMMA ActivateNoDriverKeeps ==
    ASSUME Conditions, IInv, ContextInv, NEW c \in Contexts, ActivateNoDriver(c)
    PROVE  ContextInv'
<1> DEFINE n == gprs_cid_alloc
           k == [context[c] EXCEPT !.cid = n]
<1>1. /\ ContextTypes /\ Pairs /\ OwnCids /\ AtomRequest
      /\ gprs \in Atoms /\ gc \in [Drivers -> DriverType] /\ context \in [Contexts -> ContextType]
      /\ gprs.cids \subseteq 1 .. MaxCid /\ gprs.pending \in {"none", "remove", "all"}
    BY Known DEF ContextInv
<1>2. Cardinality(gprs.cids \ Taken) < MaxLeaks
    <2>1. Cardinality(Leaked) < MaxLeaks
        BY DEF ActivateNoDriver
    <2>2. Leaked = gprs.cids \ Taken
        BY <1>1, NotTaken
    <2> HIDE DEF Leaked, Taken
    <2>3. Cardinality(Leaked) = Cardinality(gprs.cids \ Taken)
        BY <2>2, Zenon
    <2> QED
        BY <2>1, <2>3
<1>3. n \in FreeCids
    BY <1>1, <1>2, CidFree
<1>4. n \in 1 .. MaxCid /\ n \in 0 .. MaxCid
    <2>1. n \in 1 .. MaxCid
        BY <1>3 DEF FreeCids
    <2> HIDE DEF n
    <2> QED
        BY <2>1, GprsAssumption
<1>5. /\ gprs' = [gprs EXCEPT !.cids = @ \cup ({n} \cap 1 .. MaxCid)]
      /\ context' = [context EXCEPT ![c] = k] /\ gc' = gc
      /\ events' = events /\ network' = network
      /\ ~context[c].active /\ context[c].pending = "none" /\ gprs.pending = "none"
    BY DEF ActivateNoDriver
<1>6. context[c].gc = NoDriver
    BY <1>5, RestsAlone
<1> HIDE DEF n
<1>7. k \in ContextType /\ k.gc = NoDriver /\ ~k.active /\ k.pending = "none"
    BY <1>1, <1>4, <1>5, <1>6 DEF ContextType
<1> HIDE DEF k
<1>8. context'[c] = k /\ \A j \in Contexts \ {c} : context'[j] = context[j]
    BY <1>1, <1>5
<1>9. gprs'.cids = gprs.cids \cup {n} /\ gprs'.pending = gprs.pending
    BY <1>1, <1>4, <1>5 DEF Atoms
<1>10. ContextTypes'
    BY <1>1, <1>5, <1>7, NothingElse
<1>11. Pairs'
    BY <1>1, <1>5, <1>6, <1>7, <1>8, NoPair
<1>12. OwnCids'
    BY <1>1, <1>2, <1>3, <1>5, <1>9, LostCid
<1>13. AtomRequest'
    BY <1>1, <1>5, <1>9, SameRequest
<1> QED
    BY <1>10, <1>11, <1>12, <1>13 DEF ContextInv

LEMMA DeactivateKeeps ==
    ASSUME IInv, ContextInv, NEW c \in Contexts, Deactivate(c)
    PROVE  ContextInv'
<1> DEFINE d == context[c].gc
           k == [context[c] EXCEPT !.pending = "deactivate"]
<1>1. /\ ContextTypes /\ Pairs /\ OwnCids /\ AtomRequest
      /\ gc \in [Drivers -> DriverType] /\ context \in [Contexts -> ContextType]
      /\ gprs.pending \in {"none", "remove", "all"}
    BY Known DEF ContextInv
<1>2. /\ gprs' = gprs /\ gprs.pending = "none" /\ context[c].pending = "none"
      /\ context' = [context EXCEPT ![c] = k] /\ context[c].active
      /\ gc' = Disabled(gc, d, "deactivate")
      /\ events' = events /\ network' = network
    BY DEF Deactivate, Disabling, Disabled
<1>3. /\ d \in Drivers /\ gc[d].inuse /\ gc[d].ctx = c /\ gc[d].state # "enabling"
      /\ Serving(gc[d], d, context) /\ d # NoDriver
    BY <1>2, ActiveOnDriver, OnDriver
<1>4. /\ k \in ContextType /\ k.pending = "deactivate" /\ k.gc = d /\ k.active
      /\ k.known = context[c].known /\ k.cid = context[c].cid
    BY <1>1, <1>2 DEF ContextType
<1> HIDE DEF k
<1>5. context'[c] = k /\ \A j \in Contexts \ {c} : context'[j] = context[j]
    BY <1>1, <1>2
<1> HIDE DEF d
<1>6. /\ gc' \in [Drivers -> DriverType] /\ Asked(gc[d], gc'[d], "deactivate")
      /\ \A e \in Drivers \ {d} : gc'[e] = gc[e]
    BY <1>1, <1>2, <1>3, DisablingIs
<1>7. ContextTypes'
    BY <1>1, <1>2, <1>4, <1>6, NothingElse
<1>8. Pairs'
    <2>1. DriverStates(gc'[d]) /\ Own(gc'[d]) = "deactivate"
        BY <1>3, <1>6 DEF Asked, DriverStates, Own
    <2>2. Serving(gc'[d], d, context')
        BY <1>3, <1>4, <1>5, <1>6, <2>1 DEF Serving, Asked
    <2>3. Served(context'[c], c, gc')
        BY <1>3, <1>4, <1>5, <1>6 DEF Served, Asked
    <2>4. \A e \in Drivers \ {d} : Working(gc[e], gc'[e])
        BY <1>6, UnchangedWorks
    <2> QED
        BY <1>1, <1>3, <1>5, <2>1, <2>2, <2>3, <2>4, OnePair
<1>9. OwnCids'
    <2>1. \A e \in Drivers : gc'[e].inuse = gc[e].inuse /\ gc'[e].cid = gc[e].cid
        BY <1>6 DEF Asked
    <2> QED
        BY <1>1, <1>2, <2>1, SameCids
<1>10. AtomRequest'
    <2>1. gc[d].cb \notin ForAtom /\ gc'[d].cb \notin ForAtom
        BY <1>1, <1>2, <1>3, <1>6, NobodyForAtom DEF Asked, ForAtom
    <2>2. \A e \in Drivers : \/ gc'[e].cb = gc[e].cb
                             \/ gc'[e].cb \notin ForAtom /\ gc[e].cb \notin ForAtom
        BY <1>6, <2>1
    <2> QED
        BY <1>1, <1>2, <2>2, SameRequest
<1> QED
    BY <1>7, <1>8, <1>9, <1>10 DEF ContextInv

\* RemoveContext and DeactivateAll ask the driver of an active context.
LEMMA AskedForAtom ==
    ASSUME IInv, ContextInv, NEW c \in Contexts, NEW cb \in ForAtom,
           context[c].active, context[c].pending = "none", gprs.pending = "none",
           cb = "all" => \A k \in Contexts : context[k].pending = "none",
           gprs' = [gprs EXCEPT !.pending = cb], gc' = Disabling(c, cb),
           context' = context, events' = events, network' = network
    PROVE  ContextInv'
<1> DEFINE d == context[c].gc
<1>1. /\ ContextTypes /\ Pairs /\ OwnCids /\ AtomRequest /\ gprs \in Atoms
      /\ gc \in [Drivers -> DriverType] /\ context \in [Contexts -> ContextType]
    BY Known DEF ContextInv
<1>2. /\ d \in Drivers /\ gc[d].inuse /\ gc[d].ctx = c /\ gc[d].state # "enabling"
      /\ Serving(gc[d], d, context) /\ DriverStates(gc[d]) /\ d # NoDriver
    BY ActiveOnDriver, OnDriver
<1>3. gc' = Disabled(gc, d, cb)
    BY DEF Disabling, Disabled
<1> HIDE DEF d
<1>4. /\ gc' \in [Drivers -> DriverType] /\ Asked(gc[d], gc'[d], cb)
      /\ \A e \in Drivers \ {d} : gc'[e] = gc[e]
    <2>1. cb \in {"deactivate", "remove", "all"}
        BY DEF ForAtom
    <2> QED
        BY <1>1, <1>2, <1>3, <2>1, DisablingIs
<1>5. gprs'.cids = gprs.cids /\ gprs'.pending = cb
    BY <1>1 DEF Atoms
<1>6. ContextTypes'
    BY <1>1, <1>4, NothingElse
<1>7. Own(gc[d]) = "none"
    BY <1>2 DEF Serving
<1>8. \A e \in Drivers : Working(gc[e], gc'[e])
    BY <1>2, <1>4, <1>7, AskedWorks, UnchangedWorks
<1>9. Pairs'
    <2>1. DriverStates(gc'[d]) /\ Serving(gc'[d], d, context')
        BY <1>2, <1>8, StillServing DEF Working
    <2>2. Served(context'[c], c, gc')
        <3>1. Served(context[c], c, gc) /\ context[c].gc = d
            BY <1>1 DEF Pairs, d
        <3> QED
            BY <1>2, <1>4, <3>1 DEF Served, Asked
    <2> QED
        BY <1>1, <1>2, <1>8, <2>1, <2>2, OnePair
<1>10. OwnCids'
    BY <1>1, <1>5, <1>8, SameCids DEF Working
<1>11. AtomRequest'
    <2>1. gc'[d].cb = cb
        BY <1>4 DEF Asked
    <2> QED
        BY <1>1, <1>2, <1>4, <1>5, <2>1, NewRequest
<1> QED
    BY <1>6, <1>9, <1>10, <1>11 DEF ContextInv

\* A context that has no driver is added, or forgotten.
LEMMA WithoutDriver ==
    ASSUME IInv, ContextInv, NEW c \in Contexts, context[c].gc = NoDriver,
           NEW k \in {NewContext, Forgotten}, context' = [context EXCEPT ![c] = k],
           gprs' = gprs, gc' = gc, events' = events, network' = network
    PROVE  ContextInv'
<1>1. /\ ContextTypes /\ Pairs /\ OwnCids /\ AtomRequest
      /\ gc \in [Drivers -> DriverType] /\ context \in [Contexts -> ContextType]
      /\ gprs.pending \in {"none", "remove", "all"}
    BY Known DEF ContextInv
<1>2. k \in ContextType /\ k.gc = NoDriver /\ ~k.active /\ k.pending = "none"
    <2>1. NewContext \in ContextType /\ NewContext.gc = NoDriver /\ ~NewContext.active
          /\ NewContext.pending = "none"
        BY GprsAssumption DEF NewContext, ContextType
    <2>2. Forgotten \in ContextType /\ Forgotten.gc = NoDriver /\ ~Forgotten.active
          /\ Forgotten.pending = "none"
        BY <2>1 DEF Forgotten, ContextType
    <2> QED
        BY <2>1, <2>2
<1>3. context'[c] = k /\ \A j \in Contexts \ {c} : context'[j] = context[j]
    BY <1>1
<1>4. ContextTypes'
    BY <1>1, <1>2, NothingElse
<1>5. Pairs'
    BY <1>1, <1>2, <1>3, NoPair
<1>6. OwnCids'
    BY <1>1, SameCids
<1>7. AtomRequest'
    BY <1>1, <1>2, <1>3, SameRequest
<1> QED
    BY <1>4, <1>5, <1>6, <1>7 DEF ContextInv

LEMMA AddContextKeeps ==
    ASSUME IInv, ContextInv, NEW c \in Contexts, AddContext(c)
    PROVE  ContextInv'
<1>1. context[c].gc = NoDriver
    BY UnknownAlone DEF AddContext
<1> QED
    BY <1>1, WithoutDriver DEF AddContext

LEMMA RemoveContextKeeps ==
    ASSUME Conditions, IInv, ContextInv, NEW c \in Contexts, gprs_remove_context(c)
    PROVE  ContextInv'
<1>1. CASE context[c].active
    <2>1. /\ context[c].pending = "none" /\ gprs.pending = "none"
          /\ gprs' = [gprs EXCEPT !.pending = "remove"] /\ gc' = Disabling(c, "remove")
          /\ context' = context /\ events' = events /\ network' = network
        BY <1>1 DEF gprs_remove_context
    <2> QED
        BY <1>1, <2>1, AskedForAtom DEF ForAtom
<1>2. CASE ~context[c].active
    <2>1. /\ context[c].pending = "none" /\ context' = [context EXCEPT ![c] = Forgotten]
          /\ gprs' = gprs /\ gc' = gc /\ events' = events /\ network' = network
        BY <1>2 DEF gprs_remove_context, Conditions
    <2>2. context[c].gc = NoDriver
        BY <1>2, <2>1, RestsAlone
    <2> QED
        BY <2>1, <2>2, WithoutDriver
<1> QED
    BY <1>1, <1>2

LEMMA DeactivateAllKeeps ==
    ASSUME IInv, ContextInv, gprs_deactivate_all
    PROVE  ContextInv'
<1>1. FirstActive(context) \in Contexts /\ context[FirstActive(context)].active
    BY FirstActiveIs DEF gprs_deactivate_all
<1> DEFINE c == FirstActive(context)
<1>2. /\ gprs.pending = "none" /\ \A k \in Contexts : context[k].pending = "none"
      /\ gprs' = [gprs EXCEPT !.pending = "all"] /\ gc' = Disabling(c, "all")
      /\ context' = context /\ events' = events /\ network' = network
    BY DEF gprs_deactivate_all
<1> HIDE DEF c
<1>3. c \in Contexts /\ context[c].active
    BY <1>1 DEF c
<1> QED
    BY <1>2, <1>3, AskedForAtom DEF ForAtom

-----------------------------------------------------------------------------
(* What the drivers answer.                                                *)

\* A driver that works on something, and its context.
LEMMA DriverInUse ==
    ASSUME IInv, ContextInv, NEW d \in Drivers, gc[d].state # "idle"
    PROVE  /\ gc[d].inuse /\ gc[d].ctx \in Contexts
           /\ Serving(gc[d], d, context) /\ DriverStates(gc[d])
           /\ context[gc[d].ctx].gc = d
<1>1. DriverStates(gc[d]) /\ Serving(gc[d], d, context)
    BY DEF ContextInv, Pairs
<1> QED
    BY <1>1 DEF DriverStates, Serving

\* The states after an answer: the driver is active, the context waits no more.
Up(g, h) ==
    /\ h.inuse = g.inuse /\ h.ctx = g.ctx /\ h.cid = g.cid
    /\ h.state = "active" /\ h.cb = "none"

LEMMA UpIs ==
    ASSUME NEW d \in Drivers, gc \in [Drivers -> DriverType],
           gc' = [gc EXCEPT ![d].state = "active", ![d].cb = "none"]
    PROVE  /\ gc' \in [Drivers -> DriverType] /\ Up(gc[d], gc'[d])
           /\ \A e \in Drivers \ {d} : gc'[e] = gc[e]
<1> DEFINE g == gc[d]
           h == [g EXCEPT !.state = "active"]
           i == [h EXCEPT !.cb = "none"]
<1>1. gc' = [gc EXCEPT ![d] = i]
    OBVIOUS
<1>2. h \in DriverType /\ h.inuse = g.inuse /\ h.ctx = g.ctx /\ h.cid = g.cid /\ h.state = "active"
    <2>1. g \in DriverType
        OBVIOUS
    <2> HIDE DEF g
    <2> QED
        BY <2>1 DEF DriverType
<1> HIDE DEF h
<1>3. i \in DriverType /\ i.inuse = h.inuse /\ i.ctx = h.ctx /\ i.cid = h.cid
      /\ i.state = h.state /\ i.cb = "none"
    BY <1>2 DEF DriverType
<1> HIDE DEF i
<1> QED
    BY <1>1, <1>2, <1>3 DEF Up

LEMMA ConnectedKeeps ==
    ASSUME IInv, ContextInv, NEW d \in Drivers, Connected(d)
    PROVE  ContextInv'
<1> DEFINE c == gc[d].ctx
           k1 == [context[c] EXCEPT !.active = TRUE]
           k == [k1 EXCEPT !.pending = "none"]
<1>1. /\ ContextTypes /\ Pairs /\ OwnCids /\ AtomRequest
      /\ gc \in [Drivers -> DriverType] /\ context \in [Contexts -> ContextType]
      /\ gprs.pending \in {"none", "remove", "all"}
    BY Known DEF ContextInv
<1>2. /\ gc' = [gc EXCEPT ![d].state = "active", ![d].cb = "none"]
      /\ gc[d].state = "enabling" /\ gprs' = gprs /\ events' = events /\ network' = network
      /\ context' = [context EXCEPT ![c].active = TRUE, ![c].pending = "none"]
    BY DEF Connected
<1>3. /\ gc[d].inuse /\ c \in Contexts /\ Serving(gc[d], d, context) /\ DriverStates(gc[d])
    BY <1>2, DriverInUse
<1>4. /\ gc' \in [Drivers -> DriverType] /\ Up(gc[d], gc'[d])
      /\ \A e \in Drivers \ {d} : gc'[e] = gc[e]
    BY <1>1, <1>2, UpIs
<1>5. /\ k \in ContextType /\ k.known = context[c].known /\ k.gc = context[c].gc
      /\ k.cid = context[c].cid /\ k.active = TRUE /\ k.pending = "none"
    <2> DEFINE j == context[c]
    <2>1. j \in ContextType
        BY <1>1, <1>3
    <2> HIDE DEF j
    <2>2. \A a \in ContextType : [a EXCEPT !.active = TRUE] \in ContextType
        BY DEF ContextType
    <2>3. /\ k1 \in ContextType /\ k1.known = j.known /\ k1.gc = j.gc
          /\ k1.cid = j.cid /\ k1.active = TRUE
        BY <2>1, <2>2 DEF ContextType, j
    <2> HIDE DEF k1
    <2>4. /\ k \in ContextType /\ k.known = k1.known /\ k.gc = k1.gc /\ k.cid = k1.cid
          /\ k.active = k1.active /\ k.pending = "none"
        BY <2>3 DEF ContextType
    <2> QED
        BY <2>3, <2>4 DEF j
<1>6. context' = [context EXCEPT ![c] = k]
    BY <1>2
<1> HIDE DEF k
<1>7. context'[c] = k /\ \A j \in Contexts \ {c} : context'[j] = context[j]
    BY <1>1, <1>3, <1>6
<1>8. ContextTypes'
    BY <1>1, <1>2, <1>4, <1>5, <1>6, NothingElse
<1> HIDE DEF c
<1>9. Pairs'
    <2>1. DriverStates(gc'[d]) /\ Own(gc'[d]) = "none"
        BY <1>3, <1>4 DEF Up, DriverStates, Own
    <2>2. gc[d].ctx = c
        BY DEF c
    <2>3. context[c].known /\ context[c].gc = d /\ context[c].cid = gc[d].cid /\ d # NoDriver
        BY <1>3, <2>2, Known DEF Serving
    <2>4. Serving(gc'[d], d, context')
        BY <1>3, <1>4, <1>5, <1>7, <2>1, <2>2, <2>3 DEF Serving, Up
    <2>5. Served(context'[c], c, gc')
        BY <1>3, <1>4, <1>5, <1>7, <2>2, <2>3 DEF Served, Up
    <2>6. \A e \in Drivers \ {d} : Working(gc[e], gc'[e])
        BY <1>4, UnchangedWorks
    <2> QED
        BY <1>1, <1>3, <1>7, <2>1, <2>2, <2>4, <2>5, <2>6, OnePair
<1>10. OwnCids'
    <2>1. \A e \in Drivers : gc'[e].inuse = gc[e].inuse /\ gc'[e].cid = gc[e].cid
        BY <1>4 DEF Up
    <2> QED
        BY <1>1, <1>2, <2>1, SameCids
<1>11. AtomRequest'
    <2>1. gc[d].cb \notin ForAtom /\ gc'[d].cb \notin ForAtom
        BY <1>2, <1>3, <1>4 DEF Up, DriverStates, ForAtom
    <2>2. \A e \in Drivers : \/ gc'[e].cb = gc[e].cb
                             \/ gc'[e].cb \notin ForAtom /\ gc[e].cb \notin ForAtom
        BY <1>4, <2>1
    <2>3. \A j \in Contexts : context'[j] = context[j] \/ context'[j].pending = "none"
        BY <1>5, <1>7
    <2> QED
        BY <1>1, <1>2, <2>2, <2>3, SameRequest
<1> QED
    BY <1>8, <1>9, <1>10, <1>11 DEF ContextInv

LEMMA FailureKeeps ==
    ASSUME IInv, ContextInv, NEW d \in Drivers, DeactivateFailed(d)
    PROVE  ContextInv'
<1> DEFINE c == gc[d].ctx
           k == [context[c] EXCEPT !.pending = "none"]
<1>1. /\ ContextTypes /\ Pairs /\ OwnCids /\ AtomRequest /\ gprs \in Atoms
      /\ gc \in [Drivers -> DriverType] /\ context \in [Contexts -> ContextType]
      /\ gprs.pending \in {"none", "remove", "all"}
    BY Known DEF ContextInv
<1>2. /\ gc' = [gc EXCEPT ![d].state = "active", ![d].cb = "none"]
      /\ gc[d].state = "disabling" /\ events' = events /\ network' = network
    BY DEF DeactivateFailed
<1>3. /\ gc[d].inuse /\ c \in Contexts /\ Serving(gc[d], d, context) /\ DriverStates(gc[d])
      /\ context[c].gc = d
    BY <1>2, DriverInUse
<1>4. /\ gc' \in [Drivers -> DriverType] /\ Up(gc[d], gc'[d])
      /\ \A e \in Drivers \ {d} : gc'[e] = gc[e]
    BY <1>1, <1>2, UpIs
<1>5. \A e \in Drivers \ {d} : Working(gc[e], gc'[e])
    BY <1>4, UnchangedWorks
<1>6. \A e \in Drivers : gc'[e].inuse = gc[e].inuse /\ gc'[e].cid = gc[e].cid
    BY <1>4 DEF Up
<1>7. DriverStates(gc'[d]) /\ Own(gc'[d]) = "none"
    BY <1>3, <1>4 DEF Up, DriverStates, Own
<1>8. ASSUME gc[d].cb = "deactivate"
      PROVE  ContextInv'
    <2>1. context' = [context EXCEPT ![c] = k] /\ gprs' = gprs
        BY <1>8 DEF DeactivateFailed
    <2>2. /\ k \in ContextType /\ k.known = context[c].known /\ k.gc = context[c].gc
          /\ k.cid = context[c].cid /\ k.active = context[c].active /\ k.pending = "none"
        BY <1>1, <1>3 DEF ContextType
    <2> HIDE DEF k
    <2>3. context'[c] = k /\ \A j \in Contexts \ {c} : context'[j] = context[j]
        BY <1>1, <1>3, <2>1
    <2>4. ContextTypes'
        BY <1>1, <1>2, <1>4, <2>1, <2>2, NothingElse
    <2>5. gc[d].ctx = c
        OBVIOUS
    <2> HIDE DEF c
    <2>6. Pairs'
        <3>1. context[c].known /\ context[c].cid = gc[d].cid /\ context[c].active = TRUE /\ d # NoDriver
            BY <1>2, <1>3, <2>5, Known DEF Serving
        <3>2. Serving(gc'[d], d, context')
            BY <1>3, <1>4, <1>7, <2>2, <2>3, <2>5, <3>1 DEF Serving, Up
        <3>3. Served(context'[c], c, gc')
            BY <1>3, <1>4, <2>2, <2>3, <2>5, <3>1 DEF Served, Up
        <3> QED
            BY <1>1, <1>3, <1>5, <1>7, <2>3, <2>5, <3>2, <3>3, OnePair
    <2>7. OwnCids'
        BY <1>1, <1>6, <2>1, SameCids
    <2>8. AtomRequest'
        <3>1. gc[d].cb \notin ForAtom /\ gc'[d].cb \notin ForAtom
            BY <1>4, <1>8 DEF Up, ForAtom
        <3>2. \A e \in Drivers : \/ gc'[e].cb = gc[e].cb
                                 \/ gc'[e].cb \notin ForAtom /\ gc[e].cb \notin ForAtom
            BY <1>4, <3>1
        <3>3. \A j \in Contexts : context'[j] = context[j] \/ context'[j].pending = "none"
            BY <2>2, <2>3
        <3> QED
            BY <1>1, <2>1, <3>2, <3>3, SameRequest
    <2> QED
        BY <2>4, <2>6, <2>7, <2>8 DEF ContextInv
<1>9. ASSUME gc[d].cb # "deactivate"
      PROVE  ContextInv'
    <2>1. context' = context /\ gprs' = [gprs EXCEPT !.pending = "none"]
        BY <1>9 DEF DeactivateFailed
    <2>2. gprs'.pending = "none" /\ gprs'.cids = gprs.cids
        BY <1>1, <2>1 DEF Atoms
    <2>3. gc[d].cb \in ForAtom /\ gc'[d].cb \notin ForAtom
        BY <1>1, <1>2, <1>3, <1>4, <1>9 DEF Up, DriverStates, ForAtom, DriverType
    <2>4. Working(gc[d], gc'[d])
        BY <1>2, <1>4, <1>7, <2>3 DEF Working, Up, Own, ForAtom
    <2>5. ContextTypes'
        BY <1>1, <1>2, <1>4, <2>1, NothingElse
    <2>6. Pairs'
        <3>1. Serving(gc'[d], d, context')
            BY <1>3, <2>1, <2>4, StillServing
        <3>2. d # NoDriver
            BY Known
        <3>3. Served(context'[c], c, gc')
            BY <1>1, <1>3, <1>4, <2>1, <3>2 DEF Pairs, Served, Up
        <3> QED
            BY <1>1, <1>3, <1>5, <1>7, <2>1, <3>1, <3>3, OnePair
    <2>7. OwnCids'
        BY <1>1, <1>6, <2>2, SameCids
    <2>8. AtomRequest'
        BY <1>1, <1>4, <2>2, <2>3, RequestDone
    <2> QED
        BY <2>5, <2>6, <2>7, <2>8 DEF ContextInv
<1> QED
    BY <1>8, <1>9

\* release_context, as the three callbacks and ofono_gprs_context_deactivated
\* begin.
LEMMA ReleasedIs ==
    ASSUME IInv, ContextInv, NEW c \in Contexts, NEW k \in {NewContext, Forgotten}
    PROVE  /\ [context EXCEPT ![c] = k] \in [Contexts -> ContextType]
           /\ k.gc = NoDriver /\ ~k.active /\ k.pending = "none"
<1>1. /\ NewContext \in ContextType /\ NewContext.gc = NoDriver /\ ~NewContext.active
      /\ NewContext.pending = "none"
    BY GprsAssumption DEF NewContext, ContextType
<1>2. /\ Forgotten \in ContextType /\ Forgotten.gc = NoDriver /\ ~Forgotten.active
      /\ Forgotten.pending = "none"
    BY <1>1 DEF Forgotten, ContextType
<1>3. k \in ContextType
    BY <1>1, <1>2
<1> QED
    BY <1>1, <1>2, <1>3, Known

LEMMA IdleIs ==
    ASSUME IInv, ContextInv, NEW d \in Drivers
    PROVE  /\ Idle(d) \in [Drivers -> DriverType] /\ Idle(d)[d] = IdleDriver
           /\ \A e \in Drivers \ {d} : Idle(d)[e] = gc[e]
           /\ DriverStates(IdleDriver) /\ ~IdleDriver.inuse /\ IdleDriver.cb = "none"
<1>1. IdleDriver \in DriverType
    BY GprsAssumption DEF IdleDriver, DriverType
<1>2. DriverStates(IdleDriver) /\ ~IdleDriver.inuse /\ IdleDriver.cb = "none"
    BY DEF IdleDriver, DriverStates
<1> QED
    BY <1>1, <1>2, Known DEF Idle

LEMMA CidFreedIs ==
    ASSUME IInv, ContextInv, NEW c \in Contexts
    PROVE  /\ CidFreed(c) \in Atoms /\ CidFreed(c).pending = gprs.pending
           /\ CidFreed(c).cids = gprs.cids \ {context[c].cid}
           /\ [CidFreed(c) EXCEPT !.pending = "none"] \in Atoms
           /\ [CidFreed(c) EXCEPT !.pending = "none"].pending = "none"
           /\ [CidFreed(c) EXCEPT !.pending = "none"].cids = gprs.cids \ {context[c].cid}
<1>1. /\ CidFreed(c) \in Atoms /\ CidFreed(c).pending = gprs.pending
      /\ CidFreed(c).cids = gprs.cids \ {context[c].cid}
    BY Known DEF CidFreed, Atoms
<1> DEFINE g == CidFreed(c)
<1> HIDE DEF g
<1>2. g \in Atoms
    BY <1>1 DEF g
<1>3. /\ [g EXCEPT !.pending = "none"] \in Atoms /\ [g EXCEPT !.pending = "none"].pending = "none"
      /\ [g EXCEPT !.pending = "none"].cids = g.cids
    BY <1>2 DEF Atoms
<1> QED
    BY <1>1, <1>3 DEF g

LEMMA ActivateFailedKeeps ==
    ASSUME IInv, ContextInv, NEW d \in Drivers, ActivateFailed(d)
    PROVE  ContextInv'
<1> DEFINE c == gc[d].ctx
<1>1. /\ ContextTypes /\ AtomRequest /\ gc \in [Drivers -> DriverType]
      /\ context \in [Contexts -> ContextType] /\ gprs.pending \in {"none", "remove", "all"}
    BY Known DEF ContextInv
<1>2. /\ gc[d].state = "enabling" /\ gprs' = CidFreed(c)
      /\ context' = [context EXCEPT ![c] = NewContext]
      /\ gc' = Idle(d) /\ events' = events /\ network' = network
    BY DEF ActivateFailed, Released
<1>3. /\ gc[d].inuse /\ c \in Contexts /\ DriverStates(gc[d])
    BY <1>2, DriverInUse
<1>4. /\ gc' \in [Drivers -> DriverType] /\ gc'[d] = IdleDriver
      /\ \A e \in Drivers \ {d} : gc'[e] = gc[e]
      /\ DriverStates(gc'[d]) /\ ~gc'[d].inuse /\ gc'[d].cb = "none"
    BY <1>2, IdleIs
<1>5. \A e \in Drivers \ {d} : Working(gc[e], gc'[e])
    BY <1>4, UnchangedWorks
<1>6. /\ gprs'.pending = gprs.pending /\ gprs'.cids = gprs.cids \ {context[c].cid}
    BY <1>2, <1>3, CidFreedIs
<1>7. /\ context' \in [Contexts -> ContextType]
      /\ NewContext.gc = NoDriver /\ ~NewContext.active /\ NewContext.pending = "none"
    BY <1>2, <1>3, ReleasedIs
<1>8. context'[c] = NewContext /\ \A k \in Contexts \ {c} : context'[k] = context[k]
    BY <1>1, <1>2, <1>3
<1>9. ContextTypes'
    BY <1>1, <1>2, <1>4, <1>7, NothingElse
<1>10. Pairs' /\ OwnCids'
    BY <1>3, <1>4, <1>5, <1>6, <1>7, <1>8, ReleaseKeepsPairs
<1>11. AtomRequest'
    <2>1. gc[d].cb \notin ForAtom /\ gc'[d].cb \notin ForAtom
        BY <1>2, <1>3, <1>4 DEF DriverStates, ForAtom
    <2>2. \A e \in Drivers : \/ gc'[e].cb = gc[e].cb
                             \/ gc'[e].cb \notin ForAtom /\ gc[e].cb \notin ForAtom
        BY <1>4, <2>1
    <2> QED
        BY <1>1, <1>6, <1>7, <1>8, <2>2, SameRequest
<1> QED
    BY <1>9, <1>10, <1>11 DEF ContextInv

\* gprs_deactivate_next: the driver of another active context is asked.
LEMMA NextAsked ==
    ASSUME IInv, ContextInv, NEW d \in Drivers, gc[d].state = "disabling", gc[d].cb = "all",
           have_active_contexts(Released(gc[d].ctx)),
           NEW k, k = FirstActive(Released(gc[d].ctx)), NEW y, y = Released(gc[d].ctx)[k].gc
    PROVE  /\ y \in Drivers \ {d} /\ gc[y].inuse /\ gc[y].state # "enabling"
           /\ Own(gc[y]) = "none" /\ DriverStates(gc[y])
<1> DEFINE c == gc[d].ctx
<1>1. c \in Contexts /\ context[c].gc = d /\ context \in [Contexts -> ContextType]
    BY DriverInUse, Known
<1>2. k \in Contexts /\ Released(c)[k].active
    BY FirstActiveIs
<1>3. k # c
    BY <1>1, <1>2 DEF Released, NewContext
<1>4. Released(c)[k] = context[k]
    BY <1>1, <1>2, <1>3 DEF Released
<1>5. context[k].active /\ y = context[k].gc
    BY <1>2, <1>4
<1>6. /\ y \in Drivers /\ y # NoDriver /\ gc[y].inuse /\ gc[y].ctx = k
      /\ gc[y].state # "enabling" /\ Serving(gc[y], y, context) /\ DriverStates(gc[y])
    BY <1>2, <1>5, ActiveOnDriver, OnDriver
<1>7. y # d
    BY <1>3, <1>6
<1>8. context[k].pending = "none"
    BY <1>2 DEF ContextInv, AtomRequest, ForAtom
<1> QED
    BY <1>6, <1>7, <1>8 DEF Serving

LEMMA DeactivatedKeeps ==
    ASSUME IInv, ContextInv, NEW d \in Drivers, Deactivated(d)
    PROVE  ContextInv'
<1> DEFINE c == gc[d].ctx
           cs == Released(c)
           done == [CidFreed(c) EXCEPT !.pending = "none"]
<1>1. /\ ContextTypes /\ AtomRequest /\ gc \in [Drivers -> DriverType]
      /\ context \in [Contexts -> ContextType] /\ gprs.pending \in {"none", "remove", "all"}
    BY Known DEF ContextInv
<1>2. gc[d].state = "disabling" /\ events' = events /\ network' = network
    BY DEF Deactivated
<1>3. gc[d].inuse /\ c \in Contexts /\ DriverStates(gc[d])
    BY <1>2, DriverInUse
<1>4. /\ Idle(d) \in [Drivers -> DriverType] /\ Idle(d)[d] = IdleDriver
      /\ \A e \in Drivers \ {d} : Idle(d)[e] = gc[e]
      /\ DriverStates(IdleDriver) /\ ~IdleDriver.inuse /\ IdleDriver.cb = "none"
    BY IdleIs
<1>5. \A k \in {NewContext, Forgotten} : context' = [context EXCEPT ![c] = k] =>
          /\ context' \in [Contexts -> ContextType]
          /\ context'[c] = k /\ \A j \in Contexts \ {c} : context'[j] = context[j]
          /\ k.gc = NoDriver /\ ~k.active /\ k.pending = "none"
    BY <1>1, <1>3, ReleasedIs
<1>6. /\ CidFreed(c).pending = gprs.pending
      /\ CidFreed(c).cids = gprs.cids \ {context[c].cid}
      /\ done.pending = "none" /\ done.cids = gprs.cids \ {context[c].cid}
    BY <1>3, CidFreedIs
<1>7. \/ gc[d].cb = "deactivate" /\ context' = [context EXCEPT ![c] = NewContext]
         /\ gc' = Idle(d) /\ gprs' = CidFreed(c)
      \/ gc[d].cb = "remove" /\ context' = [context EXCEPT ![c] = Forgotten]
         /\ gc' = Idle(d) /\ gprs' = done
      \/ gc[d].cb = "all" /\ context' = [context EXCEPT ![c] = NewContext]
         /\ ~have_active_contexts(cs) /\ gc' = Idle(d) /\ gprs' = done
      \/ gc[d].cb = "all" /\ context' = [context EXCEPT ![c] = NewContext]
         /\ have_active_contexts(cs) /\ gprs' = CidFreed(c)
         /\ gc' = Disabled(Idle(d), cs[FirstActive(cs)].gc, "all")
    BY DEF Deactivated, gprs_deactivate_next, Released, Disabled
<1> HIDE DEF done
<1>8. ASSUME gc' = Idle(d), NEW k \in {NewContext, Forgotten},
             context' = [context EXCEPT ![c] = k],
             gprs'.cids = gprs.cids \ {context[c].cid}
      PROVE  /\ ContextTypes' /\ Pairs' /\ OwnCids' /\ gc'[d].cb = "none"
             /\ \A e \in Drivers \ {d} : gc'[e] = gc[e]
             /\ \A j \in Contexts : context'[j] = context[j] \/ context'[j].pending = "none"
    <2>1. /\ gc' \in [Drivers -> DriverType] /\ gc'[d].cb = "none"
          /\ \A e \in Drivers \ {d} : gc'[e] = gc[e]
          /\ DriverStates(gc'[d]) /\ ~gc'[d].inuse
        BY <1>4, <1>8
    <2>2. \A e \in Drivers \ {d} : Working(gc[e], gc'[e])
        BY <2>1, UnchangedWorks
    <2>3. /\ context' \in [Contexts -> ContextType]
          /\ \A j \in Contexts \ {c} : context'[j] = context[j]
          /\ context'[c].gc = NoDriver /\ ~context'[c].active /\ context'[c].pending = "none"
        BY <1>5, <1>8
    <2>4. ContextTypes'
        BY <1>1, <1>2, <2>1, <2>3, NothingElse
    <2>5. Pairs' /\ OwnCids'
        BY <1>3, <1>8, <2>1, <2>2, <2>3, ReleaseKeepsPairs
    <2> QED
        BY <2>1, <2>3, <2>4, <2>5
<1>9. CASE /\ gc[d].cb = "deactivate" /\ context' = [context EXCEPT ![c] = NewContext]
           /\ gc' = Idle(d) /\ gprs' = CidFreed(c)
    <2>1. /\ ContextTypes' /\ Pairs' /\ OwnCids' /\ gc'[d].cb = "none"
          /\ \A e \in Drivers \ {d} : gc'[e] = gc[e]
          /\ \A j \in Contexts : context'[j] = context[j] \/ context'[j].pending = "none"
        BY <1>6, <1>8, <1>9
    <2>2. \A e \in Drivers : \/ gc'[e].cb = gc[e].cb
                             \/ gc'[e].cb \notin ForAtom /\ gc[e].cb \notin ForAtom
        BY <1>9, <2>1 DEF ForAtom
    <2>3. gprs'.pending = gprs.pending
        BY <1>6, <1>9
    <2>4. AtomRequest'
        BY <1>1, <2>1, <2>2, <2>3, SameRequest
    <2> QED
        BY <2>1, <2>4 DEF ContextInv
<1>10. CASE /\ gc[d].cb \in ForAtom /\ gc' = Idle(d) /\ gprs' = done
            /\ \E k \in {NewContext, Forgotten} : context' = [context EXCEPT ![c] = k]
    <2>1. /\ ContextTypes' /\ Pairs' /\ OwnCids' /\ gc'[d].cb = "none"
          /\ \A e \in Drivers \ {d} : gc'[e] = gc[e]
        BY <1>6, <1>8, <1>10
    <2>2. gc'[d].cb \notin ForAtom /\ gprs'.pending = "none" /\ gc[d].cb \in ForAtom
        BY <1>6, <1>10, <2>1 DEF ForAtom
    <2>3. AtomRequest'
        BY <1>1, <2>1, <2>2, RequestDone
    <2> QED
        BY <2>1, <2>3 DEF ContextInv
<1>11. CASE /\ gc[d].cb = "all" /\ context' = [context EXCEPT ![c] = NewContext]
            /\ have_active_contexts(cs) /\ gprs' = CidFreed(c)
            /\ gc' = Disabled(Idle(d), cs[FirstActive(cs)].gc, "all")
    <2> DEFINE y == cs[FirstActive(cs)].gc
    <2>1. /\ y \in Drivers \ {d} /\ gc[y].inuse /\ gc[y].state # "enabling"
          /\ Own(gc[y]) = "none" /\ DriverStates(gc[y])
        BY <1>2, <1>11, NextAsked
    <2>2. gc' = Disabled(Idle(d), y, "all")
        BY <1>11
    <2> HIDE DEF y
    <2>3. /\ gc' \in [Drivers -> DriverType] /\ Asked(Idle(d)[y], gc'[y], "all")
          /\ \A e \in Drivers \ {y} : gc'[e] = Idle(d)[e]
        BY <1>4, <2>1, <2>2, DisablingIs
    <2>4. /\ Asked(gc[y], gc'[y], "all") /\ gc'[d] = IdleDriver
          /\ \A e \in Drivers \ {d, y} : gc'[e] = gc[e]
        BY <1>4, <2>1, <2>3
    <2>5. \A e \in Drivers \ {d} : Working(gc[e], gc'[e])
        BY <2>1, <2>4, AskedWorks, UnchangedWorks DEF ForAtom
    <2>6. /\ context' \in [Contexts -> ContextType]
          /\ \A j \in Contexts \ {c} : context'[j] = context[j]
          /\ context'[c].gc = NoDriver /\ ~context'[c].active /\ context'[c].pending = "none"
        BY <1>5, <1>11
    <2>7. /\ DriverStates(gc'[d]) /\ ~gc'[d].inuse /\ gc'[d].cb = "none" /\ gc'[y].cb = "all"
        BY <1>4, <2>4 DEF Asked
    <2>8. ContextTypes'
        BY <1>1, <1>2, <2>3, <2>6, NothingElse
    <2>9. Pairs' /\ OwnCids'
        BY <1>3, <1>6, <1>11, <2>5, <2>6, <2>7, ReleaseKeepsPairs
    <2>10. AtomRequest'
        <3>1. \A j \in Contexts : context'[j] = context[j] \/ context'[j].pending = "none"
            BY <2>6
        <3>2. gprs'.pending = gprs.pending
            BY <1>6, <1>11
        <3> QED
            BY <1>1, <1>11, <2>1, <2>4, <2>7, <3>1, <3>2, RequestGoesOn
    <2> QED
        BY <2>8, <2>9, <2>10 DEF ContextInv
<1> QED
    BY <1>7, <1>9, <1>10, <1>11 DEF ForAtom

LEMMA SessionEnds ==
    ASSUME IInv, ContextInv, NEW d \in Drivers, ofono_gprs_context_deactivated(d)
    PROVE  ContextInv' /\ gprs'.pending = gprs.pending
<1> DEFINE c == gc[d].ctx
           a == [a0 EXCEPT !.gprs = CidFreed(c), !.gc = Idle(d)]
           l == Clear(a, "ATTACHED_UPDATE")
           b == IF Has(a, "ATTACHED_UPDATE") THEN gprs_attached_update(l, Released(c)) ELSE a
<1>1. /\ ContextTypes /\ AtomRequest /\ gc \in [Drivers -> DriverType] /\ Typed(a0)
      /\ context \in [Contexts -> ContextType] /\ gprs.pending \in {"none", "remove", "all"}
    BY Known DEF ContextInv
<1>2. /\ gc[d].state = "active" /\ events' = events /\ network' = network /\ Becomes(b)
      /\ context' = [context EXCEPT ![c] = NewContext]
    BY DEF ofono_gprs_context_deactivated, Released
<1>3. gc[d].inuse /\ c \in Contexts /\ DriverStates(gc[d])
    BY <1>2, DriverInUse
<1>4. /\ Idle(d) \in [Drivers -> DriverType] /\ Idle(d)[d] = IdleDriver
      /\ \A e \in Drivers \ {d} : Idle(d)[e] = gc[e]
      /\ DriverStates(IdleDriver) /\ ~IdleDriver.inuse /\ IdleDriver.cb = "none"
    BY IdleIs
<1>5. /\ CidFreed(c) \in Atoms /\ CidFreed(c).pending = gprs.pending
      /\ CidFreed(c).cids = gprs.cids \ {context[c].cid}
    BY <1>3, CidFreedIs
<1>6. /\ Typed(a) /\ a.gprs = CidFreed(c) /\ a.gc = Idle(d)
    BY <1>1, <1>5 DEF Typed, IsRecord, a0
<1> HIDE DEF a
<1>7. KeepsContexts(a, b)
    <2>1. l.gprs = [a.gprs EXCEPT !.flags = @ \ {"ATTACHED_UPDATE"}] /\ l.asked = a.asked
          /\ l.decided = a.decided /\ l.gc = a.gc /\ IsRecord(l)
        BY <1>6 DEF Clear, Typed, IsRecord
    <2> HIDE DEF l
    <2>2. Typed(l) /\ l.gprs.pending = a.gprs.pending /\ l.gprs.cids = a.gprs.cids
        BY <1>6, <2>1 DEF Typed, Atoms
    <2>3. KeepsContexts(a, l)
        BY <1>4, <1>6, <2>1, <2>2, SameKeeps
    <2>4. KeepsContexts(l, gprs_attached_update(l, Released(c)))
        BY <1>4, <1>6, <2>1, <2>2, AttachedUpdateKeeps
    <2>5. KeepsContexts(a, a)
        BY <1>4, <1>6, SameKeeps
    <2> QED
        BY <2>3, <2>4, <2>5, KeepsOn
<1> HIDE DEF b
<1>8. /\ gc' \in [Drivers -> DriverType] /\ \A e \in Drivers : Alike(Idle(d)[e], gc'[e])
      /\ gprs'.pending = gprs.pending /\ gprs'.cids = gprs.cids \ {context[c].cid}
    BY <1>2, <1>5, <1>6, <1>7 DEF KeepsContexts, Becomes
<1>9. /\ DriverStates(gc'[d]) /\ ~gc'[d].inuse /\ gc'[d].cb = "none"
    BY <1>4, <1>8 DEF Alike, DriverStates
<1>10. \A e \in Drivers \ {d} : Alike(gc[e], gc'[e]) /\ Working(gc[e], gc'[e])
    <2>1. \A e \in Drivers : DriverStates(gc[e])
        BY DEF ContextInv, Pairs
    <2> QED
        BY <1>4, <1>8, <2>1, AlikeWorks
<1>11. /\ context' \in [Contexts -> ContextType] /\ context'[c] = NewContext
       /\ \A j \in Contexts \ {c} : context'[j] = context[j]
       /\ NewContext.gc = NoDriver /\ ~NewContext.active /\ NewContext.pending = "none"
    BY <1>1, <1>2, <1>3, ReleasedIs
<1>12. ContextTypes'
    BY <1>1, <1>2, <1>8, <1>11, NothingElse
<1>13. Pairs' /\ OwnCids'
    BY <1>3, <1>8, <1>9, <1>10, <1>11, ReleaseKeepsPairs
<1>14. AtomRequest'
    <2>1. gc[d].cb = "none"
        BY <1>2, <1>3 DEF DriverStates
    <2>2. \A e \in Drivers : gc'[e].cb = gc[e].cb
        BY <1>9, <1>10, <2>1 DEF Alike
    <2> QED
        BY <1>1, <1>8, <1>11, <2>2, SameRequest
<1> QED
    BY <1>8, <1>12, <1>13, <1>14 DEF ContextInv

-----------------------------------------------------------------------------
(* The steps together.                                                     *)

Attaching ==
    \/ \E property \in {"powered", "roaming_allowed"}, value \in BOOLEAN :
            SetSetting(property, value)
    \/ Network \/ AttachAnswers \/ Errors

LEMMA StepsOf ==
    ASSUME Next
    PROVE  \/ Attaching
           \/ \E c \in Contexts :
                \/ Activate(c) \/ ActivateNoDriver(c) \/ Deactivate(c)
                \/ AddContext(c) \/ gprs_remove_context(c)
           \/ gprs_deactivate_all
           \/ \E d \in Drivers :
                \/ Connected(d) \/ ActivateFailed(d) \/ Deactivated(d) \/ DeactivateFailed(d)
                \/ ofono_gprs_context_deactivated(d)
BY DEF Next, Requests, Attaching, ContextAnswers

LEMMA ContextInvKeeps ==
    ASSUME Conditions, IInv, ContextInv, [Next]_vars
    PROVE  ContextInv'
<1>1. CASE UNCHANGED vars
    BY <1>1 DEF vars, ContextInv, ContextTypes, Pairs, OwnCids, AtomRequest, Serving, Served,
       InUse, Taken
<1>2. CASE Attaching
    <2>1. Kept /\ ContextTypes'
        BY <1>2, AttachingKeeps DEF Attaching, ContextInv
    <2> QED
        BY <2>1, KeptKeeps
<1>3. ASSUME NEW c \in Contexts,
             \/ Activate(c) \/ ActivateNoDriver(c) \/ Deactivate(c)
             \/ AddContext(c) \/ gprs_remove_context(c)
      PROVE  ContextInv'
    BY <1>3, ActivateKeeps, ActivateNoDriverKeeps, DeactivateKeeps, AddContextKeeps,
       RemoveContextKeeps
<1>4. CASE gprs_deactivate_all
    BY <1>4, DeactivateAllKeeps
<1>5. ASSUME NEW d \in Drivers,
             \/ Connected(d) \/ ActivateFailed(d) \/ Deactivated(d) \/ DeactivateFailed(d)
             \/ ofono_gprs_context_deactivated(d)
      PROVE  ContextInv'
    BY <1>5, ConnectedKeeps, ActivateFailedKeeps, DeactivatedKeeps, FailureKeeps, SessionEnds
<1> QED
    BY <1>1, <1>2, <1>3, <1>4, <1>5, StepsOf

\* What holds at any time of contexts, drivers, cids and the request of the
\* atom (assign_context, release_context, deactivate_primary, their callers and
\* the callbacks), with enough cids.
THEOREM ContextInvariance ==
    ASSUME Conditions
    PROVE  Spec => [](IInv /\ ContextInv)
<1>1. Init => IInv /\ ContextInv
    BY InitWhole, InitContexts
<1>2. IInv /\ ContextInv /\ [Next]_vars => (IInv /\ ContextInv)'
    BY NextKeeps, ContextInvKeeps
<1> QED
    BY <1>1, <1>2, PTL DEF Spec

LEMMA InvariantAgrees ==
    ASSUME IInv, ContextInv
    PROVE  ContextsAgree
<1>1. TypeOK
    BY Known DEF IInv, Whole, Half, Typed, a0, Calls, Deciders, Atoms, Flags, TypeOK,
       ContextInv, ContextTypes, ContextType, DriverType
<1>2. OwnDriverAndCid
    <2>1. ASSUME NEW c \in Contexts, context[c].gc # NoDriver
          PROVE  /\ gc[context[c].gc].inuse /\ gc[context[c].gc].ctx = c
                 /\ context[c].cid = gc[context[c].gc].cid
                 /\ context[c].cid \in gprs.cids
                 /\ \A k \in Contexts \ {c} : context[k].gc # NoDriver
                                                => context[k].cid # context[c].cid
        <3> DEFINE d == context[c].gc
        <3>1. /\ d \in InUse /\ gc[d].ctx = c /\ context[c].cid = gc[d].cid
            BY <2>1, OnDriver DEF InUse, Serving
        <3>2. context[c].cid \in gprs.cids
            BY <3>1 DEF ContextInv, OwnCids, Taken
        <3>3. ASSUME NEW k \in Contexts \ {c}, context[k].gc # NoDriver,
                     context[k].cid = context[c].cid
              PROVE  FALSE
            <4>1. /\ context[k].gc \in InUse /\ gc[context[k].gc].ctx = k
                  /\ context[k].cid = gc[context[k].gc].cid
                BY <3>3, OnDriver DEF InUse, Serving
            <4>2. context[k].gc = d
                BY <3>1, <3>3, <4>1 DEF ContextInv, OwnCids
            <4> QED
                BY <3>1, <4>1, <4>2
        <3> QED
            BY <3>1, <3>2, <3>3 DEF InUse
    <2>2. ASSUME NEW d \in Drivers, gc[d].inuse PROVE context[gc[d].ctx].gc = d
        BY <2>2 DEF ContextInv, Pairs, Serving
    <2> QED
        BY <2>1, <2>2 DEF OwnDriverAndCid
<1>3. OneCallbackPerRequest
    <2>1. ASSUME NEW d \in Drivers, gc[d].cb # "none"
          PROVE  /\ context[gc[d].ctx].known
                 /\ gc[d].cb \in {"activate", "deactivate"}
                        => context[gc[d].ctx].pending = gc[d].cb
                 /\ gc[d].cb \in {"remove", "all"} => gprs.pending = gc[d].cb
        <3>1. gc[d].state # "idle"
            BY <2>1 DEF ContextInv, Pairs, DriverStates
        <3>2. Serving(gc[d], d, context) /\ gc[d].inuse
            BY <3>1, DriverInUse
        <3> QED
            BY <3>2 DEF Serving, Own, ContextInv, AtomRequest, ForAtom
    <2>2. ASSUME NEW c \in Contexts, context[c].pending # "none"
          PROVE  \E d \in Drivers : gc[d].ctx = c /\ gc[d].cb = context[c].pending
        <3>1. context[c].gc # NoDriver
            BY <2>2 DEF ContextInv, Pairs, Served
        <3>2. /\ context[c].gc \in Drivers /\ gc[context[c].gc].ctx = c
              /\ context[c].pending = Own(gc[context[c].gc])
            BY <3>1, OnDriver DEF Serving
        <3> QED
            BY <2>2, <3>2 DEF Own
    <2>3. gprs.pending # "none" => \E d \in Drivers : gc[d].cb = gprs.pending
        BY DEF ContextInv, AtomRequest
    <2> QED
        BY <2>1, <2>2, <2>3 DEF OneCallbackPerRequest
<1> QED
    BY <1>1, <1>2, <1>3 DEF ContextsAgree

\* Contexts, drivers and cids go together, and every request has the one
\* callback that answers it, whatever clients ask and drivers answer, in any
\* order (l.852, 892, 1871, 1973).
THEOREM ContextsRight ==
    ASSUME Conditions
    PROVE  Spec => []ContextsAgree
<1>1. IInv /\ ContextInv => ContextsAgree
    BY InvariantAgrees
<1> QED
    BY <1>1, ContextInvariance, PTL

\* The request of the atom ends when its driver answers, and DeactivateAll only
\* when no context is active.
LEMMA AllMeansAll ==
    ASSUME IInv, ContextInv, [Next]_vars
    PROVE  gprs.pending = "all" /\ gprs'.pending = "none" /\ (\A d \in Drivers : ~DeactivateFailed(d))
             => ~have_active_contexts(context')
<1> SUFFICES ASSUME gprs.pending = "all", gprs'.pending = "none",
                    \A d \in Drivers : ~DeactivateFailed(d)
             PROVE  ~have_active_contexts(context')
    OBVIOUS
<1>1. gprs' # gprs /\ ~UNCHANGED vars
    BY DEF vars
<1>2. ~Attaching
    <2> SUFFICES ASSUME Attaching PROVE FALSE
        OBVIOUS
    <2>1. Kept
        BY AttachingKeeps DEF Attaching, ContextInv
    <2> QED
        BY <2>1 DEF Kept
<1>3. ~gprs_deactivate_all
    BY DEF gprs_deactivate_all
<1>4. \A c \in Contexts : ~Activate(c) /\ ~ActivateNoDriver(c) /\ ~Deactivate(c)
    BY DEF Activate, ActivateNoDriver, Deactivate
<1>5. \A c \in Contexts : ~AddContext(c) /\ ~gprs_remove_context(c)
    BY <1>1 DEF AddContext, gprs_remove_context
<1>6. \A d \in Drivers : ~Connected(d) /\ ~ofono_gprs_context_deactivated(d)
    BY <1>1, SessionEnds DEF Connected
<1>7. \A d \in Drivers : ~ActivateFailed(d)
    <2> SUFFICES ASSUME NEW d \in Drivers, ActivateFailed(d) PROVE FALSE
        OBVIOUS
    <2>1. gprs' = CidFreed(gc[d].ctx) /\ gc[d].ctx \in Contexts
        BY DriverInUse DEF ActivateFailed
    <2> QED
        BY <2>1, CidFreedIs
<1>8. PICK d \in Drivers : Deactivated(d)
    BY <1>1, <1>2, <1>3, <1>4, <1>5, <1>6, <1>7, StepsOf
<1> DEFINE c == gc[d].ctx
<1>9. gc[d].state = "disabling" /\ c \in Contexts /\ CidFreed(c).pending = "all"
    BY <1>8, DriverInUse, CidFreedIs DEF Deactivated
<1>10. gc[d].cb # "remove"
    BY <1>9 DEF ContextInv, AtomRequest, ForAtom
<1>11. context' = Released(c) /\ (have_active_contexts(Released(c)) => gprs' = CidFreed(c))
    <2>1. gc[d].cb # "deactivate"
        BY <1>8, <1>9 DEF Deactivated
    <2> QED
        BY <1>8, <1>10, <2>1 DEF Deactivated, gprs_deactivate_next
<1> QED
    BY <1>9, <1>11

\* DeactivateAll replies when every context is down, though they go down one
\* after another and contexts change in between (gprs_deactivate_next).
THEOREM DeactivateAllRight ==
    ASSUME Conditions
    PROVE  Spec => DeactivateAllMeansAll
<1>1. IInv /\ ContextInv /\ [Next]_vars
        => [gprs.pending = "all" /\ gprs'.pending = "none" /\ (\A d \in Drivers : ~DeactivateFailed(d))
              => ~have_active_contexts(context')]_vars
    BY AllMeansAll
<1> QED
    BY <1>1, ContextInvariance, PTL DEF Spec, DeactivateAllMeansAll
=============================================================================
