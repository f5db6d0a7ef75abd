-------------------------------- MODULE Gprs --------------------------------
(***************************************************************************)
(* ofono-wifi/src/gprs.c: attaching to the packet domain as the settings   *)
(* and the network registration allow it, and the primary contexts with    *)
(* the drivers they are activated on (as drivers/atmodem/gprs-context.c    *)
(* answers; Ppp is the detailed model of one call).  Every D-Bus method,   *)
(* driver answer and notification is one action.                           *)
(***************************************************************************)
EXTENDS Integers, Sequences, FiniteSetsExt

CONSTANTS
    Contexts,           \* the ids a context can have (a set of naturals)
    Drivers,            \* the context drivers, in the order they were added
    AnyType,            \* those of them for any type of context
    Internet,           \* the contexts of the type the others are for
    MaxCid,             \* ofono_gprs_set_cid_range(gprs, 1, MaxCid)
    MaxLeaks,           \* bound: cids lost by activations that found no driver
    MaxEvents,          \* bound: changes of settings and networks, errors of
                        \* the attach driver
    MaxAsked,           \* bound: requests the attach driver has not answered
    DetachShutdown,     \* do the context drivers have detach_shutdown?
    RemovesActivating   \* do clients remove a context while it is activated?

ASSUME GprsAssumption ==
    /\ Contexts \subseteq Nat \ {0} /\ Drivers \subseteq Nat \ {0}
    /\ AnyType \subseteq Drivers /\ Internet \subseteq Contexts
    /\ MaxCid \in Nat \ {0} /\ MaxLeaks \in Nat /\ MaxAsked \in Nat /\ MaxEvents \in Nat
    /\ DetachShutdown \in BOOLEAN /\ RemovesActivating \in BOOLEAN

NoDriver == 0
Statuses == {"searching", "registered", "roaming"}
Registered == {"registered", "roaming"}

VARIABLES
    gprs,       \* struct ofono_gprs: powered, roaming_allowed, netreg (its
                \*   status, or "absent"), status, driver_attached, attached,
                \*   flags, pending (RemoveContext, DeactivateAll), cids in use
    asked,      \* what the attach driver has not answered: "attach", "detach",
                \*   "status", in order
    decided,    \* history: what decided driver_attached last: "update" (the
                \*   wish of netreg_update), "network" or "failure"
    network,    \* is the modem attached to the packet domain?
    events,     \* how many of those bounded by MaxEvents there were
    context,    \* struct pri_context: known, active, pending, gc, cid
    gc          \* struct ofono_gprs_context and its driver: inuse, state, cb
                \*   and the context it is for, cid, shut (detach_shutdown)

vars == <<gprs, asked, decided, network, events, context, gc>>

NewContext == [known |-> TRUE, active |-> FALSE, pending |-> "none", gc |-> NoDriver, cid |-> 0]
IdleDriver == [inuse |-> FALSE, state |-> "idle", cb |-> "none", ctx |-> 0, cid |-> 0,
               shut |-> FALSE]

\* Settings as loaded, the modem not yet registered anywhere.
Init ==
    /\ \E powered, roaming_allowed \in BOOLEAN :
          gprs = [powered |-> powered, roaming_allowed |-> roaming_allowed,
                  netreg |-> "absent", status |-> "searching",
                  driver_attached |-> FALSE, attached |-> FALSE, flags |-> {},
                  pending |-> "none", cids |-> {}]
    /\ asked = <<>> /\ decided = "update" /\ network = FALSE /\ events = 0
    /\ context = [c \in Contexts |-> NewContext]
    /\ gc = [d \in Drivers |-> IdleDriver]

-----------------------------------------------------------------------------
(* Attaching.  a is [gprs, asked, decided, gc]: what these functions change.*)

a0 == [gprs |-> gprs, asked |-> asked, decided |-> decided, gc |-> gc]

Becomes(a) == gprs' = a.gprs /\ asked' = a.asked /\ decided' = a.decided /\ gc' = a.gc

Set(a, flag)   == [a EXCEPT !.gprs.flags = @ \cup {flag}]
Clear(a, flag) == [a EXCEPT !.gprs.flags = @ \ {flag}]
Has(a, flag)   == flag \in a.gprs.flags

have_active_contexts(cs) == \E c \in Contexts : cs[c].active

\* release_active_contexts: a context with a request pending is left alone.
release_active_contexts(a, cs) ==
    LET released == {cs[c].gc : c \in {k \in Contexts : cs[k].active /\ cs[k].pending = "none"}}
    IN  IF DetachShutdown
        THEN [a EXCEPT !.gc = [d \in Drivers |-> IF d \in released THEN [@[d] EXCEPT !.shut = TRUE]
                                                 ELSE @[d]]]
        ELSE a

gprs_attached_updateDriverOnly(a, cs) ==
    IF a.gprs.driver_attached = a.gprs.attached THEN a
    ELSE [a EXCEPT !.gprs.attached = a.gprs.driver_attached]

gprs_attached_updateAnyway(a, cs) ==
    LET attached == a.gprs.driver_attached /\ a.gprs.status \in Registered
    IN  IF attached = a.gprs.attached \/ (attached /\ have_active_contexts(cs)) THEN a
        ELSE [a EXCEPT !.gprs.attached = attached]

gprs_attached_update(a, cs) ==
    LET attached == a.gprs.driver_attached /\ a.gprs.status \in Registered
    IN  IF attached = a.gprs.attached THEN a
        ELSE IF ~attached
        THEN [release_active_contexts(a, cs) EXCEPT !.gprs.attached = FALSE]
        ELSE IF have_active_contexts(cs) THEN Set(a, "ATTACHED_UPDATE")
        ELSE [a EXCEPT !.gprs.attached = TRUE]

Wish(g) ==
    /\ g.netreg = "registered" \/ (g.roaming_allowed /\ g.netreg = "roaming")
    /\ g.powered

\* Both callers of set_attached: the request goes to the driver.
set_attached(a, what) == Set([a EXCEPT !.asked = Append(@, what)], "ATTACHING")

gprs_netreg_updateForgets(a) ==
    IF a.gprs.driver_attached = Wish(a.gprs) THEN [a EXCEPT !.decided = "update"]
    ELSE IF Has(a, "ATTACHING") THEN a
    ELSE [set_attached(a, IF Wish(a.gprs) THEN "attach" ELSE "detach") EXCEPT
            !.gprs.driver_attached = Wish(a.gprs), !.decided = "update"]

gprs_netreg_update(a) ==
    IF a.gprs.driver_attached = Wish(a.gprs) THEN [a EXCEPT !.decided = "update"]
    ELSE IF Has(a, "ATTACHING") THEN Set(a, "RECHECK")
    ELSE [set_attached(a, IF Wish(a.gprs) THEN "attach" ELSE "detach") EXCEPT
            !.gprs.driver_attached = Wish(a.gprs), !.decided = "update"]

ofono_gprs_status_notifyUnasked(a, status, cs) ==
    LET b == [a EXCEPT !.gprs.status = status]
    IN  IF status \notin Registered THEN gprs_attached_update(b, cs)
        ELSE IF Has(b, "ATTACHING") THEN b
        ELSE gprs_attached_update([b EXCEPT !.gprs.driver_attached = TRUE,
                                            !.decided = "network"], cs)

\* The packet domain's registration, as reported unasked or when asked for.
ofono_gprs_status_notify(a, status, cs) ==
    LET b == [a EXCEPT !.gprs.status = status]
        refused == ~b.gprs.powered \/ (~b.gprs.roaming_allowed /\ status = "roaming")
    IN  IF status \notin Registered THEN gprs_attached_update(b, cs)
        ELSE IF Has(b, "ATTACHING") THEN b
        ELSE IF refused THEN set_attached(b, "detach")
        ELSE gprs_attached_update([b EXCEPT !.gprs.driver_attached = TRUE,
                                            !.decided = "network"], cs)

-----------------------------------------------------------------------------
Event == events < MaxEvents /\ events' = events + 1

(* The settings (gprs_set_property) and the circuit registration.          *)

SetSetting(property, value) ==
    /\ Event
    /\ gprs.pending = "none"
    /\ gprs[property] # value
    /\ Becomes(gprs_netreg_update([a0 EXCEPT !.gprs[property] = value]))
    /\ UNCHANGED <<context, network>>

\* netreg_status_changed, and netreg_watch when the registration atom appears.
NetregStatus(status) ==
    /\ Event
    /\ gprs.netreg # status
    /\ Becomes(gprs_netreg_update([a0 EXCEPT !.gprs.netreg = status]))
    /\ UNCHANGED <<context, network>>

gprs_netreg_removed ==
    /\ Event
    /\ gprs.netreg # "absent"
    /\ Len(asked) < MaxAsked
    /\ LET gone == [a0 EXCEPT !.gprs.netreg = "absent", !.gprs.driver_attached = FALSE,
                              !.decided = "update",
                              !.gprs.flags = @ \ {"RECHECK", "ATTACHING"}]
       IN  Becomes(gprs_attached_update(gone, context))
    /\ UNCHANGED <<context, network>>

(* What the attach driver reports: unasked, and as answers.                *)

StatusNotify(status) ==
    /\ Event
    /\ network' = (status \in Registered)
    /\ Becomes(ofono_gprs_status_notify(a0, status, context))
    /\ UNCHANGED context

ofono_gprs_detached_notify ==
    /\ Event
    /\ network' = FALSE
    /\ Becomes(gprs_attached_update([a0 EXCEPT !.gprs.driver_attached = FALSE,
                                               !.decided = "network"], context))
    /\ UNCHANGED context

\* Every driver of the tree has attached_status (l.1550 is for one that has not).
gprs_attach_callback(ok) ==
    /\ IF ok THEN UNCHANGED events ELSE Event
    /\ asked # <<>> /\ Head(asked) # "status"
    /\ asked' = Append(Tail(asked), "status")
    /\ \/ ok /\ network' = (Head(asked) = "attach") /\ UNCHANGED <<gprs, decided>>
       \/ /\ ~ok /\ decided' = "failure"
          /\ gprs' = [gprs EXCEPT !.driver_attached = ~@]
          /\ UNCHANGED network
    /\ UNCHANGED <<context, gc>>

\* What the answer of attached_status does, and the second look if one is due.
AfterStatus(a, cs) ==
    IF Has(a, "RECHECK") THEN gprs_netreg_update(Clear(a, "RECHECK")) ELSE a

AnsweredStillBusy == [a0 EXCEPT !.asked = Tail(asked)]

Answered == Clear([a0 EXCEPT !.asked = Tail(asked)], "ATTACHING")

registration_status_cb(ok, status) ==
    /\ IF ok THEN UNCHANGED events ELSE Event
    /\ asked # <<>> /\ Head(asked) = "status"
    /\ ok => (status \in Registered) = network
    /\ LET b == IF ok THEN ofono_gprs_status_notify(Answered, status, context)
                ELSE gprs_attached_update([Answered EXCEPT !.decided = "failure"], context)
       IN  Becomes(AfterStatus(b, context))
    /\ UNCHANGED <<context, network>>

-----------------------------------------------------------------------------
(* Primary contexts.                                                       *)

FreeCids == (1 .. MaxCid) \ gprs.cids

\* gprs_cid_alloc: idmap_alloc returns one more than the last when none is free.
gprs_cid_alloc == IF FreeCids = {} THEN MaxCid + 1 ELSE Min(FreeCids)

FreeDriversInUse(c) == {d \in Drivers : d \in AnyType \/ c \in Internet}

FreeDrivers(c) == {d \in Drivers : ~gc[d].inuse /\ (d \in AnyType \/ c \in Internet)}

\* Cids taken by assign_context for no driver: nothing gives them back.
Leaked == gprs.cids \ {context[c].cid : c \in {k \in Contexts : context[k].gc # NoDriver}}

\* SetProperty(Active, TRUE): assign_context, then the driver is asked.
Activate(c) ==
    LET d == Min(FreeDrivers(c))
    IN  /\ context[c].known
        /\ gprs.pending = "none" /\ context[c].pending = "none"
        /\ ~context[c].active
        /\ gprs.attached /\ "ATTACHING" \notin gprs.flags
        /\ FreeDrivers(c) # {}
        /\ gprs' = [gprs EXCEPT !.cids = @ \cup ({gprs_cid_alloc} \cap 1 .. MaxCid)]
        /\ context' = [context EXCEPT ![c].cid = gprs_cid_alloc, ![c].gc = d,
                                      ![c].pending = "activate"]
        /\ gc' = [gc EXCEPT ![d] = [inuse |-> TRUE, state |-> "enabling", cb |-> "activate",
                                    ctx |-> c, cid |-> gprs_cid_alloc, shut |-> FALSE]]
        /\ UNCHANGED <<asked, decided, network, events>>

\* The same without a driver for it: NotImplemented, and a cid is lost.
ActivateNoDriver(c) ==
    /\ context[c].known
    /\ gprs.pending = "none" /\ context[c].pending = "none"
    /\ ~context[c].active
    /\ gprs.attached /\ "ATTACHING" \notin gprs.flags
    /\ FreeDrivers(c) = {}
    /\ Cardinality(Leaked) < MaxLeaks
    /\ gprs' = [gprs EXCEPT !.cids = @ \cup ({gprs_cid_alloc} \cap 1 .. MaxCid)]
    /\ context' = [context EXCEPT ![c].cid = gprs_cid_alloc]
    /\ UNCHANGED <<asked, decided, network, events, gc>>

\* deactivate_primary for request cb; the callback's data is the context.
Disabling(c, cb) == [gc EXCEPT ![context[c].gc].state = "disabling", ![context[c].gc].cb = cb]

\* SetProperty(Active, FALSE)
Deactivate(c) ==
    /\ context[c].active
    /\ gprs.pending = "none" /\ context[c].pending = "none"
    /\ "ATTACHING" \notin gprs.flags
    /\ context' = [context EXCEPT ![c].pending = "deactivate"]
    /\ gc' = Disabling(c, "deactivate")
    /\ UNCHANGED <<gprs, asked, decided, network, events>>

AddContext(c) ==
    /\ ~context[c].known
    /\ context' = [context EXCEPT ![c] = NewContext]
    /\ UNCHANGED <<gprs, asked, decided, network, events, gc>>

Forgotten == [NewContext EXCEPT !.known = FALSE]

gprs_remove_contextUnchecked(c) ==
    /\ context[c].known
    /\ gprs.pending = "none"
    /\ \/ /\ context[c].active
          /\ gprs' = [gprs EXCEPT !.pending = "remove"]
          /\ gc' = Disabling(c, "remove")
          /\ UNCHANGED context
       \/ /\ ~context[c].active
          /\ RemovesActivating \/ context[c].pending = "none"
          /\ context' = [context EXCEPT ![c] = Forgotten]
          /\ UNCHANGED <<gprs, gc>>
    /\ UNCHANGED <<asked, decided, network, events>>

\* RemoveContext: an active context is deactivated first; one that is not is
\* forgotten at once, whatever was asked of its driver.
gprs_remove_context(c) ==
    /\ context[c].known
    /\ gprs.pending = "none"
    /\ \/ /\ context[c].active /\ context[c].pending = "none"
          /\ gprs' = [gprs EXCEPT !.pending = "remove"]
          /\ gc' = Disabling(c, "remove")
          /\ UNCHANGED context
       \/ /\ ~context[c].active
          /\ RemovesActivating \/ context[c].pending = "none"
          /\ context' = [context EXCEPT ![c] = Forgotten]
          /\ UNCHANGED <<gprs, gc>>
    /\ UNCHANGED <<asked, decided, network, events>>

FirstActive(cs) == Min({c \in Contexts : cs[c].active})

gprs_deactivate_all ==
    /\ gprs.pending = "none"
    /\ \A c \in Contexts : context[c].pending = "none"
    /\ have_active_contexts(context)
    /\ gprs' = [gprs EXCEPT !.pending = "all"]
    /\ gc' = Disabling(FirstActive(context), "all")
    /\ UNCHANGED <<asked, decided, network, events, context>>

(* What the context drivers answer and report.                             *)

\* pri_activate_callback
Connected(d) ==
    /\ gc[d].state = "enabling"
    /\ gc' = [gc EXCEPT ![d].state = "active", ![d].cb = "none"]
    /\ context' = [context EXCEPT ![gc[d].ctx].active = TRUE, ![gc[d].ctx].pending = "none"]
    /\ UNCHANGED <<gprs, asked, decided, network, events>>

\* release_context: the cid and the driver are free again.
CidFreed(c) == [gprs EXCEPT !.cids = @ \ {context[c].cid}]
Released(c) == [context EXCEPT ![c] = NewContext]
Idle(d) == [gc EXCEPT ![d] = IdleDriver]

\* pri_activate_callback with an error
ActivateFailed(d) ==
    /\ gc[d].state = "enabling"
    /\ gprs' = CidFreed(gc[d].ctx)
    /\ context' = Released(gc[d].ctx)
    /\ gc' = Idle(d)
    /\ UNCHANGED <<asked, decided, network, events>>

gprs_deactivate_nextNone(cs, ds, g) == [gprs |-> [g EXCEPT !.pending = "none"], gc |-> ds]

\* gprs_deactivate_next: the next active context, or the reply.
gprs_deactivate_next(cs, ds, g) ==
    IF have_active_contexts(cs)
    THEN [gprs |-> g,
          gc |-> [ds EXCEPT ![cs[FirstActive(cs)].gc].state = "disabling",
                            ![cs[FirstActive(cs)].gc].cb = "all"]]
    ELSE [gprs |-> [g EXCEPT !.pending = "none"], gc |-> ds]

\* The driver is done: pri_deactivate_callback, gprs_deactivate_for_remove or
\* gprs_deactivate_for_all.
Deactivated(d) ==
    LET c == gc[d].ctx
        after == gprs_deactivate_next(Released(c), Idle(d), CidFreed(c))
    IN  /\ gc[d].state = "disabling"
        /\ \/ /\ gc[d].cb = "deactivate"
              /\ context' = Released(c) /\ gc' = Idle(d) /\ gprs' = CidFreed(c)
           \/ /\ gc[d].cb = "remove"
              /\ context' = [context EXCEPT ![c] = Forgotten]
              /\ gc' = Idle(d)
              /\ gprs' = [CidFreed(c) EXCEPT !.pending = "none"]
           \/ /\ gc[d].cb = "all"
              /\ context' = Released(c) /\ gc' = after.gc /\ gprs' = after.gprs
        /\ UNCHANGED <<asked, decided, network, events>>

DeactivateFailedKeeps(d) ==
    LET c == gc[d].ctx
    IN  /\ gc[d].state = "disabling"
        /\ gc' = [gc EXCEPT ![d].state = "active", ![d].cb = "none"]
        /\ context' = [context EXCEPT ![c].pending = "none"]
        /\ UNCHANGED <<gprs, asked, decided, network, events>>

\* The same three with an error: the context stays.
DeactivateFailed(d) ==
    /\ gc[d].state = "disabling"
    /\ gc' = [gc EXCEPT ![d].state = "active", ![d].cb = "none"]
    /\ \/ /\ gc[d].cb = "deactivate"
          /\ context' = [context EXCEPT ![gc[d].ctx].pending = "none"]
          /\ UNCHANGED gprs
       \/ /\ gc[d].cb # "deactivate"
          /\ gprs' = [gprs EXCEPT !.pending = "none"]
          /\ UNCHANGED context
    /\ UNCHANGED <<asked, decided, network, events>>

\* ofono_gprs_context_deactivated: the session ended unasked, or was shut down
\* when the modem detached.
ofono_gprs_context_deactivated(d) ==
    LET c == gc[d].ctx
        a == [a0 EXCEPT !.gprs = CidFreed(c), !.gc = Idle(d)]
    IN  /\ gc[d].state = "active"
        /\ context' = Released(c)
        /\ Becomes(IF Has(a, "ATTACHED_UPDATE")
                   THEN gprs_attached_update(Clear(a, "ATTACHED_UPDATE"), Released(c))
                   ELSE a)
        /\ UNCHANGED <<network, events>>

-----------------------------------------------------------------------------
Requests ==
    \/ \E property \in {"powered", "roaming_allowed"}, value \in BOOLEAN :
            SetSetting(property, value)
    \/ \E c \in Contexts :
            \/ Activate(c)
            \/ ActivateNoDriver(c)
            \/ Deactivate(c)
            \/ AddContext(c)
            \/ gprs_remove_context(c)
    \/ gprs_deactivate_all

Network ==
    \/ \E status \in Statuses : NetregStatus(status) \/ StatusNotify(status)
    \/ gprs_netreg_removed
    \/ ofono_gprs_detached_notify

AttachAnswers ==
    \/ gprs_attach_callback(TRUE)
    \/ \E status \in Statuses : registration_status_cb(TRUE, status)

Errors ==
    \/ gprs_attach_callback(FALSE)
    \/ registration_status_cb(FALSE, "searching")

ContextAnswers(d) ==
    Connected(d) \/ ActivateFailed(d) \/ Deactivated(d) \/ DeactivateFailed(d)

Next ==
    \/ Requests
    \/ Network
    \/ AttachAnswers
    \/ Errors
    \/ \E d \in Drivers : ContextAnswers(d) \/ ofono_gprs_context_deactivated(d)

\* The drivers answer, and a session that was shut down ends.
Fairness ==
    /\ WF_vars(AttachAnswers)
    /\ \A d \in Drivers :
          /\ WF_vars(ContextAnswers(d))
          /\ WF_vars(gc[d].shut /\ ofono_gprs_context_deactivated(d))

Spec == Init /\ [][Next]_vars /\ Fairness

-----------------------------------------------------------------------------
TypeOK ==
    /\ gprs \in [powered : BOOLEAN, roaming_allowed : BOOLEAN,
                 netreg : Statuses \cup {"absent"}, status : Statuses,
                 driver_attached : BOOLEAN, attached : BOOLEAN,
                 flags : SUBSET {"ATTACHING", "RECHECK", "ATTACHED_UPDATE"},
                 pending : {"none", "remove", "all"}, cids : SUBSET (1 .. MaxCid)]
    /\ asked \in Seq({"attach", "detach", "status"})
    /\ decided \in {"update", "network", "failure"} /\ network \in BOOLEAN
    /\ events \in 0 .. MaxEvents
    /\ context \in [Contexts -> [known : BOOLEAN, active : BOOLEAN,
                                 pending : {"none", "activate", "deactivate"},
                                 gc : Drivers \cup {NoDriver}, cid : 0 .. MaxCid]]
    /\ gc \in [Drivers -> [inuse : BOOLEAN, state : {"idle", "enabling", "active", "disabling"},
                           cb : {"none", "activate", "deactivate", "remove", "all"},
                           ctx : Contexts \cup {0}, cid : 0 .. MaxCid, shut : BOOLEAN]]

-----------------------------------------------------------------------------
(* Attaching.                                                              *)

ATTACHING == "ATTACHING" \in gprs.flags

\* What the settings and the registration ask for is what the driver was last
\* asked for: a change that comes while it works is not forgotten, unless it
\* failed or the network decided otherwise (l.1575-1597, 1533-1536).
WishFollowed == ~ATTACHING /\ decided = "update" => gprs.driver_attached = Wish(gprs)

\* Once the driver has answered, clients are told Attached only if the driver
\* is attached and the packet domain serves it (l.1489-1491).
AttachedIsTrue ==
    asked = <<>> /\ gprs.attached => gprs.driver_attached /\ gprs.status \in Registered

\* ... and if it is, they are told, or will be when the contexts of the last
\* attachment are released (l.1496-1508).
AttachedIsTold ==
    asked = <<>> /\ gprs.driver_attached /\ gprs.status \in Registered
        => gprs.attached \/ "ATTACHED_UPDATE" \in gprs.flags

\* doc/connman-api.txt:124-134: switched off, or roaming where it is not
\* allowed, the modem does not stay attached, unless the driver failed.  (What
\* counts as roaming there is the circuit registration, l.1579: packet roaming
\* while that is at home is seen only when it is reported.)
OffMeansDetached ==
    asked = <<>> /\ gprs.attached /\ decided # "failure"
        => gprs.powered /\ (gprs.roaming_allowed \/ "roaming" \notin {gprs.status} \cap {gprs.netreg})

\* Settings, registration, driver and Attached go together at rest.
AttachmentAgrees == WishFollowed /\ AttachedIsTrue /\ AttachedIsTold /\ OffMeansDetached

-----------------------------------------------------------------------------
(* Contexts.                                                               *)

\* Contexts on a driver have a driver and a cid of their own, and a driver is
\* in use by the context it works for.
OwnDriverAndCid ==
    /\ \A c \in Contexts : context[c].gc # NoDriver =>
          /\ gc[context[c].gc].inuse /\ gc[context[c].gc].ctx = c
          /\ context[c].cid = gc[context[c].gc].cid
          /\ context[c].cid \in gprs.cids
          /\ \A k \in Contexts \ {c} : context[k].gc # NoDriver => context[k].cid # context[c].cid
    /\ \A d \in Drivers : gc[d].inuse => context[gc[d].ctx].gc = d

\* Requests and the callbacks that answer them (l.852, 892, 1871, 1973, none of
\* which looks) are one to one: the request and the context a callback is given
\* are there, and no request waits for a callback that was overwritten.
OneCallbackPerRequest ==
    /\ \A d \in Drivers : gc[d].cb # "none" =>
          /\ context[gc[d].ctx].known
          /\ gc[d].cb \in {"activate", "deactivate"} => context[gc[d].ctx].pending = gc[d].cb
          /\ gc[d].cb \in {"remove", "all"} => gprs.pending = gc[d].cb
    /\ \A c \in Contexts : context[c].pending # "none" =>
          \E d \in Drivers : gc[d].ctx = c /\ gc[d].cb = context[c].pending
    /\ gprs.pending # "none" => \E d \in Drivers : gc[d].cb = gprs.pending

\* Contexts, drivers, cids and requests go together at any time.
ContextsAgree == TypeOK /\ OwnDriverAndCid /\ OneCallbackPerRequest

\* DeactivateAll "deactivates all active contexts": when it succeeds none is
\* left, though they go down one after another (l.1973-2020).
DeactivateAllMeansAll ==
    [][gprs.pending = "all" /\ gprs'.pending = "none" /\ (\A d \in Drivers : ~DeactivateFailed(d))
        => ~have_active_contexts(context')]_vars

-----------------------------------------------------------------------------
(* Liveness.                                                               *)

\* When nothing changes and nothing fails any more the driver comes to rest:
\* attaching and looking again do not chase each other (l.1533-1536, 2179).
ComesToRest == <>[](asked = <<>> /\ ~ATTACHING)

\* Every request about contexts is answered.
EveryRequestAnswered ==
    /\ \A c \in Contexts : context[c].pending # "none" ~> context[c].pending = "none"
    /\ gprs.pending # "none" ~> gprs.pending = "none"

\* Attaching and every request come to an end.
Settles == ComesToRest /\ EveryRequestAnswered

-----------------------------------------------------------------------------
(* What doc/connman-api.txt and a comment say.                             *)

\* "If this value changes to false, the user can assume that all contexts have
\* been deactivated."
AllDownWhenDetached ==
    [][gprs.attached /\ ~gprs'.attached => ~have_active_contexts(context')]_vars

\* l.2303: Attached is signalled "after active contexts have been released".
SignalledAfterRelease ==
    "ATTACHED_UPDATE" \in gprs.flags => have_active_contexts(context)
=============================================================================
