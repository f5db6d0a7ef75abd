------------------------------ MODULE ModemCore ------------------------------
(***************************************************************************)
(* ofono-wifi/src/modem.c for one modem: the power, online and lockdown    *)
(* state machine between the D-Bus clients (SetProperty), the modem driver *)
(* (enable, disable, set_online and their late answers, hang-ups, resets)  *)
(* and the SIM atom.  ofonod runs one main loop, so every D-Bus method,    *)
(* driver callback, SIM notification and timer is one action.              *)
(***************************************************************************)
EXTENDS Integers, FiniteSets

CONSTANTS
    Clients,            \* D-Bus clients (unique names)
    NoClient,
    HasSim,             \* does the driver's pre_sim create a SIM atom?
    AlwaysOnline,       \* modem_is_always_online
    EnableResults,      \* what driver->enable returns to set_powered ...
    DisableResults,     \* ... driver->disable ...
    ResetResults,       \* ... and driver->enable to ofono_modem_reset
    HangupLosesCommands,\* are set_online commands lost when the device goes
                        \* away or resets?
    MaxEnables,         \* bound: enables the driver has not answered
    MaxEmergency        \* bound: nested emergency calls

Results == {"ok", "inprogress", "fail"}

ASSUME ModemCoreAssumption ==
    /\ NoClient \notin Clients
    /\ HasSim \in BOOLEAN /\ AlwaysOnline \in BOOLEAN /\ HangupLosesCommands \in BOOLEAN
    /\ EnableResults \subseteq Results /\ DisableResults \subseteq Results
    /\ ResetResults \subseteq Results
    /\ MaxEnables \in Nat /\ MaxEmergency \in Nat

\* enum modem_state
POWER_OFF == 0
PRE_SIM   == 1
OFFLINE   == 2
ONLINE    == 3

VARIABLES
    m,              \* the fields the SIM and state functions change:
                    \*   state, atoms (how many times each driver hook's atoms
                    \*   exist), sim, online, get_online, and ops (set_online
                    \*   commands the driver has not answered)
    powered, powered_pending,
    pending,        \* the SetProperty request not answered yet, or NoRequest
    timeout,        \* is the timer of set_powered_timeout running?
    lock_owner,     \* NoClient unless lockdown
    emergency,      \* nested emergency calls
    registered,     \* between ofono_modem_register and modem_unregister
    enables,        \* driver->enable calls that may still complete ...
    disabling,      \* ... and is there a driver->disable that may?
    connected,      \* clients still on the bus
    signalled,      \* last value of Powered and Lockdown told to clients
    reply           \* the reply the last step sent, or NoReply

power == <<powered, powered_pending>>
request == <<pending, timeout>>
driver == <<enables, disabling>>
vars == <<m, power, request, lock_owner, emergency, registered, driver,
          connected, signalled, reply>>

Request(c, prop, value) == [client |-> c, prop |-> prop, value |-> value]
NoRequest == Request(NoClient, "None", FALSE)

\* A reply: to which request, with what result, from which function.
Reply(req, result, by) == [req |-> req, result |-> result, by |-> by]
NoReply == Reply(NoRequest, "none", "none")

Fresh == [state |-> POWER_OFF, atoms |-> [l \in PRE_SIM .. ONLINE |-> 0],
          sim |-> "none", online |-> FALSE, get_online |-> FALSE, ops |-> {}]

Init ==
    /\ m = Fresh
    /\ powered = FALSE /\ powered_pending = FALSE
    /\ pending = NoRequest /\ timeout = FALSE
    /\ lock_owner = NoClient
    /\ emergency = 0
    /\ registered = TRUE
    /\ enables = 0 /\ disabling = FALSE
    /\ connected = Clients
    /\ signalled = [powered |-> FALSE, lockdown |-> FALSE]
    /\ reply = NoReply

lockdown == lock_owner # NoClient

-----------------------------------------------------------------------------
(* State changes, as functions of m.                                       *)

\* set_online with TRUE and with FALSE; modem->get_online set and cleared.
SetOnline(mm)  == [mm EXCEPT !.online = TRUE]
SetOffline(mm) == [mm EXCEPT !.online = FALSE]
Remember(mm)   == [mm EXCEPT !.get_online = TRUE]
Forget(mm)     == [mm EXCEPT !.get_online = FALSE]

modem_change_stateKeepsAtoms(mm, new) ==
    IF mm.state = new THEN mm
    ELSE [mm EXCEPT
            !.state = new,
            !.atoms = [l \in PRE_SIM .. ONLINE |->
                          IF l = new /\ mm.state < new THEN mm.atoms[l] + 1
                          ELSE mm.atoms[l]],
            !.sim = IF new = PRE_SIM /\ mm.state < PRE_SIM /\ HasSim
                    THEN "new" ELSE mm.sim]

\* modem_change_state: flush_atoms removes the atoms above the new state, the
\* driver's hook of the new state adds that state's atoms on the way up.
modem_change_state(mm, new) ==
    IF mm.state = new THEN mm
    ELSE [mm EXCEPT
            !.state = new,
            !.atoms = [l \in PRE_SIM .. ONLINE |->
                          IF l > new THEN 0
                          ELSE IF l = new /\ mm.state < new
                               THEN mm.atoms[l] + 1
                               ELSE mm.atoms[l]],
            !.sim = IF new = POWER_OFF THEN "none"
                    ELSE IF new = PRE_SIM /\ mm.state < PRE_SIM /\ HasSim
                         THEN "new" ELSE mm.sim]

modem_has_sim(mm) == mm.sim # "none"

\* The SIM is ready (or there is none to wait for).
sim_ready(mm) ==
    LET offline == modem_change_state(mm, OFFLINE)
        raised  == IF AlwaysOnline THEN SetOnline(offline) ELSE offline
        done    == IF raised.online THEN modem_change_state(raised, ONLINE)
                   ELSE IF raised.get_online
                        THEN [raised EXCEPT !.ops = @ \cup {"silent"}]
                        ELSE raised
    IN  Forget(done)

sim_state_watch(mm, sim) ==
    CASE sim \in {"absent", "locked_out"} -> modem_change_state(mm, PRE_SIM)
      [] sim = "ready" -> sim_ready(mm)
      [] OTHER -> mm

\* What follows a successful power up or power down, whoever caused it.
PoweredUp(mm) ==
    LET up == modem_change_state(mm, PRE_SIM)
    IN  IF modem_has_sim(up) THEN up ELSE sim_ready(up)

PoweredDownOnline(mm) == modem_change_state(mm, POWER_OFF)

PoweredDown(mm) == modem_change_state(SetOffline(mm), POWER_OFF)

Powering(mm, value) == IF value THEN PoweredUp(mm) ELSE PoweredDown(mm)

\* common_online_cb for a command that succeeded.
CommonOnline(mm) ==
    CASE mm.state = OFFLINE -> modem_change_state(SetOnline(mm), ONLINE)
      [] mm.state = PRE_SIM -> SetOnline(mm)
      [] OTHER -> mm

\* The switch of offline_cb for a command that succeeded.
CommonOffline(mm) ==
    CASE mm.state = ONLINE -> modem_change_state(SetOffline(mm), OFFLINE)
      [] mm.state = PRE_SIM -> SetOffline(mm)
      [] OTHER -> mm

-----------------------------------------------------------------------------
(* set_powered: driver->enable or driver->disable is called.  A driver     *)
(* asked to disable may cancel the commands it has outstanding.            *)

CallEnable(result) ==
    /\ enables < MaxEnables
    /\ enables' = IF result = "inprogress" THEN enables + 1 ELSE enables
    /\ UNCHANGED disabling

CallDisable(result) ==
    /\ disabling' = IF result = "inprogress" THEN TRUE ELSE disabling
    /\ enables' \in {enables, 0}

CallDriver(value, result) ==
    IF value THEN CallEnable(result) ELSE CallDisable(result)

\* The outstanding set_online commands after driver->disable.
MayCancel(mm, value) ==
    IF value THEN {mm} ELSE {mm, [mm EXCEPT !.ops = {}]}

\* ... and after the device went away or reset.
Lost(mm) == IF HangupLosesCommands THEN [mm EXCEPT !.ops = {}] ELSE mm

PreparedLate(value) == m

\* State as set_powered leaves it: the atoms go before the driver is asked.
Prepared(value) == IF value THEN m ELSE modem_change_state(m, POWER_OFF)

DriverResults(value) == IF value THEN EnableResults ELSE DisableResults

-----------------------------------------------------------------------------
(* D-Bus: SetProperty.                                                     *)

\* A request that is answered at once and changes nothing.
Answer(req, result) ==
    /\ reply' = Reply(req, result, "SetProperty")
    /\ UNCHANGED <<m, power, request, lock_owner, emergency, registered, driver,
                   connected, signalled>>

PoweredRefusalNoEmergency(value) ==
    CASE pending # NoRequest -> "InProgress"
      [] powered = value -> "ok"
      [] lockdown -> "AccessDenied"
      [] powered_pending = value -> "Failed"
      [] OTHER -> "none"

\* The reasons not to start a request, in the order the code looks for them.
PoweredRefusal(value) ==
    CASE pending # NoRequest -> "InProgress"
      [] powered = value -> "ok"
      [] emergency > 0 -> "EmergencyActive"
      [] lockdown -> "AccessDenied"
      [] powered_pending = value -> "Failed"
      [] OTHER -> "none"

OnlineRefusalNoBusy(value) ==
    CASE ~powered -> "NotAvailable"
      [] m.online = value -> "ok"
      [] emergency > 0 -> "EmergencyActive"
      [] AlwaysOnline -> "NotImplemented"
      [] OTHER -> "none"

OnlineRefusal(value) ==
    CASE ~powered -> "NotAvailable"
      [] pending # NoRequest -> "InProgress"
      [] m.online = value -> "ok"
      [] emergency > 0 -> "EmergencyActive"
      [] AlwaysOnline -> "NotImplemented"
      [] OTHER -> "none"

LockdownRefusal(c, value) ==
    CASE pending # NoRequest -> "InProgress"
      [] lockdown /\ lock_owner # c -> "AccessDenied"
      [] lockdown = value -> "ok"
      [] value /\ emergency > 0 -> "EmergencyActive"
      [] OTHER -> "none"

WaitUntimed(req) == pending' = req /\ UNCHANGED timeout

\* The request waits for the driver, or for set_powered_timeout.
Wait(req) == pending' = req /\ timeout' = TRUE

SignalPoweredUp(value) == [signalled EXCEPT !.powered = @ \/ value]

\* What clients know after PropertyChanged of Powered.
SignalPowered(value) == [signalled EXCEPT !.powered = value]

SetPowered(c, value) ==
    LET req == Request(c, "Powered", value)
        refusal == PoweredRefusal(value)
    IN
    /\ registered /\ c \in connected
    /\ \/ refusal # "none" /\ Answer(req, refusal)
       \/ /\ refusal = "none"
          /\ \E result \in DriverResults(value), mm \in MayCancel(Prepared(value), value) :
              /\ CallDriver(value, result)
              /\ \/ /\ result = "inprogress"
                    /\ m' = mm
                    /\ powered_pending' = value
                    /\ Wait(req)
                    /\ reply' = NoReply
                    /\ UNCHANGED <<powered, signalled>>
                 \/ /\ result = "fail"
                    /\ m' = mm
                    /\ reply' = Reply(req, "Failed", "SetProperty")
                    /\ UNCHANGED <<power, request, signalled>>
                 \/ /\ result = "ok"
                    /\ m' = Powering(mm, value)
                    /\ powered' = value /\ powered_pending' = value
                    /\ signalled' = SignalPowered(value)
                    /\ reply' = Reply(req, "ok", "SetProperty")
                    /\ UNCHANGED request
          /\ UNCHANGED <<lock_owner, emergency, registered, connected>>

set_property_online(c, value) ==
    LET req == Request(c, "Online", value)
        refusal == OnlineRefusal(value)
    IN
    /\ registered /\ c \in connected
    /\ \/ refusal # "none" /\ Answer(req, refusal)
       \/ /\ refusal = "none"
          /\ pending' = req
          /\ m' = [m EXCEPT !.ops = @ \cup {IF value THEN "online" ELSE "offline"}]
          /\ reply' = NoReply
          /\ UNCHANGED <<power, timeout, lock_owner, emergency, registered, driver,
                         connected, signalled>>

set_property_lockdown(c, value) ==
    LET req == Request(c, "Lockdown", value)
        refusal == LockdownRefusal(c, value)
        done == /\ signalled' = [signalled EXCEPT !.lockdown = value]
                /\ reply' = Reply(req, "ok", "SetProperty")
    IN
    /\ registered /\ c \in connected
    /\ \/ refusal # "none" /\ Answer(req, refusal)
       \/ /\ refusal = "none" /\ (~value \/ ~powered)
          /\ lock_owner' = IF value THEN c ELSE NoClient
          /\ done
          /\ UNCHANGED <<m, power, request, emergency, registered, driver, connected>>
       \/ /\ refusal = "none" /\ value /\ powered
          /\ powered_pending = FALSE        \* -EALREADY
          /\ reply' = Reply(req, "Failed", "SetProperty")
          /\ UNCHANGED <<m, power, request, lock_owner, emergency, registered, driver,
                         connected, signalled>>
       \/ /\ refusal = "none" /\ value /\ powered /\ powered_pending
          /\ \E result \in DisableResults, mm \in MayCancel(Prepared(FALSE), FALSE) :
              /\ CallDisable(result)
              /\ \/ /\ result = "inprogress"
                    /\ m' = mm
                    /\ powered_pending' = FALSE
                    /\ Wait(req)
                    /\ lock_owner' = c
                    /\ reply' = NoReply
                    /\ UNCHANGED <<powered, signalled>>
                 \/ /\ result = "fail"
                    /\ m' = mm
                    /\ reply' = Reply(req, "Failed", "SetProperty")
                    /\ UNCHANGED <<power, request, lock_owner, signalled>>
                 \/ /\ result = "ok"
                    /\ m' = SetOffline(mm)
                    /\ powered' = FALSE /\ powered_pending' = FALSE
                    /\ lock_owner' = c
                    /\ signalled' = [SignalPowered(FALSE) EXCEPT !.lockdown = TRUE]
                    /\ reply' = Reply(req, "ok", "SetProperty")
                    /\ UNCHANGED request
          /\ UNCHANGED <<emergency, registered, connected>>

\* The lock owner leaves the bus: lockdown_disconnect signals Lockdown before
\* lockdown_remove clears it.
Disconnect(c) ==
    /\ c \in connected
    /\ connected' = connected \ {c}
    /\ IF registered /\ lock_owner = c
       THEN /\ signalled' = [signalled EXCEPT !.lockdown = TRUE]
            /\ lock_owner' = NoClient
       ELSE UNCHANGED <<signalled, lock_owner>>
    /\ reply' = NoReply
    /\ UNCHANGED <<m, power, request, emergency, registered, driver>>

set_powered_timeout ==
    /\ timeout
    /\ timeout' = FALSE
    /\ IF powered_pending = FALSE
       THEN /\ m' = SetOffline(m)
            /\ powered' = FALSE
            /\ signalled' = SignalPowered(FALSE)
            /\ UNCHANGED powered_pending
       ELSE /\ powered_pending' = powered
            /\ UNCHANGED <<m, powered, signalled>>
    /\ IF pending # NoRequest
       THEN /\ reply' = Reply(pending, "Timedout", "set_powered_timeout")
            /\ pending' = NoRequest
            /\ lock_owner' = NoClient
       ELSE reply' = NoReply /\ UNCHANGED <<pending, lock_owner>>
    /\ UNCHANGED <<emergency, registered, driver, connected>>

-----------------------------------------------------------------------------
(* The driver's answers and events.                                        *)

\* ofono_modem_set_powered, with the state mm the driver leaves m in.
ofono_modem_set_powered(value, mm) ==
    /\ registered
    /\ timeout' = FALSE
    /\ IF powered_pending # powered /\ pending # NoRequest
       THEN /\ reply' = Reply(pending,
                              IF value = powered_pending THEN "ok" ELSE "Failed",
                              "ofono_modem_set_powered")
            /\ pending' = NoRequest
       ELSE reply' = NoReply /\ UNCHANGED pending
    /\ powered_pending' = value
    /\ powered' = value
    /\ IF powered = value THEN m' = mm /\ UNCHANGED signalled
       ELSE /\ m' = Powering(mm, value)
            /\ signalled' = [SignalPowered(value) EXCEPT !.lockdown = @ \/ lockdown]
    /\ UNCHANGED <<lock_owner, emergency, registered, connected>>

EnableDone(value) ==
    /\ enables > 0
    /\ enables' = enables - 1
    /\ ofono_modem_set_powered(value, m)
    /\ UNCHANGED disabling

DisableDone ==
    /\ disabling
    /\ disabling' = FALSE
    /\ ofono_modem_set_powered(FALSE, m)
    /\ UNCHANGED enables

\* The device goes away (hw_watch_remove, #RSEN: 0, ...).
Hangup ==
    /\ powered \/ powered_pending
    /\ ofono_modem_set_powered(FALSE, Lost(m))
    /\ UNCHANGED driver

\* online_cb: the pending request, if there is one, is answered before the
\* result is looked at.
online_cb(ok) ==
    /\ "online" \in m.ops
    /\ LET mm == [m EXCEPT !.ops = @ \ {"online"}]
       IN  m' = IF ok THEN CommonOnline(mm) ELSE mm
    /\ reply' = IF pending # NoRequest
                THEN Reply(pending, IF ok THEN "ok" ELSE "Failed", "online_cb")
                ELSE NoReply
    /\ pending' = NoRequest
    /\ UNCHANGED <<power, timeout, lock_owner, emergency, registered, driver,
                   connected, signalled>>

\* offline_cb takes it for granted that there is a pending request.
offline_cb(ok) ==
    /\ "offline" \in m.ops
    /\ LET mm == [m EXCEPT !.ops = @ \ {"offline"}]
       IN  m' = IF ok THEN CommonOffline(mm) ELSE mm
    /\ reply' = Reply(pending, IF ok THEN "ok" ELSE "Failed", "offline_cb")
    /\ pending' = NoRequest
    /\ UNCHANGED <<power, timeout, lock_owner, emergency, registered, driver,
                   connected, signalled>>

\* common_online_cb of the silent set_online after a reset.
common_online_cb(ok) ==
    /\ "silent" \in m.ops
    /\ LET mm == [m EXCEPT !.ops = @ \ {"silent"}]
       IN  m' = IF ok THEN CommonOnline(mm) ELSE mm
    /\ reply' = NoReply
    /\ UNCHANGED <<power, request, lock_owner, emergency, registered, driver,
                   connected, signalled>>

\* ofono_modem_reset.  When driver->enable does not answer -EINPROGRESS the
\* modem goes on to PRE_SIM whether it worked or not; nobody is told of
\* Powered in that case.
ofono_modem_reset(result) ==
    LET was  == IF m.state = ONLINE THEN Remember(Lost(m)) ELSE Lost(m)
        down == IF powered THEN PoweredDown(was) ELSE was
    IN
    /\ registered
    /\ powered \/ powered_pending
    /\ enables < MaxEnables
    /\ reply' = IF pending = NoRequest THEN NoReply
                ELSE Reply(pending, "Failed", "ofono_modem_reset")
    /\ pending' = NoRequest /\ timeout' = FALSE
    /\ powered' = (result = "ok")
    /\ powered_pending' = (result # "fail")
    /\ enables' = IF result = "inprogress" THEN enables + 1 ELSE enables
    /\ m' = IF result = "inprogress" THEN down ELSE modem_change_state(down, PRE_SIM)
    /\ signalled' = IF powered
                    THEN [SignalPowered(FALSE) EXCEPT !.lockdown = @ \/ lockdown]
                    ELSE signalled
    /\ UNCHANGED <<lock_owner, emergency, registered, disabling, connected>>

Reset == \E result \in ResetResults : ofono_modem_reset(result)

-----------------------------------------------------------------------------
(* The SIM atom, emergency calls, registration.                            *)

\* Transitions of src/sim.c that the modem is told of.
SimMoves == [new       |-> {"absent", "inserted"},
             absent    |-> {"inserted"},
             inserted  |-> {"absent", "ready", "resetting"},
             ready     |-> {"absent", "locked_out", "resetting"},
             locked_out |-> {"absent", "ready", "resetting"},
             resetting |-> {"absent", "inserted"}]

\* The watch is told after the SIM has changed; a resetting SIM calls
\* __ofono_modem_sim_reset as well.
SimChanges(sim) ==
    /\ registered
    /\ m.sim # "none" /\ sim \in SimMoves[m.sim]
    /\ LET mm == [m EXCEPT !.sim = sim]
       IN  m' = IF sim = "resetting" THEN modem_change_state(mm, PRE_SIM)
                ELSE sim_state_watch(mm, sim)
    /\ reply' = NoReply
    /\ UNCHANGED <<power, request, lock_owner, emergency, registered, driver,
                   connected, signalled>>

\* __ofono_modem_inc_emergency_mode and __ofono_modem_dec_emergency_mode.
EmergencyCall(start) ==
    /\ registered
    /\ emergency' = IF start THEN emergency + 1 ELSE emergency - 1
    /\ emergency' \in 0 .. MaxEmergency
    /\ reply' = NoReply
    /\ UNCHANGED <<m, power, request, lock_owner, registered, driver, connected,
                   signalled>>

\* modem_unregister; the driver's remove() drops what it had outstanding.
modem_unregister ==
    /\ registered
    /\ registered' = FALSE
    /\ \/ /\ powered /\ powered_pending
          /\ m' = [Prepared(FALSE) EXCEPT !.ops = {}]
          /\ \E result \in DisableResults : /\ powered' = (result # "ok")
                                            /\ powered_pending' = (result = "fail")
       \/ /\ ~powered \/ ~powered_pending
          /\ m' = [m EXCEPT !.ops = {}]
          /\ UNCHANGED power
    /\ enables' = 0 /\ disabling' = FALSE
    /\ pending' = NoRequest /\ timeout' = FALSE
    /\ signalled' = IF lockdown THEN [signalled EXCEPT !.lockdown = FALSE] ELSE signalled
    /\ lock_owner' = NoClient
    /\ reply' = NoReply
    /\ UNCHANGED <<emergency, connected>>

-----------------------------------------------------------------------------

ClientStep ==
    \E c \in Clients :
        \/ \E value \in BOOLEAN :
              \/ SetPowered(c, value)
              \/ set_property_online(c, value)
              \/ set_property_lockdown(c, value)
        \/ Disconnect(c)

DriverStep ==
    \/ \E value \in BOOLEAN : EnableDone(value)
    \/ DisableDone
    \/ Hangup
    \/ \E ok \in BOOLEAN : online_cb(ok) \/ offline_cb(ok) \/ common_online_cb(ok)
    \/ Reset

Next ==
    \/ ClientStep
    \/ DriverStep
    \/ set_powered_timeout
    \/ \E sim \in DOMAIN SimMoves : SimChanges(sim)
    \/ \E start \in BOOLEAN : EmergencyCall(start)
    \/ modem_unregister

\* The timer expires, and a driver answers every set_online it is given.
Fairness ==
    /\ WF_vars(set_powered_timeout)
    /\ WF_vars(\E ok \in BOOLEAN : online_cb(ok))
    /\ WF_vars(\E ok \in BOOLEAN : offline_cb(ok))

Spec == Init /\ [][Next]_vars /\ Fairness

-----------------------------------------------------------------------------
(* Properties.                                                             *)

Requests == [client : Clients \cup {NoClient},
             prop : {"Powered", "Online", "Lockdown", "None"}, value : BOOLEAN]

Modems == [state : POWER_OFF .. ONLINE, atoms : [PRE_SIM .. ONLINE -> Nat],
           sim : {"none"} \cup DOMAIN SimMoves, online : BOOLEAN,
           get_online : BOOLEAN, ops : SUBSET {"online", "offline", "silent"}]

\* The variables keep their types; emergency stays within its bounds.
TypeOK ==
    /\ m \in Modems
    /\ powered \in BOOLEAN /\ powered_pending \in BOOLEAN
    /\ pending \in Requests /\ timeout \in BOOLEAN
    /\ lock_owner \in Clients \cup {NoClient}
    /\ emergency \in 0 .. MaxEmergency
    /\ registered \in BOOLEAN
    /\ enables \in 0 .. MaxEnables /\ disabling \in BOOLEAN
    /\ connected \subseteq Clients
    /\ signalled \in [powered : BOOLEAN, lockdown : BOOLEAN]
    /\ reply.req \in Requests

\* The state is backed by power and by the online flag (set_powered, l.865-897;
\* set_online against modem_change_state, l.609-730): past POWER_OFF a modem is
\* powered and nobody is powering it down, in ONLINE it is online, in OFFLINE
\* it is not, and without power it never is.
StateIsBacked ==
    /\ m.state # POWER_OFF => powered /\ powered_pending
    /\ m.state = ONLINE => m.online
    /\ m.state = OFFLINE => ~m.online
    /\ m.online /\ registered => powered

\* However the state went up and down, the driver hooks' atoms are there
\* exactly once for every state reached, and none is left of a state that was
\* left (flush_atoms, l.403-439; modem_change_state, l.490-533).
AtomsFollowState ==
    \A l \in PRE_SIM .. ONLINE : m.atoms[l] = (IF l <= m.state THEN 1 ELSE 0)

\* A request that waits will be answered: Powered and Lockdown have the timer
\* running, Online has its command with the driver.
PendingWillBeAnswered ==
    /\ timeout <=> pending.prop \in {"Powered", "Lockdown"}
    /\ pending.prop = "Online" =>
           (IF pending.value THEN "online" ELSE "offline") \in m.ops

\* online_cb and offline_cb answer the request that started them, and none
\* is taken for another's (offline_cb does not even check there is one).
CallbacksAnswerTheirOwn ==
    /\ reply.by = "online_cb" => reply.req.prop = "Online" /\ reply.req.value
    /\ reply.by = "offline_cb" => reply.req.prop = "Online" /\ ~reply.req.value

\* Clients have always been told the value Powered has.
PoweredIsSignalled == registered => signalled.powered = powered

\* Nothing of a modem that was unregistered is left behind: no atom that
\* points to it, no timer, no lock watch (modem_unregister, l.2049-2114).
UnregisteredIsClean ==
    ~registered => /\ m.state = POWER_OFF /\ \A l \in PRE_SIM .. ONLINE : m.atoms[l] = 0
                   /\ ~timeout /\ ~lockdown

\* While an emergency call is on no request is accepted that changes Powered
\* or Online or takes the lock.
NothingStartsInEmergency ==
    [][emergency > 0 => /\ pending' \in {pending, NoRequest}
                        /\ lock_owner' \in {lock_owner, NoClient}
                        /\ reply'.by = "SetProperty" => UNCHANGED <<m, power>>]_vars

\* The command an Online request waits for went away with the device.
CommandLost ==
    /\ pending.prop = "Online"
    /\ (IF pending.value THEN "online" ELSE "offline") \notin m.ops

\* Every request is answered in the end (or its modem gone), whatever timeouts,
\* resets, hang-ups and SIM changes come in between, unless it is for Online
\* and the driver lost its command: only Powered and Lockdown have the timer
\* (l.609-698, 914-1049, 1172-1239).
EveryRequestAnswered == pending # NoRequest ~> pending = NoRequest \/ CommandLost

-----------------------------------------------------------------------------
(* What doc/modem-api.txt says.                                            *)

\* "Setting it to true, makes the calling application hold the modem lock and
\* power it down."
LockedModemIsDown == lockdown /\ pending = NoRequest => ~powered

\* "If the the application exits Lockdown is set to false", and PropertyChanged
\* "indicates a changed value of the given property".
LockdownIsSignalled == registered /\ pending = NoRequest => signalled.lockdown = lockdown

\* "On success a PropertyChanged signal will be emitted": a successful
\* SetProperty(Online) leaves Online at the value asked for.
OnlineSuccessIsTrue ==
    reply.req.prop = "Online" /\ reply.result = "ok" => m.online = reply.req.value

=============================================================================
