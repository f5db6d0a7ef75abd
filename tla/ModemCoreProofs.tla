--------------------------- MODULE ModemCoreProofs ---------------------------
(***************************************************************************)
(* Proofs about ModemCore.  First the state, the atoms, Online and the     *)
(* power of a modem: they agree, for any clients, any driver results and   *)
(* any bounds, as long as driver->enable does not fail when                *)
(* ofono_modem_reset calls it.  Then what its clients see: emergency       *)
(* calls, the signals of Powered, what is left of an unregistered modem,   *)
(* the request that waits and its answer.                                  *)
(***************************************************************************)
EXTENDS ModemCore, TLAPS

-----------------------------------------------------------------------------
(* What the functions of m preserve.                                       *)

\* Well formed, with the atoms of its state, and a SIM only with its atom.
Sound(mm) ==
    /\ mm \in Modems
    /\ \A l \in PRE_SIM .. ONLINE : mm.atoms[l] = (IF l <= mm.state THEN 1 ELSE 0)
    /\ mm.sim # "none" => mm.state >= PRE_SIM

\* Online is what the state says, where the state says it.
Agrees(mm) ==
    /\ mm.state = ONLINE => mm.online = TRUE
    /\ mm.state = OFFLINE => mm.online = FALSE

\* The names of a SIM's states.
LEMMA SimNames ==
    DOMAIN SimMoves = {"new", "absent", "inserted", "ready", "locked_out", "resetting"}
BY DEF SimMoves

\* modem_change_state keeps the atoms with the state when it goes up one
\* level at a time.
LEMMA ChangeState ==
    ASSUME NEW mm, Sound(mm), NEW new \in POWER_OFF .. ONLINE, new <= mm.state + 1
    PROVE  /\ Sound(modem_change_state(mm, new))
           /\ modem_change_state(mm, new).state = new
           /\ modem_change_state(mm, new).online = mm.online
           /\ modem_change_state(mm, new).get_online = mm.get_online
<1> DEFINE r == modem_change_state(mm, new)
<1>1. CASE mm.state = new
  BY <1>1 DEF modem_change_state, Sound, Modems
<1>2. CASE mm.state # new
  <2>1. /\ mm \in Modems /\ mm.state \in 0 .. 3
        /\ mm.atoms \in [1 .. 3 -> Nat]
    BY DEF Sound, Modems, POWER_OFF, PRE_SIM, ONLINE
  <2>2. /\ r.state = new /\ r.online = mm.online /\ r.get_online = mm.get_online
        /\ r.ops = mm.ops
        /\ r.atoms = [l \in PRE_SIM .. ONLINE |->
                          IF l > new THEN 0
                          ELSE IF l = new /\ mm.state < new
                               THEN mm.atoms[l] + 1
                               ELSE mm.atoms[l]]
        /\ r.sim = IF new = POWER_OFF THEN "none"
                   ELSE IF new = PRE_SIM /\ mm.state < PRE_SIM /\ HasSim
                        THEN "new" ELSE mm.sim
        /\ r = [state |-> r.state, atoms |-> r.atoms, sim |-> r.sim,
                online |-> r.online, get_online |-> r.get_online, ops |-> r.ops]
    BY <1>2, <2>1 DEF modem_change_state, Modems
  <2>3. ASSUME NEW l \in PRE_SIM .. ONLINE
        PROVE  r.atoms[l] = (IF l <= r.state THEN 1 ELSE 0)
    BY <1>2, <2>1, <2>2 DEF Sound, POWER_OFF, PRE_SIM, OFFLINE, ONLINE
  <2>4. r.atoms \in [PRE_SIM .. ONLINE -> Nat]
    BY <2>1, <2>2 DEF PRE_SIM, ONLINE
  <2>5. r.sim \in {"none"} \cup DOMAIN SimMoves
    BY <2>1, <2>2, SimNames DEF Modems
  <2>6. r \in Modems
    BY <2>1, <2>2, <2>4, <2>5 DEF Modems
  <2>7. r.sim # "none" => r.state >= PRE_SIM
    BY <2>1, <2>2, <1>2 DEF Sound, POWER_OFF, PRE_SIM, ONLINE
  <2> QED BY <2>2, <2>3, <2>6, <2>7 DEF Sound
<1> QED BY <1>1, <1>2

\* Setting Online or get_online keeps a modem sound.
LEMMA OtherFields ==
    ASSUME NEW mm, Sound(mm)
    PROVE  /\ Sound(SetOnline(mm)) /\ SetOnline(mm).state = mm.state
           /\ SetOnline(mm).online = TRUE
           /\ Sound(SetOffline(mm)) /\ SetOffline(mm).state = mm.state
           /\ SetOffline(mm).online = FALSE
           /\ Sound(Remember(mm)) /\ Remember(mm).state = mm.state
           /\ Remember(mm).online = mm.online
           /\ Sound(Forget(mm)) /\ Forget(mm).state = mm.state
           /\ Forget(mm).online = mm.online
BY DEF Sound, Modems, SetOnline, SetOffline, Remember, Forget

\* So does changing the commands the driver has.
LEMMA Commands ==
    ASSUME NEW mm, Sound(mm), NEW s \in SUBSET {"online", "offline", "silent"}
    PROVE  /\ Sound([mm EXCEPT !.ops = s])
           /\ [mm EXCEPT !.ops = s].state = mm.state
           /\ [mm EXCEPT !.ops = s].online = mm.online
BY DEF Sound, Modems

\* The types of the fields.
LEMMA Fields ==
    ASSUME NEW mm, Sound(mm)
    PROVE  /\ mm.ops \in SUBSET {"online", "offline", "silent"}
           /\ mm.get_online \in BOOLEAN /\ mm.online \in BOOLEAN
           /\ mm.state \in POWER_OFF .. ONLINE
BY DEF Sound, Modems

\* A ready SIM leaves a modem OFFLINE or ONLINE, and Online with it.
LEMMA SimReady ==
    ASSUME NEW mm, Sound(mm), mm.state >= PRE_SIM
    PROVE  /\ Sound(sim_ready(mm)) /\ Agrees(sim_ready(mm))
           /\ sim_ready(mm).state >= PRE_SIM
<1> DEFINE offline == modem_change_state(mm, OFFLINE)
           raised == IF AlwaysOnline THEN SetOnline(offline) ELSE offline
           done == IF raised.online THEN modem_change_state(raised, ONLINE)
                   ELSE IF raised.get_online
                        THEN [raised EXCEPT !.ops = @ \cup {"silent"}]
                        ELSE raised
<1> USE DEF POWER_OFF, PRE_SIM, OFFLINE, ONLINE
<1>1. Sound(offline) /\ offline.state = OFFLINE
  <2>1. mm.state \in 0 .. 3
    BY DEF Sound, Modems
  <2> QED BY <2>1, ChangeState
<1>2. Sound(raised) /\ raised.state = OFFLINE
  <2> HIDE DEF offline
  <2> QED BY <1>1, OtherFields
<1>3. /\ Sound(done)
      /\ \/ done.state = ONLINE /\ done.online = TRUE
         \/ done.state = OFFLINE /\ done.online = FALSE
  <2> HIDE DEF raised
  <2>1. CASE raised.online = TRUE
    <3>1. done = modem_change_state(raised, ONLINE)
      BY <2>1
    <3> QED BY <1>2, <2>1, <3>1, ChangeState
  <2>2. CASE raised.online = FALSE
    <3>1. raised.ops \cup {"silent"} \in SUBSET {"online", "offline", "silent"}
      BY <1>2, Fields
    <3>2. done = raised \/ done = [raised EXCEPT !.ops = raised.ops \cup {"silent"}]
      BY <2>2
    <3> QED BY <1>2, <2>2, <3>1, <3>2, Commands
  <2> QED BY <1>2, <2>1, <2>2, Fields
<1>4. sim_ready(mm) = Forget(done)
  BY DEF sim_ready
<1> HIDE DEF done
<1>5. /\ Sound(sim_ready(mm))
      /\ sim_ready(mm).state = done.state /\ sim_ready(mm).online = done.online
  <2>1. Sound(Forget(done))
    BY <1>3, OtherFields
  <2>2. Forget(done).state = done.state
    BY <1>3, OtherFields
  <2>3. Forget(done).online = done.online
    BY <1>3, OtherFields
  <2> QED BY <1>4, <2>1, <2>2, <2>3
<1> QED BY <1>3, <1>5 DEF Agrees

\* What happens when the power came or went.
LEMMA PowerFunctions ==
    ASSUME NEW mm, Sound(mm), Agrees(mm)
    PROVE  /\ mm.state = POWER_OFF => Sound(PoweredUp(mm)) /\ Agrees(PoweredUp(mm))
           /\ Sound(PoweredDown(mm)) /\ Agrees(PoweredDown(mm))
           /\ PoweredDown(mm).state = POWER_OFF /\ PoweredDown(mm).online = FALSE
<1> USE DEF POWER_OFF, PRE_SIM, OFFLINE, ONLINE
<1>1. ASSUME mm.state = POWER_OFF PROVE Sound(PoweredUp(mm)) /\ Agrees(PoweredUp(mm))
  <2> DEFINE up == modem_change_state(mm, PRE_SIM)
  <2>1. Sound(up) /\ up.state = PRE_SIM
    BY <1>1, ChangeState
  <2>2. PoweredUp(mm) = IF modem_has_sim(up) THEN up ELSE sim_ready(up)
    BY DEF PoweredUp
  <2> HIDE DEF up
  <2>3. Agrees(up)
    BY <2>1 DEF Agrees
  <2>4. Sound(sim_ready(up)) /\ Agrees(sim_ready(up))
    BY <2>1, SimReady
  <2> QED BY <2>1, <2>2, <2>3, <2>4
<1>2. /\ Sound(PoweredDown(mm)) /\ PoweredDown(mm).state = POWER_OFF
      /\ PoweredDown(mm).online = FALSE
  <2>1. Sound(SetOffline(mm)) /\ SetOffline(mm).online = FALSE
        /\ SetOffline(mm).state \in 0 .. 3
    BY OtherFields, Fields
  <2> QED BY <2>1, ChangeState DEF PoweredDown
<1>3. Agrees(PoweredDown(mm))
  BY <1>2 DEF Agrees
<1> QED BY <1>1, <1>2, <1>3

\* Late answers to set_online change the state only between OFFLINE and ONLINE.
LEMMA OnlineFunctions ==
    ASSUME NEW mm, Sound(mm), Agrees(mm)
    PROVE  /\ Sound(CommonOnline(mm)) /\ Agrees(CommonOnline(mm))
           /\ mm.state = POWER_OFF => CommonOnline(mm) = mm
           /\ Sound(CommonOffline(mm)) /\ Agrees(CommonOffline(mm))
           /\ mm.state = POWER_OFF => CommonOffline(mm) = mm
<1> USE DEF POWER_OFF, PRE_SIM, OFFLINE, ONLINE
<1>1. mm.state \in 0 .. 3
  BY Fields
<1>2. /\ Sound(SetOnline(mm)) /\ SetOnline(mm).state = mm.state
      /\ SetOnline(mm).online = TRUE
      /\ Sound(SetOffline(mm)) /\ SetOffline(mm).state = mm.state
      /\ SetOffline(mm).online = FALSE
  BY OtherFields
<1>3. CASE mm.state = OFFLINE
  <2>1. /\ Sound(CommonOnline(mm)) /\ CommonOnline(mm).state = ONLINE
        /\ CommonOnline(mm).online = TRUE
    BY <1>2, <1>3, ChangeState DEF CommonOnline
  <2>2. CommonOffline(mm) = mm
    BY <1>3 DEF CommonOffline
  <2> QED BY <1>3, <2>1, <2>2 DEF Agrees
<1>4. CASE mm.state = PRE_SIM
  <2>1. /\ CommonOnline(mm) = SetOnline(mm)
        /\ CommonOffline(mm) = SetOffline(mm)
    BY <1>4 DEF CommonOnline, CommonOffline
  <2> QED BY <1>2, <1>4, <2>1 DEF Agrees
<1>5. CASE mm.state = ONLINE
  <2>1. /\ Sound(CommonOffline(mm)) /\ CommonOffline(mm).state = OFFLINE
        /\ CommonOffline(mm).online = FALSE
    BY <1>2, <1>5, ChangeState DEF CommonOffline
  <2>2. CommonOnline(mm) = mm
    BY <1>5 DEF CommonOnline
  <2> QED BY <1>5, <2>1, <2>2 DEF Agrees
<1>6. CASE mm.state = POWER_OFF
  BY <1>6 DEF CommonOnline, CommonOffline, Agrees
<1> QED BY <1>1, <1>3, <1>4, <1>5, <1>6

-----------------------------------------------------------------------------
(* The inductive invariant.                                                *)

\* A modem that has left POWER_OFF is powered and nobody takes its power;
\* Online needs power.
PowerFits ==
    /\ m.state # POWER_OFF => powered = TRUE /\ powered_pending = TRUE
    /\ m.online = TRUE /\ registered = TRUE => powered = TRUE

OthersOK ==
    /\ powered \in BOOLEAN /\ powered_pending \in BOOLEAN
    /\ pending \in Requests /\ timeout \in BOOLEAN
    /\ lock_owner \in Clients \cup {NoClient}
    /\ emergency \in 0 .. MaxEmergency
    /\ registered \in BOOLEAN
    /\ enables \in 0 .. MaxEnables /\ disabling \in BOOLEAN
    /\ connected \subseteq Clients
    /\ signalled \in [powered : BOOLEAN, lockdown : BOOLEAN]
    /\ reply.req \in Requests

IInv == Sound(m) /\ Agrees(m) /\ PowerFits /\ OthersOK

\* A state of m as driver->disable finds or leaves it: no power, no atoms.
LEMMA Unpowered ==
    ASSUME IInv, NEW mm \in MayCancel(modem_change_state(m, POWER_OFF), FALSE)
    PROVE  Sound(mm) /\ Agrees(mm) /\ mm.state = POWER_OFF /\ mm.online = m.online
<1> DEFINE off == modem_change_state(m, POWER_OFF)
<1>1. Sound(off) /\ off.state = POWER_OFF /\ off.online = m.online
  <2>1. m.state \in 0 .. 3
    BY Fields DEF IInv, POWER_OFF, ONLINE
  <2>2. 0 \in POWER_OFF .. ONLINE /\ 0 <= m.state + 1
    BY <2>1 DEF POWER_OFF, ONLINE
  <2> QED BY <2>2, ChangeState DEF IInv, POWER_OFF
<1>2. mm = off \/ mm = [off EXCEPT !.ops = {}]
  BY DEF MayCancel
<1> HIDE DEF off
<1>3. {} \in SUBSET {"online", "offline", "silent"}
  OBVIOUS
<1>4. Sound(mm) /\ mm.state = POWER_OFF /\ mm.online = m.online
  BY <1>1, <1>2, <1>3, Commands
<1>5. Agrees(mm)
  BY <1>4 DEF Agrees, POWER_OFF, OFFLINE, ONLINE
<1> QED BY <1>4, <1>5

\* SetProperty(Powered) keeps state and power together.
LEMMA SetPoweredStep ==
    ASSUME IInv, NEW c \in Clients, NEW value \in BOOLEAN, SetPowered(c, value)
    PROVE  Sound(m') /\ Agrees(m') /\ PowerFits'
<1>1. CASE UNCHANGED <<m, power, registered>>
  BY <1>1 DEF IInv, PowerFits, power
<1>2. CASE PoweredRefusal(value) = "none"
  <2>1. registered' = registered /\ powered # value
    BY <1>2 DEF SetPowered, PoweredRefusal, Answer
  <2>2. CASE value = TRUE
    <3>1. m.state = POWER_OFF
      BY <2>1, <2>2 DEF IInv, PowerFits, OthersOK
    <3>2. \/ m' = m /\ powered' = powered /\ powered_pending' = TRUE
          \/ m' = m /\ powered' = powered /\ powered_pending' = powered_pending
          \/ m' = PoweredUp(m) /\ powered' = TRUE /\ powered_pending' = TRUE
      BY <1>2, <2>2 DEF SetPowered, Answer, MayCancel, Prepared, Powering, power
    <3>3. Sound(PoweredUp(m)) /\ Agrees(PoweredUp(m))
      BY <3>1, PowerFunctions DEF IInv
    <3>4. Sound(m') /\ Agrees(m')
      BY <3>2, <3>3 DEF IInv
    <3>5. PowerFits'
      BY <2>1, <3>1, <3>2 DEF IInv, PowerFits
    <3> QED BY <3>4, <3>5
  <2>3. CASE value = FALSE
    <3>1. PICK mm \in MayCancel(modem_change_state(m, POWER_OFF), FALSE) :
             \/ m' = mm /\ powered' = powered
             \/ m' = PoweredDown(mm) /\ powered' = FALSE
      BY <1>2, <2>3 DEF SetPowered, Answer, MayCancel, Prepared, Powering, power
    <3>2. Sound(mm) /\ Agrees(mm) /\ mm.state = POWER_OFF /\ mm.online = m.online
      BY <3>1, Unpowered
    <3>3. /\ Sound(PoweredDown(mm)) /\ Agrees(PoweredDown(mm))
          /\ PoweredDown(mm).state = POWER_OFF /\ PoweredDown(mm).online = FALSE
      BY <3>2, PowerFunctions
    <3>4. Sound(m') /\ Agrees(m')
      BY <3>1, <3>2, <3>3
    <3>5. PowerFits'
      BY <2>1, <3>1, <3>2, <3>3 DEF IInv, PowerFits
    <3> QED BY <3>4, <3>5
  <2> QED BY <2>2, <2>3
<1> QED BY <1>1, <1>2 DEF SetPowered, Answer

\* SetProperty(Lockdown) powers the modem down like SetProperty(Powered).
LEMMA LockdownStep ==
    ASSUME IInv, NEW c \in Clients, NEW value \in BOOLEAN,
           set_property_lockdown(c, value)
    PROVE  Sound(m') /\ Agrees(m') /\ PowerFits'
<1>1. CASE UNCHANGED <<m, power, registered>>
  BY <1>1 DEF IInv, PowerFits, power
<1>2. CASE \E mm \in MayCancel(modem_change_state(m, POWER_OFF), FALSE) :
             /\ registered' = registered
             /\ \/ m' = mm /\ powered' = powered
                \/ m' = SetOffline(mm) /\ powered' = FALSE
  <2>1. PICK mm \in MayCancel(modem_change_state(m, POWER_OFF), FALSE) :
             /\ registered' = registered
             /\ \/ m' = mm /\ powered' = powered
                \/ m' = SetOffline(mm) /\ powered' = FALSE
    BY <1>2
  <2>2. Sound(mm) /\ Agrees(mm) /\ mm.state = POWER_OFF /\ mm.online = m.online
    BY <2>1, Unpowered
  <2>3. /\ Sound(SetOffline(mm)) /\ SetOffline(mm).state = POWER_OFF
        /\ SetOffline(mm).online = FALSE
    BY <2>2, OtherFields
  <2>4. Agrees(SetOffline(mm))
    BY <2>3 DEF Agrees, POWER_OFF, OFFLINE, ONLINE
  <2>5. PowerFits'
    BY <2>1, <2>2, <2>3 DEF IInv, PowerFits
  <2> QED BY <2>1, <2>2, <2>3, <2>4, <2>5
<1>3. UNCHANGED <<m, power, registered>>
      \/ \E mm \in MayCancel(modem_change_state(m, POWER_OFF), FALSE) :
             /\ registered' = registered
             /\ \/ m' = mm /\ powered' = powered
                \/ m' = SetOffline(mm) /\ powered' = FALSE
  BY DEF set_property_lockdown, Answer, MayCancel, Prepared, power
<1> QED BY <1>1, <1>2, <1>3

\* The timer of a request to power down takes the power, of one to power up
\* only forgets what was asked.
LEMMA TimeoutStep ==
    ASSUME IInv, set_powered_timeout
    PROVE  Sound(m') /\ Agrees(m') /\ PowerFits'
<1>1. registered' = registered
  BY DEF set_powered_timeout
<1>2. CASE powered_pending = FALSE
  <2>1. m' = SetOffline(m) /\ powered' = FALSE
    BY <1>2 DEF set_powered_timeout
  <2>2. m.state = POWER_OFF
    BY <1>2 DEF IInv, PowerFits
  <2>3. /\ Sound(SetOffline(m)) /\ SetOffline(m).state = POWER_OFF
        /\ SetOffline(m).online = FALSE
    BY <2>2, OtherFields DEF IInv
  <2>4. Agrees(SetOffline(m))
    BY <2>3 DEF Agrees, POWER_OFF, OFFLINE, ONLINE
  <2>5. PowerFits'
    BY <2>1, <2>3 DEF PowerFits
  <2> QED BY <2>1, <2>3, <2>4, <2>5
<1>3. CASE powered_pending = TRUE
  <2>1. m' = m /\ powered' = powered /\ powered_pending' = powered
    BY <1>3 DEF set_powered_timeout
  <2> QED BY <1>1, <2>1 DEF IInv, PowerFits
<1> QED BY <1>2, <1>3 DEF IInv, OthersOK

\* The driver's calls of ofono_modem_set_powered, with commands lost or not.
LEMMA SetPoweredByDriver ==
    ASSUME IInv, NEW value \in BOOLEAN, NEW mm, mm = m \/ mm = [m EXCEPT !.ops = {}],
           ofono_modem_set_powered(value, mm)
    PROVE  Sound(m') /\ Agrees(m') /\ PowerFits'
<1>1. {} \in SUBSET {"online", "offline", "silent"}
  OBVIOUS
<1>2. Sound(mm) /\ mm.state = m.state /\ mm.online = m.online
  BY <1>1, Commands DEF IInv
<1>3. Agrees(mm)
  BY <1>2 DEF IInv, Agrees
<1>4. registered' = registered /\ powered' = value /\ powered_pending' = value
  BY DEF ofono_modem_set_powered
<1>5. CASE powered = value
  <2>1. m' = mm
    BY <1>5 DEF ofono_modem_set_powered
  <2>2. PowerFits'
    BY <1>2, <1>4, <1>5, <2>1 DEF IInv, PowerFits
  <2> QED BY <1>2, <1>3, <2>1, <2>2
<1>6. CASE powered # value /\ value = TRUE
  <2>1. m' = PoweredUp(mm)
    BY <1>6 DEF ofono_modem_set_powered, Powering
  <2>2. mm.state = POWER_OFF
    BY <1>2, <1>6 DEF IInv, PowerFits, OthersOK
  <2>3. Sound(PoweredUp(mm)) /\ Agrees(PoweredUp(mm))
    BY <1>2, <1>3, <2>2, PowerFunctions
  <2>4. PowerFits'
    BY <1>4, <1>6 DEF PowerFits
  <2> QED BY <2>1, <2>3, <2>4
<1>7. CASE powered # value /\ value = FALSE
  <2>1. m' = PoweredDown(mm)
    BY <1>7 DEF ofono_modem_set_powered, Powering
  <2>2. /\ Sound(PoweredDown(mm)) /\ Agrees(PoweredDown(mm))
        /\ PoweredDown(mm).state = POWER_OFF /\ PoweredDown(mm).online = FALSE
    BY <1>2, <1>3, PowerFunctions
  <2>3. PowerFits'
    BY <2>1, <2>2 DEF PowerFits
  <2> QED BY <2>1, <2>2, <2>3
<1> QED BY <1>5, <1>6, <1>7

\* A late answer to set_online does nothing to a modem in POWER_OFF.
LEMMA AnswerStep ==
    ASSUME IInv, NEW s \in SUBSET {"online", "offline", "silent"}, NEW mm,
           mm = [m EXCEPT !.ops = s],
           m' = mm \/ m' = CommonOnline(mm) \/ m' = CommonOffline(mm),
           UNCHANGED <<power, registered>>
    PROVE  Sound(m') /\ Agrees(m') /\ PowerFits'
<1>1. Sound(mm) /\ mm.state = m.state /\ mm.online = m.online
  BY Commands DEF IInv
<1>2. Agrees(mm)
  BY <1>1 DEF IInv, Agrees
<1>3. /\ Sound(CommonOnline(mm)) /\ Agrees(CommonOnline(mm))
      /\ mm.state = POWER_OFF => CommonOnline(mm) = mm
      /\ Sound(CommonOffline(mm)) /\ Agrees(CommonOffline(mm))
      /\ mm.state = POWER_OFF => CommonOffline(mm) = mm
  BY <1>1, <1>2, OnlineFunctions
<1>4. PowerFits'
  <2>1. CASE m.state = POWER_OFF
    BY <2>1, <1>1, <1>3 DEF IInv, PowerFits, power
  <2>2. CASE m.state # POWER_OFF
    BY <2>2 DEF IInv, PowerFits, power
  <2> QED BY <2>1, <2>2
<1> QED BY <1>1, <1>2, <1>3, <1>4

\* What the SIM does never brings a modem without power to life: without
\* power there is no SIM.
LEMMA SimStep ==
    ASSUME IInv, NEW sim \in DOMAIN SimMoves, SimChanges(sim)
    PROVE  Sound(m') /\ Agrees(m') /\ PowerFits'
<1> DEFINE mm == [m EXCEPT !.sim = sim]
<1>1. UNCHANGED <<power, registered>>
  BY DEF SimChanges
<1>2. /\ Sound(mm) /\ mm.state = m.state /\ mm.online = m.online
      /\ m.state \in 1 .. 3
  BY DEF SimChanges, Sound, Modems, IInv, POWER_OFF, PRE_SIM, ONLINE
<1>3. Agrees(mm)
  BY <1>2 DEF IInv, Agrees
<1>4. \/ m' = modem_change_state(mm, PRE_SIM) \/ m' = sim_ready(mm) \/ m' = mm
  BY DEF SimChanges, sim_state_watch
<1> HIDE DEF mm
<1>5. Sound(modem_change_state(mm, PRE_SIM)) /\ modem_change_state(mm, PRE_SIM).state = PRE_SIM
  <2>1. 1 \in POWER_OFF .. ONLINE /\ 1 <= mm.state + 1
    BY <1>2 DEF POWER_OFF, ONLINE
  <2> QED BY <1>2, <2>1, ChangeState DEF PRE_SIM
<1>6. Agrees(modem_change_state(mm, PRE_SIM))
  BY <1>5 DEF Agrees, PRE_SIM, OFFLINE, ONLINE
<1>7. Sound(sim_ready(mm)) /\ Agrees(sim_ready(mm))
  <2>1. mm.state >= PRE_SIM
    BY <1>2 DEF PRE_SIM
  <2> QED BY <1>2, <2>1, SimReady
<1>8. PowerFits'
  BY <1>1, <1>2 DEF IInv, PowerFits, power, POWER_OFF
<1> QED BY <1>2, <1>3, <1>4, <1>5, <1>6, <1>7, <1>8

\* A reset leaves the modem in POWER_OFF while its enable is in progress, and
\* in PRE_SIM with power when enable worked at once.
LEMMA ResetStep ==
    ASSUME IInv, NEW result \in {"inprogress", "ok"}, ofono_modem_reset(result)
    PROVE  Sound(m') /\ Agrees(m') /\ PowerFits'
<1> DEFINE was == IF m.state = ONLINE THEN Remember(Lost(m)) ELSE Lost(m)
<1>1. Sound(Lost(m)) /\ Lost(m).state = m.state /\ Lost(m).online = m.online
  <2>1. {} \in SUBSET {"online", "offline", "silent"}
    OBVIOUS
  <2> QED BY <2>1, Commands DEF IInv, Lost
<1>2. Sound(was) /\ was.state = m.state /\ was.online = m.online
  BY <1>1, OtherFields
<1>3. Agrees(was)
  <2> HIDE DEF was
  <2> QED BY <1>2 DEF IInv, Agrees
<1> DEFINE down == IF powered THEN PoweredDown(was) ELSE was
<1>4. /\ m' = IF result = "inprogress" THEN down ELSE modem_change_state(down, PRE_SIM)
      /\ registered = TRUE /\ registered' = registered
  BY DEF ofono_modem_reset, IInv, OthersOK
<1>5. /\ Sound(PoweredDown(was)) /\ Agrees(PoweredDown(was))
      /\ PoweredDown(was).state = POWER_OFF /\ PoweredDown(was).online = FALSE
  <2> HIDE DEF was
  <2> QED BY <1>2, <1>3, PowerFunctions
<1>6. Sound(down) /\ Agrees(down) /\ down.state = POWER_OFF /\ down.online # TRUE
  <2> HIDE DEF was
  <2> QED BY <1>2, <1>3, <1>4, <1>5 DEF IInv, PowerFits, OthersOK
<1> HIDE DEF down
<1>7. CASE result = "inprogress"
  BY <1>4, <1>6, <1>7 DEF PowerFits
<1>8. CASE result = "ok"
  <2>1. 1 \in POWER_OFF .. ONLINE /\ 1 <= down.state + 1
    BY <1>6 DEF POWER_OFF, ONLINE
  <2>2. Sound(m') /\ m'.state = PRE_SIM
    BY <1>4, <1>6, <1>8, <2>1, ChangeState DEF PRE_SIM
  <2>3. Agrees(m')
    BY <2>2 DEF Agrees, PRE_SIM, OFFLINE, ONLINE
  <2>4. powered' = TRUE /\ powered_pending' = TRUE
    BY <1>8 DEF ofono_modem_reset
  <2> QED BY <2>2, <2>3, <2>4 DEF PowerFits
<1> QED BY <1>7, <1>8

\* An unregistered modem is in POWER_OFF.
LEMMA UnregisterStep ==
    ASSUME IInv, modem_unregister
    PROVE  Sound(m') /\ Agrees(m') /\ PowerFits'
<1>1. registered' = FALSE
  BY DEF modem_unregister
<1>2. {} \in SUBSET {"online", "offline", "silent"}
  OBVIOUS
<1>3. CASE m' = [modem_change_state(m, POWER_OFF) EXCEPT !.ops = {}]
  <2>1. m' \in MayCancel(modem_change_state(m, POWER_OFF), FALSE)
    BY <1>3 DEF MayCancel
  <2>2. Sound(m') /\ Agrees(m') /\ m'.state = POWER_OFF
    BY <2>1, Unpowered
  <2> QED BY <1>1, <2>2 DEF PowerFits
<1>4. CASE (~powered \/ ~powered_pending) /\ m' = [m EXCEPT !.ops = {}]
  <2>1. m.state = POWER_OFF
    BY <1>4 DEF IInv, PowerFits, OthersOK
  <2>2. Sound(m') /\ m'.state = m.state /\ m'.online = m.online
    BY <1>2, <1>4, Commands DEF IInv
  <2>3. Agrees(m')
    BY <2>2 DEF IInv, Agrees
  <2> QED BY <1>1, <2>1, <2>2, <2>3 DEF PowerFits
<1> QED BY <1>3, <1>4 DEF modem_unregister, Prepared

\* Requests and answers to nobody are well typed.
LEMMA RequestTypes ==
    /\ NoRequest \in Requests /\ NoReply.req \in Requests
    /\ \A c \in Clients, value \in BOOLEAN, prop \in {"Powered", "Online", "Lockdown"} :
           Request(c, prop, value) \in Requests
BY DEF NoRequest, NoReply, Reply, Request, Requests

\* A reply names its request.
LEMMA ReplyFields ==
    \A req, result, by : Reply(req, result, by).req = req
BY DEF Reply

\* What the driver is doing keeps its type, whatever it is asked for.
LEMMA DriverTypes ==
    ASSUME IInv, NEW result, CallEnable(result) \/ CallDisable(result)
    PROVE  enables' \in 0 .. MaxEnables /\ disabling' \in BOOLEAN
<1>1. enables \in 0 .. MaxEnables /\ disabling \in BOOLEAN /\ MaxEnables \in Nat
  BY ModemCoreAssumption DEF IInv, OthersOK
<1>2. enables' \in 0 .. MaxEnables
  <2>1. CASE CallEnable(result)
    <3>1. enables' = enables \/ enables' = enables + 1
      BY <2>1 DEF CallEnable
    <3> QED BY <1>1, <2>1, <3>1 DEF CallEnable
  <2>2. CASE CallDisable(result)
    BY <1>1, <2>2 DEF CallDisable
  <2> QED BY <2>1, <2>2
<1>3. disabling' = TRUE \/ disabling' = disabling
  BY Zenon DEF CallEnable, CallDisable
<1> QED BY <1>1, <1>2, <1>3

\* The other variables keep their types.
LEMMA TypeStep ==
    ASSUME IInv, Next
    PROVE  OthersOK'
<1> USE DEF IInv, OthersOK, vars, power, request, driver
<1> USE RequestTypes
<1>1. ASSUME NEW c \in Clients, NEW value \in BOOLEAN, SetPowered(c, value)
      PROVE  OthersOK'
  <2>1. UNCHANGED <<lock_owner, emergency, registered, connected>>
    BY <1>1 DEF SetPowered, Answer
  <2>2. powered' \in BOOLEAN /\ powered_pending' \in BOOLEAN
    BY <1>1 DEF SetPowered, Answer
  <2>3. pending' \in Requests /\ timeout' \in BOOLEAN
    BY <1>1 DEF SetPowered, Answer, Wait
  <2>4. enables' \in 0 .. MaxEnables /\ disabling' \in BOOLEAN
    <3>1. UNCHANGED driver \/ \E result : CallEnable(result) \/ CallDisable(result)
      BY <1>1 DEF SetPowered, Answer, CallDriver
    <3> QED BY <3>1, DriverTypes
  <2>5. signalled' \in [powered : BOOLEAN, lockdown : BOOLEAN]
    BY <1>1 DEF SetPowered, Answer, SignalPowered
  <2>6. reply'.req \in Requests
    <3>1. reply' = NoReply
          \/ \E result, by : reply' = Reply(Request(c, "Powered", value), result, by)
      BY <1>1 DEF SetPowered, Answer
    <3> QED BY <3>1, ReplyFields
  <2> QED BY <2>1, <2>2, <2>3, <2>4, <2>5, <2>6
<1>2. ASSUME NEW c \in Clients, NEW value \in BOOLEAN, set_property_online(c, value)
      PROVE  OthersOK'
  <2>1. /\ pending' \in Requests
        /\ UNCHANGED <<power, timeout, lock_owner, emergency, registered, driver,
                       connected, signalled>>
    BY <1>2 DEF set_property_online, Answer
  <2>2. reply'.req \in Requests
    <3>1. reply' = NoReply
          \/ \E result, by : reply' = Reply(Request(c, "Online", value), result, by)
      BY <1>2 DEF set_property_online, Answer
    <3> QED BY <3>1, ReplyFields
  <2> QED BY <2>1, <2>2
<1>3. ASSUME NEW c \in Clients, NEW value \in BOOLEAN, set_property_lockdown(c, value)
      PROVE  OthersOK'
  <2>1. UNCHANGED <<emergency, registered, connected>>
    BY <1>3 DEF set_property_lockdown, Answer
  <2>2. powered' \in BOOLEAN /\ powered_pending' \in BOOLEAN
    BY <1>3 DEF set_property_lockdown, Answer
  <2>3. pending' \in Requests /\ timeout' \in BOOLEAN
    BY <1>3 DEF set_property_lockdown, Answer, Wait
  <2>4. enables' \in 0 .. MaxEnables /\ disabling' \in BOOLEAN
    <3>1. UNCHANGED driver \/ \E result : CallEnable(result) \/ CallDisable(result)
      BY <1>3 DEF set_property_lockdown, Answer
    <3> QED BY <3>1, DriverTypes
  <2>5. signalled' \in [powered : BOOLEAN, lockdown : BOOLEAN]
    BY <1>3 DEF set_property_lockdown, Answer, SignalPowered
  <2>6. reply'.req \in Requests
    <3>1. reply' = NoReply
          \/ \E result, by : reply' = Reply(Request(c, "Lockdown", value), result, by)
      BY <1>3 DEF set_property_lockdown, Answer
    <3> QED BY <3>1, ReplyFields
  <2>7. lock_owner' \in Clients \cup {NoClient}
    BY <1>3 DEF set_property_lockdown, Answer
  <2> QED BY <2>1, <2>2, <2>3, <2>4, <2>5, <2>6, <2>7
<1>4. ASSUME NEW c \in Clients, Disconnect(c) PROVE OthersOK'
  BY <1>4 DEF Disconnect
<1>5. CASE set_powered_timeout
  <2>1. reply'.req \in Requests
    BY <1>5, ReplyFields DEF set_powered_timeout
  <2>2. UNCHANGED <<emergency, registered, driver, connected>>
    BY <1>5 DEF set_powered_timeout
  <2>3. signalled' \in [powered : BOOLEAN, lockdown : BOOLEAN]
    BY <1>5 DEF set_powered_timeout, SignalPowered
  <2>4. /\ powered' \in BOOLEAN /\ powered_pending' \in BOOLEAN
        /\ pending' \in Requests /\ timeout' \in BOOLEAN
        /\ lock_owner' \in Clients \cup {NoClient}
    BY <1>5 DEF set_powered_timeout
  <2> QED BY <2>1, <2>2, <2>3, <2>4
<1>6. ASSUME NEW value \in BOOLEAN, NEW mm, ofono_modem_set_powered(value, mm),
             enables' \in 0 .. MaxEnables, disabling' \in BOOLEAN
      PROVE  OthersOK'
  <2>1. reply'.req \in Requests
    BY <1>6, ReplyFields DEF ofono_modem_set_powered
  <2>2. UNCHANGED <<lock_owner, emergency, registered, connected>>
    BY <1>6 DEF ofono_modem_set_powered
  <2>3. signalled' \in [powered : BOOLEAN, lockdown : BOOLEAN]
    <3>1. (signalled.lockdown \/ lockdown) \in BOOLEAN
      OBVIOUS
    <3>2. \/ signalled' = signalled
          \/ signalled' = [[signalled EXCEPT !.powered = value]
                               EXCEPT !.lockdown = signalled.lockdown \/ lockdown]
      BY <1>6, Zenon DEF ofono_modem_set_powered, SignalPowered
    <3>3. PICK b \in BOOLEAN :
             \/ signalled' = signalled
             \/ signalled' = [[signalled EXCEPT !.powered = value] EXCEPT !.lockdown = b]
      BY <3>1, <3>2, Zenon
    <3>4. signalled \in [powered : BOOLEAN, lockdown : BOOLEAN]
      OBVIOUS
    <3> QED BY <3>3, <3>4
  <2>4. powered' \in BOOLEAN /\ powered_pending' \in BOOLEAN
        /\ pending' \in Requests /\ timeout' \in BOOLEAN
    BY <1>6 DEF ofono_modem_set_powered
  <2> QED BY <1>6, <2>1, <2>2, <2>3, <2>4
<1>7. ASSUME NEW value \in BOOLEAN, EnableDone(value) PROVE OthersOK'
  <2>1. enables - 1 \in 0 .. MaxEnables
    BY <1>7, ModemCoreAssumption DEF EnableDone
  <2> QED BY <1>6, <1>7, <2>1 DEF EnableDone
<1>8. CASE DisableDone
  BY <1>6, <1>8 DEF DisableDone
<1>9. CASE Hangup
  BY <1>6, <1>9 DEF Hangup
<1>10. ASSUME NEW ok \in BOOLEAN, online_cb(ok) \/ offline_cb(ok) \/ common_online_cb(ok)
       PROVE  OthersOK'
  BY <1>10 DEF online_cb, offline_cb, common_online_cb, Reply
<1>11. CASE Reset
  <2>1. PICK result \in ResetResults : ofono_modem_reset(result)
    BY <1>11 DEF Reset
  <2>2. reply'.req \in Requests
    BY <2>1, ReplyFields DEF ofono_modem_reset
  <2>3. UNCHANGED <<lock_owner, emergency, registered, disabling, connected>>
    BY <2>1 DEF ofono_modem_reset
  <2>4. signalled' \in [powered : BOOLEAN, lockdown : BOOLEAN]
    <3> DEFINE told == signalled.lockdown \/ lockdown
    <3>1. told \in BOOLEAN
      OBVIOUS
    <3>2. \/ signalled' = signalled
          \/ signalled' = [[signalled EXCEPT !.powered = FALSE] EXCEPT !.lockdown = told]
      BY <2>1, Zenon DEF ofono_modem_reset, SignalPowered
    <3>3. FALSE \in BOOLEAN
      OBVIOUS
    <3>4. PICK a \in BOOLEAN, b \in BOOLEAN :
             \/ signalled' = signalled
             \/ signalled' = [[signalled EXCEPT !.powered = a] EXCEPT !.lockdown = b]
      BY <3>1, <3>2, <3>3, Zenon
    <3>5. signalled \in [powered : BOOLEAN, lockdown : BOOLEAN]
      OBVIOUS
    <3> QED BY <3>4, <3>5
  <2>5. /\ powered' = (result = "ok") /\ powered_pending' = (result # "fail")
        /\ pending' = NoRequest /\ timeout' = FALSE
        /\ enables' = IF result = "inprogress" THEN enables + 1 ELSE enables
        /\ enables < MaxEnables
    BY <2>1 DEF ofono_modem_reset
  <2>6. powered' \in BOOLEAN /\ powered_pending' \in BOOLEAN
    BY <2>5
  <2>7. enables' \in 0 .. MaxEnables
    BY <2>5, ModemCoreAssumption
  <2> QED BY <2>2, <2>3, <2>4, <2>5, <2>6, <2>7
<1>12. ASSUME NEW sim \in DOMAIN SimMoves, SimChanges(sim) PROVE OthersOK'
  BY <1>12 DEF SimChanges
<1>13. ASSUME NEW start \in BOOLEAN, EmergencyCall(start) PROVE OthersOK'
  BY <1>13 DEF EmergencyCall
<1>14. CASE modem_unregister
  <2>1. /\ registered' = FALSE /\ enables' = 0 /\ disabling' = FALSE
        /\ pending' = NoRequest /\ timeout' = FALSE /\ lock_owner' = NoClient
        /\ reply' = NoReply /\ UNCHANGED <<emergency, connected>>
        /\ signalled' = IF lockdown THEN [signalled EXCEPT !.lockdown = FALSE]
                        ELSE signalled
    BY <1>14 DEF modem_unregister
  <2>2. powered' \in BOOLEAN /\ powered_pending' \in BOOLEAN
    BY <1>14 DEF modem_unregister
  <2>3. signalled' \in [powered : BOOLEAN, lockdown : BOOLEAN]
    BY <2>1
  <2>4. enables' \in 0 .. MaxEnables /\ reply'.req \in Requests
    BY <2>1, ModemCoreAssumption
  <2> QED BY <2>1, <2>2, <2>3, <2>4
<1> QED
  BY <1>1, <1>2, <1>3, <1>4, <1>5, <1>7, <1>8, <1>9, <1>10, <1>11, <1>12, <1>13, <1>14
  DEF Next, ClientStep, DriverStep

\* The invariant holds when the modem has just been registered.
LEMMA InitInvariant == Init => IInv
<1> SUFFICES ASSUME Init PROVE IInv
  OBVIOUS
<1> USE DEF Init, POWER_OFF, PRE_SIM, OFFLINE, ONLINE
<1>1. Fresh \in Modems
  BY DEF Fresh, Modems
<1>2. /\ Fresh.state = POWER_OFF /\ Fresh.sim = "none" /\ Fresh.online = FALSE
      /\ \A l \in PRE_SIM .. ONLINE : Fresh.atoms[l] = 0
  BY DEF Fresh
<1>3. Sound(m) /\ Agrees(m)
  BY <1>1, <1>2 DEF Sound, Agrees
<1>4. PowerFits
  BY <1>2 DEF PowerFits
<1>5. OthersOK
  <2>1. pending \in Requests /\ reply.req \in Requests
    BY RequestTypes
  <2>2. signalled \in [powered : BOOLEAN, lockdown : BOOLEAN]
    OBVIOUS
  <2>3. emergency \in 0 .. MaxEmergency /\ enables \in 0 .. MaxEnables
    BY ModemCoreAssumption
  <2> QED BY <2>1, <2>2, <2>3 DEF OthersOK
<1> QED BY <1>3, <1>4, <1>5 DEF IInv

\* Every step keeps the invariant, if no enable fails in a reset.
LEMMA NextInvariant ==
    ASSUME "fail" \notin ResetResults, IInv, [Next]_vars
    PROVE  IInv'
<1> DEFINE MOK == Sound(m') /\ Agrees(m') /\ PowerFits'
<1>1. ASSUME NEW c \in Clients, NEW value \in BOOLEAN, SetPowered(c, value) PROVE MOK
  BY <1>1, SetPoweredStep
<1>2. ASSUME NEW c \in Clients, NEW value \in BOOLEAN, set_property_online(c, value)
      PROVE  MOK
  <2>1. UNCHANGED <<power, registered>>
    BY <1>2 DEF set_property_online, Answer
  <2>2. m' = m \/ \E s \in {"online", "offline"} : m' = [m EXCEPT !.ops = m.ops \cup {s}]
    BY <1>2 DEF set_property_online, Answer
  <2>3. CASE m' = m
    BY <2>1, <2>3 DEF IInv, PowerFits, power
  <2>4. ASSUME NEW s \in {"online", "offline"}, m' = [m EXCEPT !.ops = m.ops \cup {s}]
        PROVE  MOK
    <3>1. m.ops \cup {s} \in SUBSET {"online", "offline", "silent"}
      BY Fields DEF IInv
    <3> QED BY <2>1, <2>4, <3>1, AnswerStep
  <2> QED BY <2>2, <2>3, <2>4
<1>3. ASSUME NEW c \in Clients, NEW value \in BOOLEAN, set_property_lockdown(c, value)
      PROVE  MOK
  BY <1>3, LockdownStep
<1>4. ASSUME UNCHANGED <<m, power, registered>> PROVE MOK
  BY <1>4 DEF IInv, PowerFits, power
<1>5. ASSUME NEW c \in Clients, Disconnect(c) PROVE MOK
  BY <1>4, <1>5 DEF Disconnect
<1>6. ASSUME set_powered_timeout PROVE MOK
  BY <1>6, TimeoutStep
<1>7. ASSUME NEW value \in BOOLEAN, EnableDone(value) PROVE MOK
  BY <1>7, SetPoweredByDriver DEF EnableDone
<1>8. ASSUME DisableDone \/ Hangup PROVE MOK
  <2>1. PICK value \in BOOLEAN, mm \in {m, [m EXCEPT !.ops = {}]} :
            ofono_modem_set_powered(value, mm)
    BY <1>8, Zenon DEF DisableDone, Hangup, Lost
  <2> QED BY <2>1, SetPoweredByDriver
<1>9. ASSUME NEW ok \in BOOLEAN, online_cb(ok) \/ offline_cb(ok) \/ common_online_cb(ok)
      PROVE  MOK
  <2>1. UNCHANGED <<power, registered>>
    BY <1>9 DEF online_cb, offline_cb, common_online_cb
  <2>2. \E op \in {"online", "offline", "silent"} :
            LET mm == [m EXCEPT !.ops = m.ops \ {op}]
            IN  m' = mm \/ m' = CommonOnline(mm) \/ m' = CommonOffline(mm)
    BY <1>9 DEF online_cb, offline_cb, common_online_cb
  <2>3. PICK op \in {"online", "offline", "silent"} :
            LET mm == [m EXCEPT !.ops = m.ops \ {op}]
            IN  m' = mm \/ m' = CommonOnline(mm) \/ m' = CommonOffline(mm)
    BY <2>2
  <2>4. m.ops \ {op} \in SUBSET {"online", "offline", "silent"}
    BY Fields DEF IInv
  <2> QED BY <2>1, <2>3, <2>4, AnswerStep
<1>10. ASSUME Reset PROVE MOK
  <2>1. PICK result \in ResetResults : ofono_modem_reset(result)
    BY <1>10 DEF Reset
  <2>2. result \in {"inprogress", "ok"}
    BY ModemCoreAssumption DEF Results
  <2> QED BY <2>1, <2>2, ResetStep
<1>11. ASSUME NEW sim \in DOMAIN SimMoves, SimChanges(sim) PROVE MOK
  BY <1>11, SimStep
<1>12. ASSUME NEW start \in BOOLEAN, EmergencyCall(start) PROVE MOK
  BY <1>4, <1>12 DEF EmergencyCall
<1>13. ASSUME modem_unregister PROVE MOK
  BY <1>13, UnregisterStep
<1>14. CASE UNCHANGED vars
  <2>1. OthersOK'
    BY <1>14 DEF IInv, OthersOK, vars, power, request, driver
  <2> QED BY <1>4, <1>14, <2>1 DEF IInv, vars
<1>15. CASE Next
  <2>1. OthersOK'
    BY <1>15, TypeStep
  <2>2. MOK
    BY <1>15, <1>1, <1>2, <1>3, <1>5, <1>6, <1>7, <1>8, <1>9, <1>10, <1>11, <1>12, <1>13
    DEF Next, ClientStep, DriverStep
  <2> QED BY <2>1, <2>2 DEF IInv
<1> QED BY <1>14, <1>15

-----------------------------------------------------------------------------
(* The theorems.  All of them need resets in which driver->enable does not *)
(* fail: after a failure ofono_modem_reset puts the modem in PRE_SIM as    *)
(* after a success, without power (modem.c:2150-2154).                     *)

\* The invariant is one of the specification.
THEOREM Invariance ==
    ASSUME "fail" \notin ResetResults
    PROVE  Spec => []IInv
<1>1. IInv /\ [Next]_vars => IInv'
  BY NextInvariant
<1> QED BY <1>1, InitInvariant, PTL DEF Spec

\* The variables of modem.c keep their types.
THEOREM TypeCorrect ==
    ASSUME "fail" \notin ResetResults
    PROVE  Spec => []TypeOK
<1>1. IInv => TypeOK
  BY DEF IInv, Sound, OthersOK, TypeOK
<1> QED BY <1>1, Invariance, PTL

\* Past POWER_OFF there is power, and nobody taking it (set_powered flushes
\* the atoms before it calls driver->disable), and online agrees with the
\* state and the power, however late drivers, SIM and timer are.
THEOREM StateBacked ==
    ASSUME "fail" \notin ResetResults
    PROVE  Spec => []StateIsBacked
<1>1. IInv => StateIsBacked
  <2> SUFFICES ASSUME IInv PROVE StateIsBacked
    OBVIOUS
  <2>1. m.online \in BOOLEAN /\ powered \in BOOLEAN /\ registered \in BOOLEAN
    BY Fields DEF IInv, OthersOK
  <2> QED BY <2>1 DEF IInv, Agrees, PowerFits, StateIsBacked
<1> QED BY <1>1, Invariance, PTL

\* The atoms are those of the state, each there once.
THEOREM AtomsFit ==
    ASSUME "fail" \notin ResetResults
    PROVE  Spec => []AtomsFollowState
<1>1. IInv => AtomsFollowState
  BY DEF IInv, Sound, AtomsFollowState
<1> QED BY <1>1, Invariance, PTL

-----------------------------------------------------------------------------
(* Emergency calls.                                                        *)

EmergencyStep ==
    emergency > 0 => /\ pending' \in {pending, NoRequest}
                     /\ lock_owner' \in {lock_owner, NoClient}
                     /\ reply'.by = "SetProperty" => UNCHANGED <<m, power>>

\* With an emergency call on every request that would start something is refused.
LEMMA Refusals ==
    ASSUME emergency > 0, NEW c, NEW value \in BOOLEAN
    PROVE  /\ PoweredRefusal(value) # "none"
           /\ OnlineRefusal(value) # "none"
           /\ value => LockdownRefusal(c, value) # "none"
BY DEF PoweredRefusal, OnlineRefusal, LockdownRefusal

LEMMA ReplyBy ==
    /\ \A req, result, by : Reply(req, result, by).by = by /\ Reply(req, result, by).req = req
    /\ NoReply.by = "none"
BY DEF Reply, NoReply

\* An emergency call holds off every request for Powered, Online or the lock;
\* those that were accepted before may still be answered (l.1108, 751, 993).
THEOREM EmergencyHolds == Spec => NothingStartsInEmergency
<1>1. [Next]_vars => [EmergencyStep]_vars
    <2> SUFFICES ASSUME Next, emergency > 0 PROVE EmergencyStep
        BY DEF EmergencyStep
    <2> DEFINE Quiet == /\ pending' \in {pending, NoRequest}
                        /\ lock_owner' \in {lock_owner, NoClient}
    <2>1. ASSUME NEW c \in Clients, NEW value \in BOOLEAN,
                 SetPowered(c, value) \/ set_property_online(c, value)
          PROVE  EmergencyStep
        <3>1. UNCHANGED <<m, power, request, lock_owner>>
            BY <2>1, Refusals DEF SetPowered, set_property_online, Answer
        <3> QED
            BY <3>1 DEF EmergencyStep, request
    <2>2. ASSUME NEW c \in Clients, NEW value \in BOOLEAN, set_property_lockdown(c, value)
          PROVE  EmergencyStep
        <3>1. CASE LockdownRefusal(c, value) # "none"
            <4>1. UNCHANGED <<m, power, request, lock_owner>>
                BY <2>2, <3>1 DEF set_property_lockdown, Answer
            <4> QED
                BY <4>1 DEF EmergencyStep, request
        <3>2. CASE LockdownRefusal(c, value) = "none"
            <4>1. value = FALSE
                BY <3>2, Refusals
            <4>2. UNCHANGED <<m, power, request>> /\ lock_owner' = NoClient
                BY <2>2, <3>2, <4>1 DEF set_property_lockdown
            <4> QED
                BY <4>2 DEF EmergencyStep, request
        <3> QED
            BY <3>1, <3>2
    <2>3. ASSUME Quiet, reply'.by # "SetProperty" PROVE EmergencyStep
        BY <2>3 DEF EmergencyStep
    <2>4. ASSUME NEW c \in Clients, Disconnect(c) PROVE EmergencyStep
        BY <2>3, <2>4, ReplyBy DEF Disconnect, request
    <2>5. ASSUME NEW value, NEW mm, ofono_modem_set_powered(value, mm) PROVE EmergencyStep
        BY <2>3, <2>5, ReplyBy DEF ofono_modem_set_powered
    <2>6. ASSUME DriverStep PROVE EmergencyStep
        <3>1. ASSUME NEW ok \in BOOLEAN, online_cb(ok) PROVE EmergencyStep
            BY <2>3, <3>1, ReplyBy DEF online_cb
        <3>2. ASSUME NEW ok \in BOOLEAN, offline_cb(ok) PROVE EmergencyStep
            BY <2>3, <3>2, ReplyBy DEF offline_cb
        <3>3. ASSUME NEW ok \in BOOLEAN, common_online_cb(ok) PROVE EmergencyStep
            BY <2>3, <3>3, ReplyBy DEF common_online_cb, request
        <3>4. ASSUME NEW result, ofono_modem_reset(result) PROVE EmergencyStep
            BY <2>3, <3>4, ReplyBy DEF ofono_modem_reset
        <3> QED
            BY <2>5, <2>6, <3>1, <3>2, <3>3, <3>4
            DEF DriverStep, EnableDone, DisableDone, Hangup, Reset
    <2>7. ASSUME set_powered_timeout PROVE EmergencyStep
        BY <2>3, <2>7, ReplyBy DEF set_powered_timeout
    <2>8. ASSUME NEW sim \in DOMAIN SimMoves, SimChanges(sim) PROVE EmergencyStep
        BY <2>3, <2>8, ReplyBy DEF SimChanges, request
    <2>9. ASSUME NEW start \in BOOLEAN, EmergencyCall(start) PROVE EmergencyStep
        BY <2>3, <2>9, ReplyBy DEF EmergencyCall, request
    <2>10. ASSUME modem_unregister PROVE EmergencyStep
        BY <2>3, <2>10, ReplyBy DEF modem_unregister
    <2> QED
        BY <2>1, <2>2, <2>4, <2>6, <2>7, <2>8, <2>9, <2>10 DEF Next, ClientStep
<1> QED
    BY <1>1, PTL DEF Spec, NothingStartsInEmergency, EmergencyStep

-----------------------------------------------------------------------------
(* What clients know of Powered.                                           *)

Known ==
    /\ powered \in BOOLEAN
    /\ signalled \in [powered : BOOLEAN, lockdown : BOOLEAN]
    /\ PoweredIsSignalled

\* The signals that carry Powered.
LEMMA Signals ==
    ASSUME Known, NEW value \in BOOLEAN, NEW l \in BOOLEAN
    PROVE  /\ SignalPowered(value) \in [powered : BOOLEAN, lockdown : BOOLEAN]
           /\ SignalPowered(value).powered = value
           /\ [SignalPowered(value) EXCEPT !.lockdown = l]
                  \in [powered : BOOLEAN, lockdown : BOOLEAN]
           /\ [SignalPowered(value) EXCEPT !.lockdown = l].powered = value
           /\ [signalled EXCEPT !.lockdown = l] \in [powered : BOOLEAN, lockdown : BOOLEAN]
           /\ [signalled EXCEPT !.lockdown = l].powered = signalled.powered
BY DEF Known, SignalPowered

\* A step that tells the new value, or changes nothing that has to be told.
LEMMA Told ==
    ASSUME Known, NEW value \in BOOLEAN, NEW l \in BOOLEAN,
           \/ powered' = value /\ signalled' = SignalPowered(value)
           \/ powered' = value /\ signalled' = [SignalPowered(value) EXCEPT !.lockdown = l]
           \/ UNCHANGED <<powered, signalled>> /\ (registered' => registered)
           \/ UNCHANGED powered /\ signalled' = [signalled EXCEPT !.lockdown = l]
              /\ (registered' => registered)
    PROVE  Known'
<1> DEFINE R == [powered : BOOLEAN, lockdown : BOOLEAN]
           S == SignalPowered(value)
           SL == [S EXCEPT !.lockdown = l]
           L == [signalled EXCEPT !.lockdown = l]
<1>1. S \in R /\ S.powered = value /\ SL \in R /\ SL.powered = value
      /\ L \in R /\ L.powered = signalled.powered
    BY Signals
<1>2. /\ powered \in BOOLEAN /\ signalled \in R
      /\ registered => signalled.powered = powered
    BY DEF Known, PoweredIsSignalled
<1>3. SUFFICES /\ powered' \in BOOLEAN /\ signalled' \in R
               /\ registered' => signalled'.powered = powered'
    BY DEF Known, PoweredIsSignalled
<1>4. CASE powered' = value /\ signalled' = S
    BY <1>1, <1>4
<1>5. CASE powered' = value /\ signalled' = SL
    <2> HIDE DEF SL
    <2> QED
        BY <1>1, <1>5
<1>6. CASE UNCHANGED <<powered, signalled>> /\ (registered' => registered)
    BY <1>2, <1>6
<1>7. CASE UNCHANGED powered /\ signalled' = L /\ (registered' => registered)
    <2> HIDE DEF L
    <2> QED
        BY <1>1, <1>2, <1>7
<1> QED
    BY <1>4, <1>5, <1>6, <1>7

LEMMA KnownKept ==
    ASSUME "ok" \notin ResetResults, Known, [Next]_vars
    PROVE  Known'
<1> DEFINE Same == UNCHANGED <<powered, signalled>> /\ (registered' => registered)
<1>s. ASSUME Same PROVE Known'
    BY <1>s, Told
<1>1. CASE UNCHANGED vars
    BY <1>1, <1>s DEF vars, power
<1>2. ASSUME NEW c \in Clients, NEW value \in BOOLEAN, SetPowered(c, value) PROVE Known'
    <2>1. UNCHANGED registered
        BY <1>2 DEF SetPowered, Answer
    <2>2. UNCHANGED <<powered, signalled>>
          \/ (powered' = value /\ signalled' = SignalPowered(value))
        BY <1>2 DEF SetPowered, Answer, power
    <2> QED
        BY <2>1, <2>2, Told
<1>3. ASSUME NEW c \in Clients, NEW value \in BOOLEAN, set_property_online(c, value) PROVE Known'
    BY <1>3, <1>s DEF set_property_online, Answer, power
<1>4. ASSUME NEW c \in Clients, NEW value \in BOOLEAN, set_property_lockdown(c, value) PROVE Known'
    <2>1. UNCHANGED registered
        BY <1>4 DEF set_property_lockdown, Answer
    <2>2. \/ UNCHANGED <<powered, signalled>>
          \/ UNCHANGED powered /\ signalled' = [signalled EXCEPT !.lockdown = value]
          \/ powered' = FALSE /\ signalled' = [SignalPowered(FALSE) EXCEPT !.lockdown = TRUE]
        BY <1>4 DEF set_property_lockdown, Answer, power
    <2> QED
        BY <2>1, <2>2, Told
<1>5. ASSUME NEW c \in Clients, Disconnect(c) PROVE Known'
    <2>1. UNCHANGED <<powered, registered>>
          /\ (UNCHANGED signalled \/ signalled' = [signalled EXCEPT !.lockdown = TRUE])
        BY <1>5 DEF Disconnect, power
    <2> QED
        BY <2>1, Told
<1>6. ASSUME set_powered_timeout PROVE Known'
    <2>1. UNCHANGED registered /\ \/ UNCHANGED <<powered, signalled>>
                                  \/ powered' = FALSE /\ signalled' = SignalPowered(FALSE)
        BY <1>6 DEF set_powered_timeout
    <2> QED
        BY <2>1, Told
<1>7. ASSUME NEW value \in BOOLEAN, NEW mm, ofono_modem_set_powered(value, mm) PROVE Known'
    <2> DEFINE l == signalled.lockdown \/ lockdown
    <2>l. l \in BOOLEAN
        BY DEF Known, lockdown
    <2>1. SignalPowered(value).lockdown = signalled.lockdown
        BY DEF SignalPowered, Known
    <2>2. UNCHANGED registered
          /\ \/ UNCHANGED <<powered, signalled>>
             \/ powered' = value /\ signalled' = [SignalPowered(value) EXCEPT !.lockdown = l]
        BY <1>7, <2>1 DEF ofono_modem_set_powered
    <2> HIDE DEF l
    <2> QED
        BY <2>l, <2>2, Told
<1>8. ASSUME NEW ok \in BOOLEAN, online_cb(ok) \/ offline_cb(ok) \/ common_online_cb(ok)
      PROVE  Known'
    BY <1>8, <1>s DEF online_cb, offline_cb, common_online_cb, power
<1>9. ASSUME NEW result \in ResetResults, ofono_modem_reset(result) PROVE Known'
    <2> DEFINE l == signalled.lockdown \/ lockdown
    <2>l. l \in BOOLEAN
        BY DEF Known, lockdown
    <2>1. SignalPowered(FALSE).lockdown = signalled.lockdown
        BY DEF SignalPowered, Known
    <2>2. powered' = FALSE /\ UNCHANGED registered /\ registered
        BY <1>9 DEF ofono_modem_reset
    <2>3. IF powered THEN signalled' = [SignalPowered(FALSE) EXCEPT !.lockdown = l]
          ELSE UNCHANGED signalled
        BY <1>9, <2>1 DEF ofono_modem_reset
    <2> HIDE DEF l
    <2>4. CASE powered
        BY <2>l, <2>2, <2>3, <2>4, Told
    <2>5. CASE ~powered
        <3>1. powered = FALSE
            BY <2>5 DEF Known
        <3> QED
            BY <2>2, <2>3, <2>5, <3>1, <1>s
    <2> QED
        BY <2>4, <2>5
<1>10. ASSUME NEW sim \in DOMAIN SimMoves, SimChanges(sim) PROVE Known'
    BY <1>10, <1>s DEF SimChanges, power
<1>11. ASSUME NEW start \in BOOLEAN, EmergencyCall(start) PROVE Known'
    BY <1>11, <1>s DEF EmergencyCall, power
<1>12. ASSUME modem_unregister PROVE Known'
    <2>1. ~registered' /\ powered' \in BOOLEAN
        BY <1>12 DEF modem_unregister, Known, power
    <2>2. UNCHANGED signalled \/ signalled' = [signalled EXCEPT !.lockdown = FALSE]
        BY <1>12 DEF modem_unregister
    <2>3. signalled' \in [powered : BOOLEAN, lockdown : BOOLEAN]
        BY <2>2, Signals DEF Known
    <2> QED
        BY <2>1, <2>3 DEF Known, PoweredIsSignalled
<1>13. CASE DriverStep
    <2>1. ASSUME Hangup PROVE Known'
        <3>1. ofono_modem_set_powered(FALSE, Lost(m))
            BY <2>1 DEF Hangup
        <3> QED
            BY <3>1, <1>7
    <2> QED
        BY <1>7, <1>8, <1>9, <1>13, <2>1 DEF DriverStep, EnableDone, DisableDone, Reset
<1> QED
    BY <1>1, <1>2, <1>3, <1>4, <1>5, <1>6, <1>10, <1>11, <1>12, <1>13 DEF Next, ClientStep

\* Clients are told of every change of Powered, whoever caused it, as long as
\* no reset has the modem powered up at once (l.2150-2154).
THEOREM PoweredKnown ==
    ASSUME "ok" \notin ResetResults
    PROVE  Spec => []PoweredIsSignalled
<1>1. Init => Known
    <2>1. /\ [powered |-> FALSE, lockdown |-> FALSE] \in [powered : BOOLEAN, lockdown : BOOLEAN]
          /\ [powered |-> FALSE, lockdown |-> FALSE].powered = FALSE
        OBVIOUS
    <2> QED
        BY <2>1, Zenon DEF Init, Known, PoweredIsSignalled
<1>2. Known /\ [Next]_vars => Known'
    BY KnownKept
<1>3. Known => PoweredIsSignalled
    BY DEF Known
<1> QED
    BY <1>1, <1>2, <1>3, PTL DEF Spec

-----------------------------------------------------------------------------
(* What is left of a modem that was unregistered.                          *)

Gone ==
    registered = FALSE => /\ m.state = POWER_OFF /\ m.ops = {}
                          /\ timeout = FALSE /\ lock_owner = NoClient

\* modem_unregister leaves nothing, whatever the modem was doing.
LEMMA Unregistering ==
    ASSUME IInv, modem_unregister
    PROVE  /\ m'.state = POWER_OFF /\ m'.ops = {}
           /\ timeout' = FALSE /\ lock_owner' = NoClient
<1>1. timeout' = FALSE /\ lock_owner' = NoClient
    BY DEF modem_unregister
<1>2. {} \in SUBSET {"online", "offline", "silent"}
    OBVIOUS
<1> DEFINE off == modem_change_state(m, POWER_OFF)
<1>3. Sound(off) /\ off.state = POWER_OFF
    <2>1. off \in MayCancel(off, FALSE)
        BY DEF MayCancel
    <2> HIDE DEF off
    <2> QED
        BY <2>1, Unpowered DEF off
<1>4. \/ m' = [off EXCEPT !.ops = {}]
      \/ m.state = POWER_OFF /\ m' = [m EXCEPT !.ops = {}]
    BY DEF modem_unregister, Prepared, IInv, PowerFits, OthersOK
<1> HIDE DEF off
<1>5. ASSUME NEW mm, Sound(mm), mm.state = POWER_OFF
      PROVE  [mm EXCEPT !.ops = {}].state = POWER_OFF /\ [mm EXCEPT !.ops = {}].ops = {}
    BY <1>5 DEF Sound, Modems
<1> QED
    BY <1>1, <1>3, <1>4, <1>5 DEF IInv

LEMMA GoneStep ==
    ASSUME IInv, Gone, [Next]_vars
    PROVE  Gone'
<1>1. CASE UNCHANGED vars
    BY <1>1 DEF Gone, vars, request
<1>2. CASE modem_unregister
    BY <1>2, Unregistering DEF Gone
<1>3. ASSUME registered' = registered,
             registered = TRUE \/ UNCHANGED <<m, timeout, lock_owner>>
      PROVE  Gone'
    BY <1>3 DEF Gone
<1>4. registered \in BOOLEAN
    BY DEF IInv, OthersOK
<1>5. registered = FALSE => m.ops = {} /\ timeout = FALSE
    BY DEF Gone
<1>6. ASSUME NEW c \in Clients, NEW value \in BOOLEAN,
             SetPowered(c, value) \/ set_property_online(c, value)
             \/ set_property_lockdown(c, value)
      PROVE  Gone'
    <2>1. registered = TRUE
        BY <1>4, <1>6 DEF SetPowered, set_property_online, set_property_lockdown
    <2>2. registered' = registered
        BY <1>6 DEF SetPowered, set_property_online, set_property_lockdown, Answer
    <2> QED
        BY <2>1, <2>2, <1>3
<1>7. ASSUME NEW c \in Clients, Disconnect(c) PROVE Gone'
    <2>1. UNCHANGED <<m, timeout, registered>> /\ (~registered => lock_owner' = lock_owner)
        BY <1>7 DEF Disconnect, request
    <2> QED
        BY <1>3, <1>4, <2>1
<1>8. ASSUME NEW value, NEW mm, ofono_modem_set_powered(value, mm) PROVE Gone'
    BY <1>3, <1>4, <1>8 DEF ofono_modem_set_powered
<1>9. CASE DriverStep
    <2>1. ASSUME NEW ok \in BOOLEAN, online_cb(ok) \/ offline_cb(ok) \/ common_online_cb(ok)
          PROVE  Gone'
        <3>1. registered = TRUE
            BY <1>4, <1>5, <2>1 DEF online_cb, offline_cb, common_online_cb
        <3>2. registered' = registered
            BY <2>1 DEF online_cb, offline_cb, common_online_cb
        <3> QED
            BY <1>3, <3>1, <3>2
    <2>2. ASSUME NEW result, ofono_modem_reset(result) PROVE Gone'
        BY <1>3, <1>4, <2>2 DEF ofono_modem_reset
    <2> QED
        BY <1>8, <1>9, <2>1, <2>2 DEF DriverStep, EnableDone, DisableDone, Hangup, Reset
<1>10. CASE set_powered_timeout
    <2>1. registered = TRUE /\ registered' = registered
        BY <1>4, <1>5, <1>10 DEF set_powered_timeout
    <2> QED
        BY <1>3, <2>1
<1>11. ASSUME NEW sim \in DOMAIN SimMoves, SimChanges(sim) PROVE Gone'
    BY <1>3, <1>4, <1>11 DEF SimChanges
<1>12. ASSUME NEW start \in BOOLEAN, EmergencyCall(start) PROVE Gone'
    BY <1>3, <1>4, <1>12 DEF EmergencyCall
<1> QED
    BY <1>1, <1>2, <1>6, <1>7, <1>9, <1>10, <1>11, <1>12 DEF Next, ClientStep

\* Whatever a modem was doing when it was unregistered (a request waiting, a
\* timer, set_online commands, the lock held), nothing of it is left, and what
\* comes late brings nothing back.
THEOREM NothingLeft ==
    ASSUME "fail" \notin ResetResults
    PROVE  Spec => []UnregisteredIsClean
<1>1. Init => Gone
    BY DEF Init, Gone
<1>2. IInv /\ Gone /\ [Next]_vars => Gone'
    BY GoneStep
<1>3. IInv /\ Gone => UnregisteredIsClean
    <2> SUFFICES ASSUME IInv, Gone, ~registered PROVE UnregisteredIsClean
        BY DEF UnregisteredIsClean
    <2>1. registered = FALSE
        BY DEF IInv, OthersOK
    <2>2. /\ m.state = POWER_OFF /\ timeout = FALSE /\ lock_owner = NoClient
        BY <2>1 DEF Gone
    <2>3. \A l \in PRE_SIM .. ONLINE : m.atoms[l] = 0
        BY <2>2 DEF IInv, Sound, POWER_OFF, PRE_SIM, ONLINE
    <2> QED
        BY <2>2, <2>3 DEF UnregisteredIsClean, lockdown
<1> QED
    BY <1>1, <1>2, <1>3, Invariance, PTL DEF Spec

-----------------------------------------------------------------------------
(* The request that waits, in a modem whose driver neither resets it nor   *)
(* loses commands when the device goes away.                               *)

OpsOf(mm) == mm.ops \cap {"online", "offline"}

\* The state functions leave the commands of the clients' requests alone.
LEMMA ChangeOps ==
    ASSUME NEW mm, Sound(mm), NEW new \in POWER_OFF .. ONLINE
    PROVE  modem_change_state(mm, new).ops = mm.ops
BY DEF modem_change_state, Sound, Modems

LEMMA FieldOps ==
    ASSUME NEW mm, Sound(mm)
    PROVE  /\ SetOnline(mm).ops = mm.ops /\ SetOffline(mm).ops = mm.ops
           /\ Forget(mm).ops = mm.ops
BY DEF SetOnline, SetOffline, Forget, Sound, Modems

LEMMA SimReadyOps ==
    ASSUME NEW mm, Sound(mm), mm.state >= PRE_SIM
    PROVE  OpsOf(sim_ready(mm)) = OpsOf(mm)
<1> DEFINE offline == modem_change_state(mm, OFFLINE)
           raised == IF AlwaysOnline THEN SetOnline(offline) ELSE offline
           silent == [raised EXCEPT !.ops = raised.ops \cup {"silent"}]
           done == IF raised.online THEN modem_change_state(raised, ONLINE)
                   ELSE IF raised.get_online THEN silent ELSE raised
<1> USE DEF POWER_OFF, PRE_SIM, OFFLINE, ONLINE
<1>1. Sound(offline) /\ offline.state = OFFLINE /\ offline.ops = mm.ops
    <2>1. mm.state \in 0 .. 3
        BY DEF Sound, Modems
    <2> QED
        BY <2>1, ChangeState, ChangeOps
<1>2. Sound(raised) /\ raised.state = OFFLINE /\ raised.ops = mm.ops
    <2> HIDE DEF offline
    <2> QED
        BY <1>1, OtherFields, FieldOps
<1> HIDE DEF raised
<1>3. Sound(silent) /\ OpsOf(silent) = OpsOf(mm)
    <2>1. raised.ops \cup {"silent"} \in SUBSET {"online", "offline", "silent"}
        BY <1>2, Fields
    <2>2. silent.ops = raised.ops \cup {"silent"}
        BY <1>2 DEF Sound, Modems
    <2> HIDE DEF silent
    <2>3. OpsOf(silent) = OpsOf(mm)
        BY <1>2, <2>2 DEF OpsOf
    <2> USE DEF silent
    <2> QED
        BY <1>2, <2>1, <2>3, Commands
<1>4. Sound(modem_change_state(raised, ONLINE))
      /\ OpsOf(modem_change_state(raised, ONLINE)) = OpsOf(mm)
    <2>1. Sound(modem_change_state(raised, ONLINE))
        BY <1>2, ChangeState
    <2>2. modem_change_state(raised, ONLINE).ops = mm.ops
        BY <1>2, ChangeOps
    <2> QED
        BY <2>1, <2>2 DEF OpsOf
<1>5. Sound(done) /\ OpsOf(done) = OpsOf(mm)
    <2> HIDE DEF silent
    <2>1. OpsOf(raised) = OpsOf(mm)
        BY <1>2 DEF OpsOf
    <2> QED
        BY <1>2, <1>3, <1>4, <2>1
<1>6. sim_ready(mm) = Forget(done)
    BY DEF sim_ready, raised
<1> HIDE DEF done
<1> QED
    BY <1>5, <1>6, FieldOps DEF OpsOf

LEMMA PoweringOps ==
    ASSUME NEW mm, Sound(mm), NEW value \in BOOLEAN,
           value => mm.state = POWER_OFF
    PROVE  OpsOf(Powering(mm, value)) = OpsOf(mm)
<1> USE DEF POWER_OFF, PRE_SIM, OFFLINE, ONLINE
<1>1. CASE value = TRUE
    <2> DEFINE up == modem_change_state(mm, PRE_SIM)
    <2>1. Sound(up) /\ up.state = PRE_SIM /\ up.ops = mm.ops
        BY <1>1, ChangeState, ChangeOps
    <2>2. Powering(mm, value) = IF modem_has_sim(up) THEN up ELSE sim_ready(up)
        BY <1>1 DEF Powering, PoweredUp
    <2> HIDE DEF up
    <2>3. OpsOf(sim_ready(up)) = OpsOf(up) /\ OpsOf(up) = OpsOf(mm)
        BY <2>1, SimReadyOps DEF OpsOf
    <2> QED
        BY <2>2, <2>3
<1>2. CASE value = FALSE
    <2>1. Sound(SetOffline(mm)) /\ SetOffline(mm).ops = mm.ops
        BY OtherFields, FieldOps
    <2>2. Powering(mm, value) = modem_change_state(SetOffline(mm), POWER_OFF)
        BY <1>2 DEF Powering, PoweredDown
    <2> QED
        BY <2>1, <2>2, ChangeOps DEF OpsOf
<1> QED
    BY <1>1, <1>2

LEMMA OnlineOps ==
    ASSUME NEW mm, Sound(mm)
    PROVE  OpsOf(CommonOnline(mm)) = OpsOf(mm) /\ OpsOf(CommonOffline(mm)) = OpsOf(mm)
<1> USE DEF POWER_OFF, PRE_SIM, OFFLINE, ONLINE
<1>1. /\ Sound(SetOnline(mm)) /\ SetOnline(mm).ops = mm.ops
      /\ Sound(SetOffline(mm)) /\ SetOffline(mm).ops = mm.ops
    BY OtherFields, FieldOps
<1>2. /\ modem_change_state(SetOnline(mm), ONLINE).ops = mm.ops
      /\ modem_change_state(SetOffline(mm), OFFLINE).ops = mm.ops
    BY <1>1, ChangeOps
<1> QED
    BY <1>1, <1>2 DEF CommonOnline, CommonOffline, OpsOf

\* The command a request asks the driver for.
Asked(req) ==
    IF req.prop # "Online" THEN {} ELSE IF req.value = TRUE THEN {"online"} ELSE {"offline"}

\* The timer runs exactly for Powered and Lockdown, which is also when the
\* power is on its way; the driver has exactly the command of the request.
Waits ==
    /\ pending.prop = "None" <=> pending = NoRequest
    /\ timeout = TRUE <=> pending.prop \in {"Powered", "Lockdown"}
    /\ registered = TRUE => (powered_pending # powered <=> timeout = TRUE)
    /\ registered = FALSE => pending = NoRequest
    /\ OpsOf(m) = Asked(pending)

LEMMA AskedOf ==
    /\ NoRequest.prop = "None" /\ Asked(NoRequest) = {}
    /\ \A c, value, prop :
           /\ Request(c, prop, value).prop = prop /\ Request(c, prop, value).value = value
           /\ prop # "None" => Request(c, prop, value) # NoRequest
           /\ prop # "Online" => Asked(Request(c, prop, value)) = {}
BY DEF NoRequest, Request, Asked

\* No request: nothing waits.
LEMMA Idle ==
    ASSUME Waits, pending = NoRequest
    PROVE  /\ timeout # TRUE /\ OpsOf(m) = {}
           /\ registered = TRUE => powered_pending = powered
BY AskedOf DEF Waits

\* A step that leaves the request alone.
LEMMA Unasked ==
    ASSUME Waits, UNCHANGED <<pending, timeout, power, registered>>, OpsOf(m') = OpsOf(m)
    PROVE  Waits'
BY DEF Waits, power

\* A step that ends it.
LEMMA Ended ==
    ASSUME Waits, pending' = NoRequest, timeout' = FALSE, OpsOf(m') = {},
           registered' = TRUE => powered_pending' = powered'
    PROVE  Waits'
BY AskedOf DEF Waits

\* A step that lets a new one wait for the power.
LEMMA Started ==
    ASSUME Waits, NEW c, NEW value, NEW prop \in {"Powered", "Lockdown"},
           pending' = Request(c, prop, value), timeout' = TRUE, OpsOf(m') = {},
           registered' = TRUE, powered_pending' # powered'
    PROVE  Waits'
<1>1. pending'.prop = prop /\ pending' # NoRequest /\ Asked(pending') = {}
    BY AskedOf
<1> QED
    BY <1>1 DEF Waits

\* driver->disable can only take commands away.
LEMMA CancelOps ==
    ASSUME IInv, OpsOf(m) = {},
           NEW mm \in MayCancel(modem_change_state(m, POWER_OFF), FALSE)
    PROVE  Sound(mm) /\ mm.state = POWER_OFF /\ OpsOf(mm) = {}
           /\ Sound(SetOffline(mm)) /\ OpsOf(SetOffline(mm)) = {}
<1> DEFINE off == modem_change_state(m, POWER_OFF)
<1>1. Sound(mm) /\ mm.state = POWER_OFF
    BY Unpowered
<1>2. off.ops = m.ops
    BY ChangeOps DEF IInv, POWER_OFF, ONLINE
<1>3. Sound(off)
    <2>1. off \in MayCancel(off, FALSE)
        BY DEF MayCancel
    <2> HIDE DEF off
    <2> QED
        BY <2>1, Unpowered DEF off
<1>4. mm = off \/ mm = [off EXCEPT !.ops = {}]
    BY DEF MayCancel
<1> HIDE DEF off
<1>5. [off EXCEPT !.ops = {}].ops = {}
    BY <1>3 DEF Sound, Modems
<1>6. OpsOf(mm) = {}
    BY <1>2, <1>4, <1>5 DEF OpsOf
<1> QED
    BY <1>1, <1>6, OtherFields, FieldOps DEF OpsOf

LEMMA SetPoweredWaits ==
    ASSUME IInv, Waits, NEW c \in Clients, NEW value \in BOOLEAN, SetPowered(c, value)
    PROVE  Waits'
<1>1. CASE PoweredRefusal(value) # "none"
    <2>1. UNCHANGED <<m, pending, timeout, power, registered>>
        BY <1>1 DEF SetPowered, Answer, request
    <2> QED
        BY <2>1, Unasked
<1>2. CASE PoweredRefusal(value) = "none"
    <2>1. pending = NoRequest /\ powered # value
        BY <1>2 DEF PoweredRefusal
    <2>2. registered = TRUE /\ registered' = TRUE
        BY <1>2 DEF SetPowered, Answer, IInv, OthersOK
    <2>3. timeout = FALSE /\ OpsOf(m) = {} /\ powered_pending = powered
        BY <2>1, <2>2, Idle DEF IInv, OthersOK
    <2>4. PICK result \in DriverResults(value), mm \in MayCancel(Prepared(value), value) :
             \/ /\ m' = mm /\ powered_pending' = value
                /\ Wait(Request(c, "Powered", value))
                /\ UNCHANGED <<powered, signalled>>
             \/ m' = mm /\ UNCHANGED <<power, request, signalled>>
             \/ /\ m' = Powering(mm, value)
                /\ powered' = value /\ powered_pending' = value
                /\ UNCHANGED request
        BY <1>2, Zenon DEF SetPowered
    <2>5. Sound(mm) /\ OpsOf(mm) = {} /\ mm.state = POWER_OFF
        <3>1. CASE value = TRUE
            <4>1. mm = m
                BY <3>1 DEF MayCancel, Prepared
            <4>2. powered # TRUE
                BY <2>1, <3>1
            <4> QED
                BY <2>3, <4>1, <4>2 DEF IInv, PowerFits
        <3>2. CASE value = FALSE
            <4>1. mm \in MayCancel(modem_change_state(m, POWER_OFF), FALSE)
                BY <2>4, <3>2 DEF Prepared
            <4> QED
                BY <2>3, <4>1, CancelOps
        <3> QED
            BY <3>1, <3>2
    <2>6. OpsOf(Powering(mm, value)) = {}
        BY <2>5, PoweringOps
    <2>7. OpsOf(m') = {}
        BY <2>4, <2>5, <2>6
    <2>8. CASE /\ powered_pending' = value
               /\ pending' = Request(c, "Powered", value) /\ timeout' = TRUE
               /\ UNCHANGED powered
        <3>1. powered_pending' # powered'
            BY <2>1, <2>8
        <3> QED
            BY <2>2, <2>7, <2>8, <3>1, Started
    <2>9. CASE /\ UNCHANGED <<pending, timeout>>
               /\ UNCHANGED power \/ (powered' = value /\ powered_pending' = value)
        <3>1. pending' = NoRequest /\ timeout' = FALSE
            BY <2>1, <2>3, <2>9
        <3>2. powered_pending' = powered'
            BY <2>3, <2>9 DEF power
        <3> QED
            BY <2>7, <3>1, <3>2, Ended
    <2> QED
        BY <2>4, <2>8, <2>9 DEF Wait, power, request
<1> QED
    BY <1>1, <1>2

LEMMA LockdownWaits ==
    ASSUME IInv, Waits, NEW c \in Clients, NEW value \in BOOLEAN,
           set_property_lockdown(c, value)
    PROVE  Waits'
<1>1. CASE UNCHANGED <<m, pending, timeout, power, registered>>
    BY <1>1, Unasked
<1>2. CASE LockdownRefusal(c, value) = "none" /\ value /\ powered /\ powered_pending
    <2>1. pending = NoRequest
        BY <1>2 DEF LockdownRefusal
    <2>2. registered = TRUE /\ registered' = TRUE /\ powered = TRUE
        BY <1>2 DEF set_property_lockdown, Answer, IInv, OthersOK
    <2>3. timeout = FALSE /\ OpsOf(m) = {} /\ powered_pending = powered
        BY <2>1, <2>2, Idle DEF IInv, OthersOK
    <2>4. PICK result \in DisableResults, mm \in MayCancel(Prepared(FALSE), FALSE) :
             \/ /\ m' = mm /\ powered_pending' = FALSE
                /\ Wait(Request(c, "Lockdown", value))
                /\ UNCHANGED <<powered, signalled>>
             \/ m' = mm /\ UNCHANGED <<power, request, lock_owner, signalled>>
             \/ /\ m' = SetOffline(mm)
                /\ powered' = FALSE /\ powered_pending' = FALSE
                /\ UNCHANGED request
        BY <1>2, Zenon DEF set_property_lockdown
    <2>5. OpsOf(m') = {}
        <3>1. mm \in MayCancel(modem_change_state(m, POWER_OFF), FALSE)
            BY <2>4 DEF Prepared
        <3> QED
            BY <2>3, <2>4, <3>1, CancelOps
    <2>6. CASE /\ powered_pending' = FALSE
               /\ pending' = Request(c, "Lockdown", value) /\ timeout' = TRUE
               /\ UNCHANGED powered
        <3>1. powered_pending' # powered'
            BY <2>2, <2>6
        <3> QED
            BY <2>2, <2>5, <2>6, <3>1, Started
    <2>7. CASE /\ UNCHANGED <<pending, timeout>>
               /\ UNCHANGED power \/ (powered' = FALSE /\ powered_pending' = FALSE)
        <3>1. pending' = NoRequest /\ timeout' = FALSE
            BY <2>1, <2>3, <2>7
        <3>2. powered_pending' = powered'
            <4>1. CASE UNCHANGED <<powered, powered_pending>>
                BY <2>3, <4>1
            <4>2. CASE powered' = FALSE /\ powered_pending' = FALSE
                BY <4>2
            <4> QED
                BY <2>7, <4>1, <4>2 DEF power
        <3> QED
            BY <2>5, <3>1, <3>2, Ended
    <2> QED
        BY <2>4, <2>6, <2>7 DEF Wait, power, request
<1>3. \/ UNCHANGED <<m, pending, timeout, power, registered>>
      \/ LockdownRefusal(c, value) = "none" /\ value /\ powered /\ powered_pending
    BY Zenon DEF set_property_lockdown, Answer, request
<1> QED
    BY <1>1, <1>2, <1>3

LEMMA OnlineWaits ==
    ASSUME IInv, Waits, NEW c \in Clients, NEW value \in BOOLEAN,
           set_property_online(c, value)
    PROVE  Waits'
<1>1. CASE OnlineRefusal(value) # "none"
    <2>1. UNCHANGED <<m, pending, timeout, power, registered>>
        BY <1>1 DEF set_property_online, Answer, request
    <2> QED
        BY <2>1, Unasked
<1>2. CASE OnlineRefusal(value) = "none"
    <2> DEFINE op == IF value THEN "online" ELSE "offline"
    <2>1. pending = NoRequest
        BY <1>2 DEF OnlineRefusal
    <2>2. registered = TRUE
        BY DEF set_property_online, IInv, OthersOK
    <2>3. timeout # TRUE /\ OpsOf(m) = {} /\ powered_pending = powered
        BY <2>1, <2>2, Idle
    <2>4. /\ pending' = Request(c, "Online", value) /\ m' = [m EXCEPT !.ops = m.ops \cup {op}]
          /\ UNCHANGED <<power, timeout, registered>>
        BY <1>2 DEF set_property_online
    <2>5. m'.ops = m.ops \cup {op}
        BY <2>4 DEF IInv, Sound, Modems
    <2>6. OpsOf(m') = {op}
        BY <2>3, <2>5 DEF OpsOf
    <2>7. /\ pending'.prop = "Online" /\ pending'.value = value /\ pending' # NoRequest
        BY <2>4, AskedOf
    <2>8. Asked(pending') = {op}
        BY <2>7 DEF Asked
    <2> HIDE DEF op
    <2> QED
        BY <2>2, <2>3, <2>4, <2>6, <2>7, <2>8 DEF Waits, power
<1> QED
    BY <1>1, <1>2

LEMMA TimeoutWaits ==
    ASSUME IInv, Waits, set_powered_timeout
    PROVE  Waits'
<1>1. timeout = TRUE
    BY DEF set_powered_timeout, IInv, OthersOK
<1>2. pending # NoRequest /\ OpsOf(m) = {}
    BY <1>1, AskedOf DEF Waits, Asked
<1>3. pending' = NoRequest /\ timeout' = FALSE
    BY <1>2 DEF set_powered_timeout
<1>4. powered_pending' = powered'
    <2>1. CASE powered_pending = FALSE
        BY <2>1 DEF set_powered_timeout
    <2>2. CASE powered_pending # FALSE
        BY <2>2 DEF set_powered_timeout
    <2> QED
        BY <2>1, <2>2
<1>5. OpsOf(m') = {}
    BY <1>2, FieldOps DEF set_powered_timeout, OpsOf, IInv
<1> QED
    BY <1>3, <1>4, <1>5, Ended

\* The driver's word on the power ends a request that waits for it, and leaves
\* one for Online alone.
LEMMA DriverWaits ==
    ASSUME IInv, Waits, NEW value \in BOOLEAN, ofono_modem_set_powered(value, m)
    PROVE  Waits'
<1>1. /\ registered = TRUE /\ registered' = TRUE /\ timeout' = FALSE
      /\ powered' = value /\ powered_pending' = value
    BY DEF ofono_modem_set_powered, IInv, OthersOK
<1>2. OpsOf(m') = OpsOf(m)
    <2>1. CASE powered = value
        BY <2>1 DEF ofono_modem_set_powered
    <2>2. CASE powered # value
        <3>1. value => m.state = POWER_OFF
            BY <2>2 DEF IInv, PowerFits
        <3>2. m' = Powering(m, value)
            BY <2>2 DEF ofono_modem_set_powered
        <3> QED
            BY <3>1, <3>2, PoweringOps DEF IInv
    <2> QED
        BY <2>1, <2>2
<1>3. CASE timeout = TRUE
    <2>1. pending # NoRequest /\ OpsOf(m) = {} /\ powered_pending # powered
        BY <1>1, <1>3, AskedOf DEF Waits, Asked
    <2>2. pending' = NoRequest
        BY <2>1 DEF ofono_modem_set_powered
    <2> QED
        BY <1>1, <1>2, <2>1, <2>2, Ended
<1>4. CASE timeout # TRUE
    <2>1. powered_pending = powered
        BY <1>1, <1>4 DEF Waits
    <2>2. pending' = pending
        BY <2>1 DEF ofono_modem_set_powered
    <2> QED
        BY <1>1, <1>2, <1>4, <2>2 DEF Waits
<1> QED
    BY <1>3, <1>4

\* A command that is answered was the request's.
LEMMA OwnCommand ==
    ASSUME IInv, Waits, NEW op \in {"online", "offline"}, op \in m.ops
    PROVE  /\ pending.prop = "Online" /\ pending.value = (op = "online")
           /\ OpsOf(m) = {op} /\ pending # NoRequest
<1>1. op \in OpsOf(m)
    BY DEF OpsOf
<1>2. op \in Asked(pending) /\ pending.value \in BOOLEAN
    BY <1>1 DEF Waits, IInv, OthersOK, Requests
<1>3. pending.prop = "Online" /\ pending.value = (op = "online")
    BY <1>2 DEF Asked
<1> QED
    BY <1>2, <1>3 DEF Waits, Asked

LEMMA CallbackWaits ==
    ASSUME IInv, Waits, NEW ok \in BOOLEAN, online_cb(ok) \/ offline_cb(ok)
    PROVE  Waits'
<1>1. PICK op \in {"online", "offline"} :
         /\ op \in m.ops
         /\ LET mm == [m EXCEPT !.ops = m.ops \ {op}]
            IN  m' \in {mm, CommonOnline(mm), CommonOffline(mm)}
    BY DEF online_cb, offline_cb
<1> DEFINE mm == [m EXCEPT !.ops = m.ops \ {op}]
<1>2. /\ pending' = NoRequest /\ UNCHANGED <<power, timeout, registered>>
    BY DEF online_cb, offline_cb
<1>3. OpsOf(m) = {op} /\ pending # NoRequest /\ pending.prop = "Online"
    BY <1>1, OwnCommand
<1>4. timeout = FALSE /\ registered = TRUE /\ powered_pending = powered
    BY <1>3 DEF Waits, IInv, OthersOK
<1>5. Sound(mm) /\ OpsOf(mm) = {}
    <2>1. m.ops \ {op} \in SUBSET {"online", "offline", "silent"}
        BY Fields DEF IInv
    <2>2. mm.ops = m.ops \ {op}
        BY DEF IInv, Sound, Modems
    <2>3. Sound(mm)
        BY <2>1, Commands DEF IInv
    <2> HIDE DEF mm
    <2> QED
        BY <1>3, <2>2, <2>3 DEF OpsOf
<1>6. m' = mm \/ m' = CommonOnline(mm) \/ m' = CommonOffline(mm)
    BY <1>1
<1> HIDE DEF mm
<1>7. OpsOf(m') = {}
    BY <1>5, <1>6, OnlineOps
<1> QED
    BY <1>2, <1>4, <1>7, Ended DEF power

\* SIM and silent set_online touch no command of a request.
LEMMA OtherWaits ==
    ASSUME IInv, Waits,
           (\E sim \in DOMAIN SimMoves : SimChanges(sim))
           \/ (\E ok \in BOOLEAN : common_online_cb(ok))
    PROVE  Waits'
<1>1. ASSUME NEW sim \in DOMAIN SimMoves, SimChanges(sim) PROVE Waits'
    <2> DEFINE mm == [m EXCEPT !.sim = sim]
    <2>1. /\ UNCHANGED <<pending, timeout, power, registered>>
          /\ \/ m' = modem_change_state(mm, PRE_SIM) \/ m' = sim_ready(mm) \/ m' = mm
        BY <1>1 DEF SimChanges, sim_state_watch, request
    <2>2. Sound(mm) /\ mm.state >= PRE_SIM /\ mm.ops = m.ops
        BY <1>1 DEF SimChanges, Sound, Modems, IInv, POWER_OFF, PRE_SIM, ONLINE
    <2> HIDE DEF mm
    <2>3. OpsOf(sim_ready(mm)) = OpsOf(m)
        BY <2>2, SimReadyOps DEF OpsOf
    <2>4. modem_change_state(mm, PRE_SIM).ops = m.ops
        BY <2>2, ChangeOps DEF POWER_OFF, PRE_SIM, ONLINE
    <2> QED
        BY <2>1, <2>2, <2>3, <2>4, Unasked DEF OpsOf
<1>2. ASSUME NEW ok \in BOOLEAN, common_online_cb(ok) PROVE Waits'
    <2> DEFINE mm == [m EXCEPT !.ops = m.ops \ {"silent"}]
    <2>1. /\ UNCHANGED <<pending, timeout, power, registered>>
          /\ m' = CommonOnline(mm) \/ m' = mm
        BY <1>2 DEF common_online_cb, request
    <2>2. m.ops \ {"silent"} \in SUBSET {"online", "offline", "silent"}
        BY Fields DEF IInv
    <2>3. Sound(mm) /\ mm.ops = m.ops \ {"silent"}
        BY <2>2, Commands DEF IInv, Sound, Modems
    <2> HIDE DEF mm
    <2>4. OpsOf(CommonOnline(mm)) = OpsOf(mm) /\ OpsOf(mm) = OpsOf(m)
        BY <2>3, OnlineOps DEF OpsOf
    <2> QED
        BY <2>1, <2>4, Unasked
<1> QED
    BY <1>1, <1>2

LEMMA WaitsKept ==
    ASSUME ResetResults = {}, HangupLosesCommands = FALSE, IInv, Waits, [Next]_vars
    PROVE  Waits'
<1>1. CASE UNCHANGED vars
    BY <1>1, Unasked DEF vars, power, request
<1>2. ASSUME UNCHANGED <<m, pending, timeout, power, registered>> PROVE Waits'
    BY <1>2, Unasked
<1>3. ASSUME NEW c \in Clients, Disconnect(c) PROVE Waits'
    BY <1>2, <1>3 DEF Disconnect, request
<1>4. ASSUME NEW start \in BOOLEAN, EmergencyCall(start) PROVE Waits'
    BY <1>2, <1>4 DEF EmergencyCall, request
<1>5. ASSUME modem_unregister PROVE Waits'
    <2>1. m'.ops = {}
        BY <1>5, Unregistering
    <2>2. pending' = NoRequest /\ timeout' = FALSE /\ registered' = FALSE
        BY <1>5 DEF modem_unregister
    <2> QED
        BY <2>1, <2>2, Ended DEF OpsOf
<1>6. CASE DriverStep
    <2>1. Lost(m) = m
        BY DEF Lost
    <2>2. ~Reset
        BY DEF Reset
    <2>3. ASSUME NEW value \in BOOLEAN, ofono_modem_set_powered(value, m) PROVE Waits'
        BY <2>3, DriverWaits
    <2>4. ASSUME Hangup PROVE Waits'
        BY <2>1, <2>3, <2>4 DEF Hangup
    <2> QED
        BY <1>6, <2>2, <2>3, <2>4, CallbackWaits, OtherWaits
        DEF DriverStep, EnableDone, DisableDone
<1> QED
    BY <1>1, <1>3, <1>4, <1>5, <1>6, SetPoweredWaits, OnlineWaits, LockdownWaits,
       TimeoutWaits, OtherWaits
    DEF Next, ClientStep

LEMMA WaitsInvariance ==
    ASSUME ResetResults = {}, HangupLosesCommands = FALSE
    PROVE  Spec => [](IInv /\ Waits)
<1>1. Init => Waits
    <2>1. Init => OpsOf(m) = {}
        BY DEF Init, OpsOf, Fresh
    <2> QED
        BY <2>1, AskedOf DEF Init, Waits
<1>2. IInv /\ Waits /\ [Next]_vars => Waits'
    BY WaitsKept
<1>3. Spec => []IInv
    BY Invariance
<1> QED
    BY <1>1, <1>2, <1>3, PTL DEF Spec

\* A client that waits has somebody who will answer it: the timer, or the
\* driver that holds its command; neither resets the driver makes nor commands
\* it loses come in between.
THEOREM SomebodyWillAnswer ==
    ASSUME ResetResults = {}, HangupLosesCommands = FALSE
    PROVE  Spec => []PendingWillBeAnswered
<1>1. IInv /\ Waits => PendingWillBeAnswered
    <2> SUFFICES ASSUME IInv, Waits PROVE PendingWillBeAnswered
        OBVIOUS
    <2>1. timeout \in BOOLEAN /\ pending.value \in BOOLEAN
        BY DEF IInv, OthersOK, Requests
    <2>2. ASSUME pending.prop = "Online"
          PROVE  (IF pending.value THEN "online" ELSE "offline") \in m.ops
        <3>1. OpsOf(m) = {IF pending.value THEN "online" ELSE "offline"}
            BY <2>1, <2>2 DEF Waits, Asked
        <3> QED
            BY <3>1 DEF OpsOf
    <2>3. timeout <=> pending.prop \in {"Powered", "Lockdown"}
        BY <2>1 DEF Waits
    <2> QED
        BY <2>2, <2>3 DEF PendingWillBeAnswered
<1> QED
    BY <1>1, WaitsInvariance, PTL

\* In such a modem the callbacks of set_online answer the request that asked
\* for them: offline_cb may take it for granted that there is one (l.628-698).
THEOREM OwnAnswers ==
    ASSUME ResetResults = {}, HangupLosesCommands = FALSE
    PROVE  Spec => []CallbacksAnswerTheirOwn
<1>1. Init => CallbacksAnswerTheirOwn
    BY ReplyBy DEF Init, CallbacksAnswerTheirOwn
<1>2. ASSUME IInv, Waits, CallbacksAnswerTheirOwn, [Next]_vars
      PROVE  CallbacksAnswerTheirOwn'
    <2>1. ASSUME reply'.by \notin {"online_cb", "offline_cb"}
          PROVE  CallbacksAnswerTheirOwn'
        BY <2>1 DEF CallbacksAnswerTheirOwn
    <2>2. ASSUME reply' = NoReply PROVE CallbacksAnswerTheirOwn'
        BY <2>1, <2>2, ReplyBy
    <2>3. ASSUME UNCHANGED reply PROVE CallbacksAnswerTheirOwn'
        BY <1>2, <2>3 DEF CallbacksAnswerTheirOwn
    <2>4. ASSUME NEW ok \in BOOLEAN, online_cb(ok) PROVE CallbacksAnswerTheirOwn'
        <3>1. "online" \in m.ops
            BY <2>4 DEF online_cb
        <3>2. pending.prop = "Online" /\ pending.value = TRUE /\ pending # NoRequest
            BY <1>2, <3>1, OwnCommand
        <3>3. reply'.by = "online_cb" /\ reply'.req = pending
            BY <2>4, <3>2, ReplyBy DEF online_cb
        <3> QED
            BY <3>2, <3>3 DEF CallbacksAnswerTheirOwn
    <2>5. ASSUME NEW ok \in BOOLEAN, offline_cb(ok) PROVE CallbacksAnswerTheirOwn'
        <3>1. "offline" \in m.ops
            BY <2>5 DEF offline_cb
        <3>2. pending.prop = "Online" /\ pending.value = FALSE
            BY <1>2, <3>1, OwnCommand
        <3>3. reply'.by = "offline_cb" /\ reply'.req = pending
            BY <2>5, ReplyBy DEF offline_cb
        <3> QED
            BY <3>2, <3>3 DEF CallbacksAnswerTheirOwn
    <2>6. ASSUME NEW c \in Clients, NEW value \in BOOLEAN,
                 SetPowered(c, value) \/ set_property_online(c, value)
                 \/ set_property_lockdown(c, value)
          PROVE  CallbacksAnswerTheirOwn'
        <3>1. \/ reply' = NoReply
              \/ \E req, result : reply' = Reply(req, result, "SetProperty")
            BY <2>6 DEF SetPowered, set_property_online, set_property_lockdown, Answer
        <3> QED
            BY <2>1, <2>2, <3>1, ReplyBy
    <2>7. ASSUME NEW value, NEW mm, ofono_modem_set_powered(value, mm)
          PROVE  CallbacksAnswerTheirOwn'
        BY <2>1, <2>7, ReplyBy DEF ofono_modem_set_powered
    <2>8. ASSUME NEW result, ofono_modem_reset(result) PROVE CallbacksAnswerTheirOwn'
        BY <2>1, <2>8, ReplyBy DEF ofono_modem_reset
    <2>9. CASE set_powered_timeout
        BY <2>1, <2>9, ReplyBy DEF set_powered_timeout
    <2>10. CASE DriverStep
        <3>1. ASSUME NEW ok \in BOOLEAN, common_online_cb(ok) PROVE CallbacksAnswerTheirOwn'
            BY <2>2, <3>1 DEF common_online_cb
        <3> QED
            BY <2>4, <2>5, <2>7, <2>8, <2>10, <3>1
            DEF DriverStep, EnableDone, DisableDone, Hangup, Reset
    <2>11. ASSUME NEW c \in Clients, Disconnect(c) PROVE CallbacksAnswerTheirOwn'
        BY <2>2, <2>11 DEF Disconnect
    <2>12. ASSUME (\E sim \in DOMAIN SimMoves : SimChanges(sim))
                  \/ (\E start \in BOOLEAN : EmergencyCall(start)) \/ modem_unregister
           PROVE  CallbacksAnswerTheirOwn'
        BY <2>2, <2>12 DEF SimChanges, EmergencyCall, modem_unregister
    <2>13. CASE UNCHANGED vars
        BY <2>3, <2>13 DEF vars
    <2> QED
        BY <1>2, <2>6, <2>9, <2>10, <2>11, <2>12, <2>13 DEF Next, ClientStep
<1> QED
    BY <1>1, <1>2, WaitsInvariance, PTL DEF Spec
=============================================================================
