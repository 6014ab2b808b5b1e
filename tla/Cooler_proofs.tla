----------------------------- MODULE Cooler_proofs -----------------------------
(***************************************************************************)
(* The bounds of an outage, for every limit of a connection and every      *)
(* delay before an attempt.  The cooler as a whole behaves as its Wi-Fi    *)
(* life cycle allows, so what is proved of that life cycle holds of the    *)
(* cooler; and no restart leaves the fan running without a command.        *)
(***************************************************************************)
EXTENDS Cooler, TLAPS

\* The longest and the shortest time the attempts before the present one took.
Longest == (attempt - 1) * (RECONNECT_DELAY + CONNECT_LIMIT)
Shortest == (attempt - 1) * RECONNECT_DELAY

(***************************************************************************)
(* OutageBounded and PatientRestart speak of the end of an outage.  What   *)
(* makes them inductive is how long it has lasted at each attempt.         *)
(***************************************************************************)
WifiInv ==
  /\ WifiTypeOK
  /\ phase \in {"linked", "setup"} => outage = 0
  /\ phase = "delay" =>
       /\ outage <= Longest + timer
       /\ Shortest + timer <= outage
  /\ phase = "reconnect" =>
       /\ outage <= Longest + RECONNECT_DELAY + timer
       /\ Shortest + RECONNECT_DELAY <= outage
  /\ phase = "connect" =>
       /\ outage <= ATTEMPTS * (RECONNECT_DELAY + CONNECT_LIMIT) + timer
       /\ cause = "monitor" => ATTEMPTS * RECONNECT_DELAY <= outage

\* A boot that has just begun: what every restart leaves behind.
Fresh ==
  /\ phase \in {"connect", "setup"} /\ attempt = 0 /\ timer = 0
  /\ associated = FALSE /\ listening = FALSE
  /\ cause \in {"power", "monitor", "form"}
  /\ outage \in 0 .. ATTEMPTS * (RECONNECT_DELAY + CONNECT_LIMIT)
  /\ phase = "setup" => outage = 0
  /\ cause = "monitor" /\ phase = "connect" => ATTEMPTS * RECONNECT_DELAY <= outage

LEMMA FreshIsFine == Fresh => WifiInv
<1> SUFFICES ASSUME Fresh PROVE WifiInv
  OBVIOUS
<1> USE LimitAssumption DEF Fresh, ATTEMPTS, OUTAGE_LIMIT
<1>1. WifiTypeOK
  <2>1. Patience \in Nat
    BY DEF Patience
  <2>2. timer \in 0 .. Patience
    BY <2>1
  <2>3. outage \in 0 .. OUTAGE_LIMIT + 1
    OBVIOUS
  <2>. QED
    BY <2>2, <2>3 DEF WifiTypeOK, Phases, Station
<1>. QED
  BY <1>1 DEF WifiInv

\* The invariant holds when the power comes on.
LEMMA WifiInvInit == WifiInit => WifiInv
<1>1. WifiInit => Fresh
  BY LimitAssumption DEF WifiInit, Fresh, ATTEMPTS
<1>. QED
  BY <1>1, FreshIsFine

\* What a boot leaves behind, whoever asked for it.
LEMMA BootIsFresh ==
  ASSUME NEW configured \in BOOLEAN, Boot(configured),
         cause' \in {"power", "monitor", "form"},
         outage' \in 0 .. ATTEMPTS * (RECONNECT_DELAY + CONNECT_LIMIT),
         ~configured => outage' = 0,
         cause' = "monitor" /\ configured => ATTEMPTS * RECONNECT_DELAY <= outage'
  PROVE  WifiInv'
<1>1. Fresh'
  <2>1. CASE configured
    BY <2>1 DEF Boot, Goto, Fresh
  <2>2. CASE ~configured
    BY <2>2 DEF Boot, Goto, Fresh
  <2>. QED
    BY <2>1, <2>2
<1>. QED
  BY <1>1, FreshIsFine, PTL

\* Every step of main, the monitor, the driver and the clock keeps it.
LEMMA WifiInvStep == WifiInv /\ [WifiNext]_wifiVars => WifiInv'
<1> SUFFICES ASSUME WifiInv, [WifiNext]_wifiVars PROVE WifiInv'
  OBVIOUS
<1> USE LimitAssumption
    DEF WifiInv, WifiTypeOK, Phases, Station, ATTEMPTS, OUTAGE_LIMIT, Longest, Shortest
<1>1. CASE FirstConnected
  BY <1>1 DEF FirstConnected, Goto, Patience
<1>2. CASE FirstConnectFails
  BY <1>2 DEF FirstConnectFails, Goto, Patience
<1>3. CASE LoseLink
  BY <1>3 DEF LoseLink, Patience
<1>4. CASE LateAssociation
  BY <1>4 DEF LateAssociation, Patience
<1>5. CASE Listen
  BY <1>5 DEF Listen, Patience
<1>6. CASE StopWaiting
  BY <1>6 DEF StopWaiting, Goto, Patience
<1>7. CASE StartAttempt
  BY <1>7 DEF StartAttempt, Goto, Patience
<1>8. CASE Reconnected
  BY <1>8 DEF Reconnected, Goto, Patience
<1>9. CASE AttemptFails
  <2>1. outage <= Longest + RECONNECT_DELAY + CONNECT_LIMIT
    BY <1>9 DEF AttemptFails, Patience
  <2>2. attempt \in {1, 2}
    BY <1>9 DEF AttemptFails
  <2>. QED
    BY <1>9, <2>1, <2>2 DEF AttemptFails, Goto, Patience
<1>10. ASSUME NEW configured \in BOOLEAN, GiveUp(configured)
       PROVE  WifiInv'
  <2>1. /\ outage \in 0 .. ATTEMPTS * (RECONNECT_DELAY + CONNECT_LIMIT)
        /\ ATTEMPTS * RECONNECT_DELAY <= outage
    BY <1>10 DEF GiveUp, Patience
  <2>2. /\ Boot(configured) /\ cause' = "monitor"
        /\ outage' = IF configured THEN outage ELSE 0
    BY <1>10 DEF GiveUp
  <2>3. 0 \in 0 .. ATTEMPTS * (RECONNECT_DELAY + CONNECT_LIMIT)
    OBVIOUS
  <2> HIDE DEF ATTEMPTS
  <2>. QED
    BY <2>1, <2>2, <2>3, BootIsFresh
<1>11. ASSUME NEW configured \in BOOLEAN, NEW why \in {"power", "form"},
              Restart(why, configured)
       PROVE  WifiInv'
  <2>1. /\ Boot(configured) /\ outage' = 0
        /\ cause' \in {"power", "monitor", "form"} /\ cause' # "monitor"
    BY <1>11 DEF Restart
  <2>2. 0 \in 0 .. ATTEMPTS * (RECONNECT_DELAY + CONNECT_LIMIT)
    OBVIOUS
  <2> HIDE DEF ATTEMPTS
  <2>. QED
    BY <2>1, <2>2, BootIsFresh
<1>12. CASE WifiTick
  BY <1>12 DEF WifiTick, Waits, Capped, Patience
<1>13. CASE UNCHANGED wifiVars
  BY <1>13 DEF wifiVars, Patience
<1>. QED
  BY <1>1, <1>2, <1>3, <1>4, <1>5, <1>6, <1>7, <1>8, <1>9, <1>10, <1>11, <1>12,
     <1>13 DEF WifiNext

\* The inductive invariant of the Wi-Fi life cycle.
THEOREM WifiInvariant == WifiSpec => []WifiInv
BY WifiInvInit, WifiInvStep, PTL DEF WifiSpec

\* Types, and no timer runs past its limit.
THEOREM WifiTypeCorrect == WifiSpec => []WifiTypeOK
<1>1. WifiInv => WifiTypeOK
  BY DEF WifiInv
<1>. QED
  BY <1>1, WifiInvariant, PTL

LEMMA InvBounds == WifiInv => OutageBounded /\ PatientRestart
BY LimitAssumption
   DEF WifiInv, WifiTypeOK, Phases, Patience, Longest, Shortest, ATTEMPTS,
       OUTAGE_LIMIT, OutageBounded, PatientRestart

(***************************************************************************)
(* Within three attempts and one first connection the cooler has a link or *)
(* is in setup mode, whatever fails and however late.                      *)
(***************************************************************************)
THEOREM OutageIsBounded == WifiSpec => []OutageBounded
BY InvBounds, WifiInvariant, PTL

(***************************************************************************)
(* The monitor's restart comes no sooner than three delays after it gave   *)
(* the link up.                                                            *)
(***************************************************************************)
THEOREM RestartIsPatient == WifiSpec => []PatientRestart
BY InvBounds, WifiInvariant, PTL
-----------------------------------------------------------------------------
\* Every step of the cooler is a step of its Wi-Fi life cycle or leaves it alone.
LEMMA StepOfLifecycle == [Next]_vars => [WifiNext]_wifiVars
<1> SUFFICES ASSUME [Next]_vars PROVE [WifiNext]_wifiVars
  OBVIOUS
<1> USE DEF WifiNext
<1>1. CASE Connect
  BY <1>1 DEF Connect
<1>2. CASE ConnectFails
  BY <1>2 DEF ConnectFails
<1>3. CASE Reconnect
  BY <1>3 DEF Reconnect
<1>4. CASE ReconnectFails
  BY <1>4 DEF ReconnectFails
<1>5. CASE MonitorRestarts
  <2>1. (loaded' # None) \in BOOLEAN
    OBVIOUS
  <2>. QED
    BY <1>5, <2>1 DEF MonitorRestarts
<1>6. CASE LinkEnds
  BY <1>6 DEF LinkEnds
<1>7. CASE LinkComesLate
  BY <1>7 DEF LinkComesLate
<1>8. CASE MonitorSteps
  BY <1>8 DEF MonitorSteps
<1>9. CASE WaitFails
  BY <1>9 DEF WaitFails
<1>10. CASE NetworkDown \/ NetworkUp
  BY <1>10 DEF NetworkDown, NetworkUp
<1>11. ASSUME NEW p \in Packets, Receive(p)
       PROVE  [WifiNext]_wifiVars
  BY <1>11 DEF Receive
<1>12. CASE SetDuty \/ Portal
  BY <1>12 DEF SetDuty, Portal
<1>13. CASE FormRestarts
  <2>1. (loaded' # None) \in BOOLEAN /\ "form" \in {"power", "form"}
    OBVIOUS
  <2>. QED
    BY <1>13, <2>1 DEF FormRestarts
<1>14. CASE PowerLoss
  <2>1. (loaded' # None) \in BOOLEAN /\ "power" \in {"power", "form"}
    OBVIOUS
  <2>. QED
    BY <1>14, <2>1 DEF PowerLoss
<1>15. CASE Tick
  BY <1>15 DEF Tick
<1>16. CASE UNCHANGED vars
  BY <1>16 DEF vars
<1>. QED
  BY <1>1, <1>2, <1>3, <1>4, <1>5, <1>6, <1>7, <1>8, <1>9, <1>10, <1>11, <1>12,
     <1>13, <1>14, <1>15, <1>16 DEF Next

(***************************************************************************)
(* The composed cooler implements WifiLifecycle.                           *)
(***************************************************************************)
THEOREM CoolerImplementsLifecycle == Spec => WifiSpec
<1>1. Init => WifiInit
  BY DEF Init
<1>. QED
  BY <1>1, StepOfLifecycle, PTL DEF Spec, WifiSpec

(***************************************************************************)
(* However connections fail, and whatever browsers, datagrams and the      *)
(* power do meanwhile, an outage ends within its bound.                    *)
(***************************************************************************)
THEOREM CoolerOutageIsBounded == Spec => []OutageBounded
BY CoolerImplementsLifecycle, OutageIsBounded, PTL

(***************************************************************************)
(* The monitor of the composed cooler gives every outage three attempts.   *)
(***************************************************************************)
THEOREM CoolerRestartIsPatient == Spec => []PatientRestart
BY CoolerImplementsLifecycle, RestartIsPatient, PTL

\* A boot of the cooler has no command in force.
LEMMA RebootStopsFan == Fan!Reboot => FanOffUntilCommanded'
BY DEF Fan!Reboot, FanOffUntilCommanded, Fan!INITIAL_PWM_DUTY_PERCENT

\* Steps that touch neither the fan nor what the receiver waits for.
LEMMA OthersKeepFan ==
  FanOffUntilCommanded /\ UNCHANGED <<fanVars, listening>> => FanOffUntilCommanded'
BY DEF FanOffUntilCommanded, fanVars, Fan!INITIAL_PWM_DUTY_PERCENT

\* Every step of the cooler keeps the fan off until there is a command.
LEMMA FanOffStep ==
  Fan!TypeOK /\ FanOffUntilCommanded /\ [Next]_vars => FanOffUntilCommanded'
<1> SUFFICES ASSUME Fan!TypeOK, FanOffUntilCommanded, [Next]_vars
             PROVE  FanOffUntilCommanded'
  OBVIOUS
<1>1. CASE Connect \/ ConnectFails \/ Reconnect \/ ReconnectFails
  BY <1>1, OthersKeepFan
     DEF Connect, FirstConnected, ConnectFails, FirstConnectFails, Reconnect,
         Reconnected, ReconnectFails, AttemptFails
<1>2. CASE MonitorRestarts \/ FormRestarts \/ PowerLoss
  BY <1>2, RebootStopsFan DEF MonitorRestarts, FormRestarts, PowerLoss
<1>3. CASE LinkEnds \/ LinkComesLate \/ WaitFails \/ NetworkDown \/ NetworkUp
  BY <1>3, OthersKeepFan
     DEF LinkEnds, LoseLink, LinkComesLate, LateAssociation, WaitFails,
         StopWaiting, NetworkDown, NetworkUp, wifiVars
<1>4. CASE MonitorSteps
  <2>1. CASE Listen
    BY <1>4, <2>1
       DEF MonitorSteps, Listen, FanOffUntilCommanded, fanVars,
           Fan!INITIAL_PWM_DUTY_PERCENT
  <2>2. CASE StopWaiting \/ StartAttempt
    BY <1>4, <2>2, OthersKeepFan DEF MonitorSteps, StopWaiting, StartAttempt
  <2>. QED
    BY <1>4, <2>1, <2>2 DEF MonitorSteps
<1>5. ASSUME NEW p \in Packets, Receive(p)
      PROVE  FanOffUntilCommanded'
  <2>1. listening /\ listening' = listening
    BY <1>5 DEF Receive, wifiVars
  <2>2. CASE Fan!accept(p)
    BY <1>5, <2>1, <2>2, CoolerNoneAssumption
       DEF Receive, Fan!Receive, Fan!accept, FanOffUntilCommanded
  <2>3. CASE Fan!reject(p)
    BY <1>5, <2>1, <2>3
       DEF Receive, Fan!Receive, Fan!reject, Fan!hostState, FanOffUntilCommanded,
           Fan!INITIAL_PWM_DUTY_PERCENT
  <2>. QED
    BY <1>5, <2>2, <2>3 DEF Receive, Fan!Receive
<1>6. CASE SetDuty
  <2>1. listening' = listening /\ Fan!SetDuty
    BY <1>6 DEF SetDuty, wifiVars
  <2>2. update_age = None => Fan!duty_percent = Fan!INITIAL_PWM_DUTY_PERCENT
    BY CoolerNoneAssumption
       DEF Fan!duty_percent, Fan!INITIAL_PWM_DUTY_PERCENT, Fan!OFFLINE_FAN_DUTY_PERCENT
  <2>. QED
    BY <2>1, <2>2
       DEF FanOffUntilCommanded, Fan!SetDuty, Fan!hostState,
           Fan!INITIAL_PWM_DUTY_PERCENT
<1>7. CASE Portal
  BY <1>7, OthersKeepFan DEF Portal, wifiVars
<1>8. CASE Tick
  <2>1. /\ listening' = listening
        /\ update_age' = Fan!Older(update_age) /\ current_duty' = current_duty
    BY <1>8 DEF Tick, WifiTick, Fan!Tick
  <2>2. update_age = None <=> Fan!Older(update_age) = None
    BY CoolerNoneAssumption, CoolerRangeAssumption
       DEF Fan!TypeOK, Fan!Older, Fan!AGE_CAP
  <2>. QED
    BY <2>1, <2>2 DEF FanOffUntilCommanded, Fan!INITIAL_PWM_DUTY_PERCENT
<1>9. CASE UNCHANGED vars
  BY <1>9, OthersKeepFan DEF vars, wifiVars
<1>. QED
  BY <1>1, <1>2, <1>3, <1>4, <1>5, <1>6, <1>7, <1>8, <1>9 DEF Next

(***************************************************************************)
-----------------------------------------------------------------------------
\* The fan's own steps, and those of others, keep its types.
LEMMA FanTypeReboot == Fan!Reboot => Fan!TypeOK'
BY CoolerRangeAssumption, CoolerNoneAssumption
   DEF Fan!Reboot, Fan!TypeOK, Fan!Duties, Fan!OFFLINE_FAN_DUTY_PERCENT,
       Fan!INITIAL_PWM_DUTY_PERCENT

LEMMA FanTypeUnchanged == Fan!TypeOK /\ UNCHANGED fanVars => Fan!TypeOK'
BY DEF fanVars, Fan!TypeOK

LEMMA FanTypeReceive ==
  ASSUME Fan!TypeOK, NEW p, Fan!Receive(p)
  PROVE  Fan!TypeOK'
<1>1. CASE Fan!accept(p)
  <2>1. /\ p.sequence \in Fan!Sequences32 /\ p.temperature_milli_c \in Fan!Temperatures
        /\ p.requested_duty_percent \in Fan!CommandDuties
    BY <1>1 DEF Fan!accept, Fan!Accepts, Fan!parse_command
  <2>2. 0 \in 0 .. Fan!AGE_CAP /\ 0 # None /\ p.sequence # None
    BY <2>1, CoolerNoneAssumption, CoolerRangeAssumption DEF Fan!AGE_CAP, Fan!Sequences32
  <2> QED
    BY <1>1, <2>1, <2>2 DEF Fan!accept, Fan!Receive, Fan!TypeOK, Fan!Duties
<1>2. CASE Fan!reject(p)
  BY <1>2 DEF Fan!reject, Fan!Receive, Fan!TypeOK, Fan!hostState
<1> QED BY <1>1, <1>2 DEF Fan!Receive

LEMMA FanTypeSetDuty ==
  ASSUME Fan!TypeOK, Fan!SetDuty
  PROVE  Fan!TypeOK'
<1>1. Fan!duty_percent \in Fan!Duties
  BY CoolerRangeAssumption
     DEF Fan!TypeOK, Fan!duty_percent, Fan!Duties, Fan!CommandDuties,
         Fan!OFFLINE_FAN_DUTY_PERCENT
<1> QED BY <1>1 DEF Fan!SetDuty, Fan!TypeOK, Fan!hostState

LEMMA FanTypeTick ==
  ASSUME Fan!TypeOK, Fan!Tick
  PROVE  Fan!TypeOK'
<1>1. /\ Fan!Older(update_age) \in (0 .. Fan!AGE_CAP) \union {None}
      /\ (Fan!Older(update_age) = None <=> update_age = None)
  BY CoolerNoneAssumption, CoolerRangeAssumption
     DEF Fan!TypeOK, Fan!Older, Fan!AGE_CAP
<1> QED BY <1>1 DEF Fan!Tick, Fan!TypeOK

\* Restarts of the fan's state come from the three ways to start the chip.
LEMMA FanTypeStep == Fan!TypeOK /\ [Next]_vars => Fan!TypeOK'
<1> SUFFICES ASSUME Fan!TypeOK, [Next]_vars PROVE Fan!TypeOK'
  OBVIOUS
<1>1. CASE MonitorRestarts \/ FormRestarts \/ PowerLoss
  BY <1>1, FanTypeReboot DEF MonitorRestarts, FormRestarts, PowerLoss
<1>2. ASSUME NEW p \in Packets, Receive(p) PROVE Fan!TypeOK'
  BY <1>2, FanTypeReceive DEF Receive
<1>3. CASE SetDuty
  BY <1>3, FanTypeSetDuty DEF SetDuty
<1>4. CASE Tick
  BY <1>4, FanTypeTick DEF Tick
<1>5. CASE \/ Connect \/ ConnectFails \/ Reconnect \/ ReconnectFails \/ LinkEnds
           \/ LinkComesLate \/ MonitorSteps \/ WaitFails \/ NetworkDown \/ NetworkUp
           \/ Portal \/ UNCHANGED vars
  BY <1>5, FanTypeUnchanged
     DEF Connect, ConnectFails, Reconnect, ReconnectFails, LinkEnds, LinkComesLate,
         MonitorSteps, WaitFails, NetworkDown, NetworkUp, Portal, vars
<1> QED BY <1>1, <1>2, <1>3, <1>4, <1>5 DEF Next

\* The chip starts with what load found in the flash.
LEMMA BootModes ==
  ASSUME ModesOK, stored' \in Configs \union {None}, SetupMode!Forget,
         loaded' \in {stored', None}, faults' \in 0 .. MAX_FAULTS,
         Boot(loaded' # None)
  PROVE  ModesOK'
BY DEF ModesOK, SetupMode!Forget, Boot, Goto, Station

LEMMA LoadFinds ==
  ASSUME ModesOK, Load
  PROVE  loaded' \in {stored', None} /\ faults' \in 0 .. MAX_FAULTS
BY CoolerRangeAssumption DEF ModesOK, Load, Fault

\* Every step keeps main, the portal and the flash in agreement.
LEMMA ModesStep == WifiTypeOK /\ ModesOK /\ [Next]_vars => ModesOK'
<1> SUFFICES ASSUME WifiTypeOK, ModesOK, [Next]_vars PROVE ModesOK'
  OBVIOUS
<1> USE JoinableAssumption
<1>1. CASE Connect \/ Reconnect
  BY <1>1 DEF Connect, Reconnect, FirstConnected, Reconnected, Goto, CanJoin, Station,
              ModesOK, setupVars
<1>2. CASE ConnectFails
  BY <1>2 DEF ConnectFails, FirstConnectFails, Goto, Station, ModesOK, setupVars
<1>3. CASE ReconnectFails
  BY <1>3 DEF ReconnectFails, AttemptFails, Goto, Station, ModesOK, setupVars
<1>4. CASE MonitorRestarts
  <2>1. SetupMode!Forget /\ stored' = stored /\ Load /\ Boot(loaded' # None)
    BY <1>4 DEF MonitorRestarts, GiveUp
  <2> QED BY <2>1, LoadFinds, BootModes DEF ModesOK
<1>5. CASE FormRestarts
  <2>1. SetupMode!Forget /\ stored' = stored /\ Load /\ Boot(loaded' # None)
    BY <1>5 DEF FormRestarts, SetupMode!SoftwareReset, Restart
  <2> QED BY <2>1, LoadFinds, BootModes DEF ModesOK
<1>6. CASE PowerLoss
  <2>1. SetupMode!Forget /\ Boot(loaded' # None) /\ loaded' \in {stored', None}
    BY <1>6 DEF PowerLoss, SetupMode!PowerLoss, Restart
  <2>2. stored' \in Configs \union {None}
    BY <1>6 DEF PowerLoss, SetupMode!PowerLoss, ModesOK
  <2>3. faults' \in 0 .. MAX_FAULTS
    BY <1>6, CoolerRangeAssumption DEF PowerLoss, Fault, ModesOK
  <2> QED BY <2>1, <2>2, <2>3, BootModes
<1>7. CASE LinkEnds \/ LinkComesLate \/ MonitorSteps
  BY <1>7 DEF LinkEnds, LoseLink, LinkComesLate, LateAssociation, MonitorSteps, Listen,
              StopWaiting, StartAttempt, Goto, Station, ModesOK, setupVars
<1>8. CASE WaitFails \/ NetworkDown \/ NetworkUp
  BY <1>8, CoolerRangeAssumption
     DEF WaitFails, StopWaiting, NetworkDown, NetworkUp, Fault, Goto, Station, ModesOK,
         setupVars, wifiVars
<1>9. ASSUME NEW p \in Packets, Receive(p) PROVE ModesOK'
  BY <1>9 DEF Receive, ModesOK, Station, setupVars, wifiVars
<1>10. CASE SetDuty
  BY <1>10 DEF SetDuty, ModesOK, Station, setupVars, wifiVars
<1>11. CASE Portal
  <2> DEFINE PortalKeeps ==
        /\ stored' \in Configs \union {None}
        /\ saved' \in BOOLEAN /\ closing' \in BOOLEAN
        /\ saved' => stored' # None
  <2>1. /\ phase' = phase /\ phase = "setup"
        /\ loaded' = loaded /\ faults' = faults
    BY <1>11 DEF Portal, wifiVars
  <2>2. PortalKeeps
    <3>1. ASSUME NEW c \in Configs, SetupMode!Save(c) PROVE PortalKeeps
      BY <3>1 DEF SetupMode!Save, ModesOK
    <3>2. ASSUME NEW c \in Configs, SetupMode!FailSave(c) PROVE PortalKeeps
      BY <3>2 DEF SetupMode!FailSave, ModesOK
    <3>3. CASE SetupMode!Announce
      BY <3>3 DEF SetupMode!Announce, ModesOK
    <3> QED BY <1>11, <3>1, <3>2, <3>3 DEF Portal
  <2> QED BY <2>1, <2>2 DEF ModesOK, Station
<1>12. CASE Tick
  BY <1>12 DEF Tick, WifiTick, ModesOK, Station, setupVars
<1>13. CASE UNCHANGED vars
  BY <1>13 DEF vars, wifiVars, setupVars, ModesOK, Station
<1> QED
  BY <1>1, <1>2, <1>3, <1>4, <1>5, <1>6, <1>7, <1>8, <1>9, <1>10, <1>11, <1>12, <1>13
     DEF Next

(***************************************************************************)
(* For all limits, datagrams, configurations and faults, the parts of the  *)
(* cooler keep their types and agree: a link only with a configuration     *)
(* that can join, forms and restarts of the portal only in setup mode.     *)
(***************************************************************************)
THEOREM CoolerTypeCorrect == Spec => []CoolerTypeOK
<1>1. Init => Fan!TypeOK
  BY CoolerRangeAssumption, CoolerNoneAssumption
     DEF Init, Fan!Init, Fan!TypeOK, Fan!Duties, Fan!OFFLINE_FAN_DUTY_PERCENT,
         Fan!INITIAL_PWM_DUTY_PERCENT
<1>2. Init => ModesOK
  <2> SUFFICES ASSUME Init PROVE ModesOK
    OBVIOUS
  <2>1. /\ phase \in {"connect", "setup"} /\ (phase = "connect" <=> loaded # None)
        /\ loaded \in {stored, None} /\ stored \in Configs \union {None}
        /\ saved = FALSE /\ closing = FALSE
    BY DEF Init, WifiInit, SetupMode!SetupInit
  <2>2. faults \in 0 .. MAX_FAULTS
    BY CoolerRangeAssumption DEF Init
  <2>3. ~Station
    BY <2>1 DEF Station
  <2> QED BY <2>1, <2>2, <2>3 DEF ModesOK
<1>3. Fan!TypeOK /\ [Next]_vars => Fan!TypeOK'
  BY FanTypeStep
<1>4. WifiTypeOK /\ ModesOK /\ [Next]_vars => ModesOK'
  BY ModesStep
<1>5. Spec => []WifiTypeOK
  BY CoolerImplementsLifecycle, WifiTypeCorrect, PTL
<1>6. WifiTypeOK /\ Fan!TypeOK /\ ModesOK => CoolerTypeOK
  BY DEF CoolerTypeOK
<1> QED BY <1>1, <1>2, <1>3, <1>4, <1>5, <1>6, PTL DEF Spec
-----------------------------------------------------------------------------
(***************************************************************************)
(* In every boot, connected or not, the fan is off until that boot has     *)
(* accepted a command, and it accepts none before it listens, so none in   *)
(* setup mode: no restart leaves an old command in force.                  *)
(***************************************************************************)
THEOREM FanWaitsForCommand == Spec => []FanOffUntilCommanded
<1>1. Init => FanOffUntilCommanded
  BY DEF Init, WifiInit, Fan!Init, FanOffUntilCommanded
<1>2. Spec => []Fan!TypeOK
  BY CoolerTypeCorrect, PTL DEF CoolerTypeOK
<1>. QED
  BY <1>1, <1>2, FanOffStep, PTL DEF Spec
-----------------------------------------------------------------------------
\* Every step of the cooler is a step of setup mode, as SetupMode promises it,
\* or leaves flash and workers alone.  The monitor's restart loses what RAM
\* holds and, without a worker that announced it, is a power loss to setup mode.
LEMMA StepOfSetupMode == [Next]_vars => [SetupMode!SetupNext]_setupVars
<1> SUFFICES ASSUME [Next]_vars PROVE [SetupMode!SetupNext]_setupVars
  OBVIOUS
<1>1. CASE \/ Connect \/ ConnectFails \/ Reconnect \/ ReconnectFails \/ LinkEnds
           \/ LinkComesLate \/ MonitorSteps \/ WaitFails \/ NetworkDown \/ NetworkUp
           \/ SetDuty \/ Tick \/ \E p \in Packets : Receive(p)
  BY <1>1, Zenon
     DEF Connect, ConnectFails, Reconnect, ReconnectFails, LinkEnds, LinkComesLate,
         MonitorSteps, WaitFails, NetworkDown, NetworkUp, SetDuty, Tick, Receive
<1>2. CASE MonitorRestarts
  <2>1. SetupMode!PowerLoss
    BY <1>2 DEF MonitorRestarts, SetupMode!PowerLoss
  <2>. QED
    BY <2>1, Zenon DEF SetupMode!SetupNext
<1>3. CASE Portal
  BY <1>3, Zenon DEF Portal, SetupMode!SetupNext
<1>4. CASE FormRestarts
  BY <1>4, Zenon DEF FormRestarts, SetupMode!SetupNext
<1>5. CASE PowerLoss
  BY <1>5, Zenon DEF PowerLoss, SetupMode!SetupNext
<1>6. CASE UNCHANGED vars
  BY <1>6, Zenon DEF vars, setupVars
<1>. QED
  BY <1>1, <1>2, <1>3, <1>4, <1>5, <1>6, Zenon DEF Next

\* Outside setup mode every step leaves the flash and the workers alone, or is
\* a restart that finds the flash as it was.
LEMMA StationKeepsStored ==
  ModesOK /\ [Next]_vars =>
    [phase # "setup" => UNCHANGED stored /\ ~closing']_vars
<1> SUFFICES ASSUME ModesOK, Next, phase # "setup"
             PROVE  UNCHANGED stored /\ ~closing'
  BY Zenon
<1>1. ~closing
  BY DEF ModesOK
<1>2. CASE \/ Connect \/ ConnectFails \/ Reconnect \/ ReconnectFails \/ LinkEnds
           \/ LinkComesLate \/ MonitorSteps \/ WaitFails \/ NetworkDown \/ NetworkUp
           \/ SetDuty \/ Tick \/ \E p \in Packets : Receive(p)
  <2>1. UNCHANGED setupVars
    BY <1>2, Zenon
       DEF Connect, ConnectFails, Reconnect, ReconnectFails, LinkEnds, LinkComesLate,
           MonitorSteps, WaitFails, NetworkDown, NetworkUp, SetDuty, Tick, Receive
  <2>. QED
    BY <1>1, <2>1 DEF setupVars
<1>3. CASE MonitorRestarts
  BY <1>3 DEF MonitorRestarts, SetupMode!Forget
<1>4. CASE PowerLoss
  BY <1>4 DEF PowerLoss, SetupMode!PowerLoss, SetupMode!Forget
<1>5. CASE Portal \/ FormRestarts
  BY <1>5 DEF Portal, FormRestarts
<1>. QED
  BY <1>2, <1>3, <1>4, <1>5, Zenon DEF Next

(***************************************************************************)
(* The composed cooler implements SetupMode: the stored configuration      *)
(* changes only to one that a form may carry, and no worker announces a    *)
(* restart before a verified save of the same boot.  And it does so in     *)
(* setup mode alone: no connection, outage, restart or loss of power in    *)
(* station mode changes the stored configuration or announces anything.    *)
(***************************************************************************)
THEOREM CoolerImplementsSetupMode ==
  Spec => /\ SetupMode!SetupSpec
          /\ [][phase # "setup" => UNCHANGED stored /\ ~closing']_vars
<1>1. Init => SetupMode!SetupInit
  BY DEF Init
<1>2. [SetupMode!SetupNext]_setupVars => [SetupMode!SetupNext]_(SetupMode!setupVars)
  BY Zenon DEF setupVars, SetupMode!setupVars
<1>3. Spec => []ModesOK
  BY CoolerTypeCorrect, PTL DEF CoolerTypeOK
<1>. QED
  BY <1>1, <1>2, <1>3, StepOfSetupMode, StationKeepsStored, PTL
  DEF Spec, SetupMode!SetupSpec
-----------------------------------------------------------------------------
\* Every step of the cooler is a step of its command state and fan loop, with
\* every restart a reboot, or leaves them alone.
LEMMA StepOfHostControl == [Next]_vars => [Fan!Next]_fanVars
<1> SUFFICES ASSUME [Next]_vars PROVE [Fan!Next]_fanVars
  OBVIOUS
<1>1. CASE \/ Connect \/ ConnectFails \/ Reconnect \/ ReconnectFails \/ LinkEnds
           \/ LinkComesLate \/ MonitorSteps \/ WaitFails \/ NetworkDown \/ NetworkUp
           \/ Portal
  BY <1>1, Zenon
     DEF Connect, ConnectFails, Reconnect, ReconnectFails, LinkEnds, LinkComesLate,
         MonitorSteps, WaitFails, NetworkDown, NetworkUp, Portal
<1>2. CASE MonitorRestarts \/ FormRestarts \/ PowerLoss
  BY <1>2, Zenon DEF MonitorRestarts, FormRestarts, PowerLoss, Fan!Next
<1>3. CASE \E p \in Packets : Receive(p)
  BY <1>3, Zenon DEF Receive, Fan!Next
<1>4. CASE SetDuty \/ Tick
  BY <1>4, Zenon DEF SetDuty, Tick, Fan!Next
<1>5. CASE UNCHANGED vars
  BY <1>5, Zenon DEF vars, fanVars
<1>. QED
  BY <1>1, <1>2, <1>3, <1>4, <1>5, Zenon DEF Next

(***************************************************************************)
(* The composed cooler implements HostControl: whatever the Wi-Fi and      *)
(* setup mode do between two datagrams, HOST_STATE and the PWM channel     *)
(* change only as accept, the fan loop, time and restarts change them, so  *)
(* what is proved of HostControl holds of the cooler.                      *)
(***************************************************************************)
THEOREM CoolerImplementsHostControl == Spec => Fan!Spec
<1>1. Init => Fan!Init
  BY DEF Init
<1>2. [Fan!Next]_fanVars => [Fan!Next]_(Fan!vars)
  BY Zenon DEF fanVars, Fan!vars
<1>. QED
  BY <1>1, <1>2, StepOfHostControl, PTL DEF Spec, Fan!Spec
=============================================================================
