-------------------------------- MODULE Cooler --------------------------------
(***************************************************************************)
(* The whole cooler from boot to boot: its Wi-Fi, its setup mode, the      *)
(* command state and the fan loop, and what a restart does to each.  Setup *)
(* mode is taken by what it promises (SetupMode, which SetupPortal         *)
(* implements), the flash by what it promises (AtomicConfig).              *)
(*                                                                         *)
(* The network of a configuration in Joinable can be joined while the      *)
(* access point is up (reachable).  The access point going down, a power   *)
(* loss and a flash that cannot be read are faults, MAX_FAULTS in all.     *)
(***************************************************************************)
EXTENDS WifiLifecycle

CONSTANTS
  None, Token, Packets, SEQUENCE_MODULUS,
  SAMPLE_TIMEOUT_MILLIS, OFFLINE_COOLDOWN_MILLIS,
  MIN_TEMPERATURE_MILLI_C, MAX_TEMPERATURE_MILLI_C,
  HARD_EMERGENCY_TEMPERATURE_MILLI_C, MIN_DUTY_PERCENT, MAX_DUTY_PERCENT,
  Configs,     \* the configurations a form may carry
  Joinable,    \* those with the name and password of a network in range
  MAX_FAULTS   \* bound on power losses, outages of the network, read errors

ASSUME CoolerNoneAssumption == None \notin Int
ASSUME CoolerRangeAssumption ==
  /\ SEQUENCE_MODULUS \in Nat \ {0}
  /\ SAMPLE_TIMEOUT_MILLIS \in Nat /\ OFFLINE_COOLDOWN_MILLIS \in Nat
  /\ MIN_TEMPERATURE_MILLI_C \in Int /\ MAX_TEMPERATURE_MILLI_C \in Int
  /\ MIN_DUTY_PERCENT \in Nat /\ MAX_DUTY_PERCENT \in Nat
  /\ MIN_DUTY_PERCENT <= MAX_DUTY_PERCENT
  /\ MAX_FAULTS \in Nat
ASSUME JoinableAssumption == Joinable \subseteq Configs /\ None \notin Configs

VARIABLES
  last_sequence, update_age, temperature_milli_c, requested_duty_percent,
  current_duty,
  stored, saved, closing,
  loaded,      \* main's stored_config
  reachable,   \* the access point of the joinable networks is up
  faults       \* how many faults may still happen

fanVars == <<last_sequence, update_age, temperature_milli_c,
             requested_duty_percent, current_duty>>
setupVars == <<stored, saved, closing>>
vars == <<wifiVars, fanVars, setupVars, loaded, reachable, faults>>

Fan == INSTANCE HostControl
SetupMode == INSTANCE SetupMode

Fault == faults > 0 /\ faults' = faults - 1

\* An attempt to join now can succeed.
CanJoin == reachable /\ loaded \in Joinable
-----------------------------------------------------------------------------
\* load: the stored configuration; a read error counts as none.
Load ==
  \/ loaded' = stored' /\ UNCHANGED faults
  \/ stored' # None /\ loaded' = None /\ Fault

Init ==
  /\ WifiInit /\ Fan!Init /\ SetupMode!SetupInit
  /\ loaded \in {stored, None}   \* the first read may fail as well
  /\ phase = "connect" <=> loaded # None
  /\ reachable \in BOOLEAN
  /\ faults = MAX_FAULTS

Connect ==
  /\ FirstConnected /\ CanJoin
  /\ UNCHANGED <<fanVars, setupVars, loaded, reachable, faults>>

ConnectFails ==
  /\ FirstConnectFails /\ ~CanJoin
  /\ UNCHANGED <<fanVars, setupVars, loaded, reachable, faults>>

Reconnect ==
  /\ Reconnected /\ CanJoin
  /\ UNCHANGED <<fanVars, setupVars, loaded, reachable, faults>>

\* connect_async while the driver is already associated may fail as well.
ReconnectFails ==
  /\ AttemptFails /\ (~CanJoin \/ associated)
  /\ UNCHANGED <<fanVars, setupVars, loaded, reachable, faults>>

\* Seeded fault: the fallback is entered without a restart.
MonitorRestarts_InPlace ==
  /\ phase = "reconnect" /\ attempt = ATTEMPTS /\ (~CanJoin \/ associated)
  /\ Goto("setup") /\ attempt' = 0 /\ associated' = FALSE /\ listening' = FALSE
  /\ outage' = 0
  /\ UNCHANGED <<cause, fanVars, setupVars, loaded, reachable, faults>>

\* The monitor's software_reset: RAM is lost, HOST_STATE and the PWM with it.
MonitorRestarts ==
  /\ ~CanJoin \/ associated
  /\ SetupMode!Forget /\ UNCHANGED stored
  /\ Load
  /\ GiveUp(loaded' # None)
  /\ Fan!Reboot
  /\ UNCHANGED reachable

\* The link ends, and with it what the driver has associated.
LinkEnds ==
  /\ LoseLink /\ ~reachable
  /\ UNCHANGED <<fanVars, setupVars, loaded, reachable, faults>>

LinkComesLate ==
  /\ LateAssociation /\ CanJoin
  /\ UNCHANGED <<fanVars, setupVars, loaded, reachable, faults>>

MonitorSteps ==
  /\ Listen \/ (StopWaiting /\ ~associated) \/ StartAttempt
  /\ UNCHANGED <<fanVars, setupVars, loaded, reachable, faults>>

\* wait_for_disconnect_async returns an error although the link is there.
WaitFails ==
  /\ StopWaiting /\ associated
  /\ Fault
  /\ UNCHANGED <<fanVars, setupVars, loaded, reachable>>

NetworkDown ==
  /\ reachable /\ reachable' = FALSE
  /\ Fault
  /\ UNCHANGED <<wifiVars, fanVars, setupVars, loaded>>

NetworkUp ==
  /\ ~reachable /\ reachable' = TRUE
  /\ UNCHANGED <<wifiVars, fanVars, setupVars, loaded, faults>>

\* A datagram reaches temperature_receiver.
Receive(p) ==
  /\ Station /\ listening /\ associated /\ reachable
  /\ Fan!Receive(p)
  /\ UNCHANGED <<wifiVars, setupVars, loaded, reachable, faults>>

\* main's loop runs once the first connection has been decided.
SetDuty ==
  /\ phase # "connect"
  /\ Fan!SetDuty
  /\ UNCHANGED <<wifiVars, setupVars, loaded, reachable, faults>>

\* Seeded fault: the workers are spawned in station mode too.
Portal_EveryMode ==
  /\ \/ \E c \in Configs : SetupMode!Save(c) \/ SetupMode!FailSave(c)
     \/ SetupMode!Announce
  /\ UNCHANGED <<wifiVars, fanVars, loaded, reachable, faults>>

\* A form is submitted and saved, or not; a worker announces the restart.
Portal ==
  /\ phase = "setup"
  /\ \/ \E c \in Configs : SetupMode!Save(c) \/ SetupMode!FailSave(c)
     \/ SetupMode!Announce
  /\ UNCHANGED <<wifiVars, fanVars, loaded, reachable, faults>>

\* Seeded fault: main goes on with the configuration it had.
FormRestarts_Stale ==
  /\ phase = "setup"
  /\ SetupMode!SoftwareReset
  /\ Restart("form", loaded # None)
  /\ Fan!Reboot
  /\ UNCHANGED <<loaded, reachable, faults>>

\* The worker's software_reset after a saved form.
FormRestarts ==
  /\ phase = "setup"
  /\ SetupMode!SoftwareReset
  /\ Load
  /\ Restart("form", loaded' # None)
  /\ Fan!Reboot
  /\ UNCHANGED reachable

\* The power goes and comes back.  One fault covers it and, where load fails
\* at the boot that follows, the read error.
PowerLoss ==
  /\ SetupMode!PowerLoss
  /\ phase = "setup" \/ stored' = stored
  /\ Fault /\ loaded' \in {stored', None}
  /\ Restart("power", loaded' # None)
  /\ Fan!Reboot
  /\ UNCHANGED reachable

Tick ==
  /\ WifiTick
  /\ Fan!Tick
  /\ UNCHANGED <<setupVars, loaded, reachable, faults>>

Next ==
  \/ Connect \/ ConnectFails \/ Reconnect \/ ReconnectFails \/ MonitorRestarts
  \/ LinkEnds \/ LinkComesLate \/ MonitorSteps \/ WaitFails
  \/ NetworkDown \/ NetworkUp
  \/ \E p \in Packets : Receive(p)
  \/ SetDuty \/ Portal \/ FormRestarts \/ PowerLoss
  \/ Tick

Spec == Init /\ [][Next]_vars

(***************************************************************************)
(* Time goes on, however many datagrams arrive; what main and the monitor  *)
(* wait for happens or their limit ends the wait; the driver notices that  *)
(* the access point is gone; a worker that has announced a restart carries *)
(* it out.  Forms, faults and the return of the network are left to        *)
(* chance.                                                                 *)
(***************************************************************************)
Fairness ==
  /\ SF_vars(Tick)
  /\ WF_vars(SetDuty) /\ WF_vars(MonitorSteps) /\ WF_vars(LinkEnds)
  /\ WF_vars(Connect \/ ConnectFails)
  /\ WF_vars(Reconnect \/ ReconnectFails \/ MonitorRestarts)
  /\ WF_vars(FormRestarts)

FairSpec == Spec /\ Fairness
-----------------------------------------------------------------------------
(***************************************************************************)
(* Every part keeps its types.  Only a boot that found a configuration     *)
(* connects, only one that could join has a link, and only setup mode      *)
(* saves forms or announces a restart.                                     *)
(***************************************************************************)
ModesOK ==
  /\ stored \in Configs \union {None} /\ loaded \in Configs \union {None}
  /\ saved \in BOOLEAN /\ closing \in BOOLEAN
  /\ phase = "connect" => loaded # None
  /\ Station => loaded \in Joinable
  /\ phase # "setup" => loaded = stored /\ ~saved /\ ~closing
  /\ saved => stored # None
  /\ faults \in 0 .. MAX_FAULTS

CoolerTypeOK == WifiTypeOK /\ Fan!TypeOK /\ ModesOK

(***************************************************************************)
(* README.md: "Booting without a host command also leaves the fan off."    *)
(* In every boot, connected or not, the fan is off until HostState has     *)
(* accepted a command, and a boot has none before temperature_receiver     *)
(* listens: so never in setup mode, and what was in force when the link    *)
(* was lost does not outlive the restart.                                  *)
(***************************************************************************)
FanOffUntilCommanded ==
  /\ update_age = None => current_duty = Fan!INITIAL_PWM_DUTY_PERCENT
  /\ ~listening => update_age = None

(***************************************************************************)
(* After any outage the cooler comes to rest: it has a link again or it is *)
(* in setup mode.                                                          *)
(***************************************************************************)
OutageResolves == []<>(phase \in {"linked", "setup"})

(***************************************************************************)
(* Once faults have ended, a station whose network is there gets its link  *)
(* back, over as many attempts and restarts as it takes.                   *)
(***************************************************************************)
NetworkIsUsed ==
  (faults = 0 /\ reachable /\ phase \in {"connect", "delay", "reconnect"}
     /\ stored \in Joinable)
  ~> phase = "linked"

(***************************************************************************)
(* From a form to a link: once faults have ended and the network is there, *)
(* a worker that announces the restart leads to a connected cooler or to   *)
(* setup mode with a configuration of another browser that cannot join.    *)
(***************************************************************************)
FormLeadsToLink ==
  (faults = 0 /\ reachable /\ closing) ~> (phase = "linked" \/ stored \notin Joinable)
=============================================================================
