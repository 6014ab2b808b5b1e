------------------------------ MODULE CoolerHold ------------------------------
(***************************************************************************)
(* Cooler with a history of the last accepted command: how long ago it was *)
(* and the duty it put in effect.  It guards no step, and a restart of the *)
(* chip that is not a power loss leaves it alone.                          *)
(***************************************************************************)
EXTENDS Cooler

VARIABLES
  held,      \* ticks since the last command if it came over a link that the
             \* monitor had not given up, or None
  effective  \* the duty it put in effect

holdVars == <<held, effective>>

HOLD_CAP == OFFLINE_COOLDOWN_MILLIS + 1

HoldInit == Init /\ held = None /\ effective = Fan!OFFLINE_FAN_DUTY_PERCENT

\* Without WaitFails: the outages followed are those of the network.
HoldNext ==
  \/ \E p \in Packets :
       /\ Receive(p)
       /\ IF Fan!Accepts(p)
          THEN /\ held' = IF phase = "linked" THEN 0 ELSE None
               /\ effective' = Fan!duty_percent'
          ELSE UNCHANGED holdVars
  \/ /\ Tick
     /\ held' = IF held \in {None, HOLD_CAP} THEN held ELSE held + 1
     /\ UNCHANGED effective
  \/ /\ PowerLoss \/ FormRestarts
     /\ held' = None /\ UNCHANGED effective
  \/ /\ \/ Connect \/ ConnectFails \/ Reconnect \/ ReconnectFails
        \/ MonitorRestarts \/ LinkEnds \/ LinkComesLate \/ MonitorSteps
        \/ NetworkDown \/ NetworkUp \/ SetDuty \/ Portal
     /\ UNCHANGED holdVars

HoldSpec == HoldInit /\ [][HoldNext]_<<vars, holdVars>>
-----------------------------------------------------------------------------
(***************************************************************************)
(* README.md: "If communication stops, the ESP32 holds the last effective  *)
(* duty for a 60-second cooldown".  Until the cooldown is over, and unless *)
(* the power goes, the fan runs at the duty of the last command.           *)
(***************************************************************************)
HeldThroughCooldown ==
  (held # None /\ held <= OFFLINE_COOLDOWN_MILLIS)
    => current_duty = effective \/ current_duty # Fan!duty_percent
=============================================================================
