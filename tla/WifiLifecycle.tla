---------------------------- MODULE WifiLifecycle ----------------------------
(***************************************************************************)
(* The cooler's Wi-Fi from boot to boot: main's first connection with its  *)
(* time limit and its fallback to setup mode, and wifi_station_monitor,    *)
(* which waits for the link to end, tries to reconnect, and restarts the   *)
(* chip when it cannot.  Time is counted in ticks; a task whose timer has  *)
(* expired, or whose event is there, runs before the next tick.            *)
(*                                                                         *)
(* connect_async and the radio are not in this repository: an attempt may  *)
(* succeed or fail at any time up to its limit, and the driver goes on     *)
(* with an attempt whose future with_timeout has dropped.                  *)
(***************************************************************************)
EXTENDS Integers

CONSTANTS
  CONNECT_LIMIT,   \* 20 s: with_timeout of each connect_async
  RECONNECT_DELAY  \* 2 s: Timer before each attempt to reconnect

ASSUME LimitAssumption == CONNECT_LIMIT \in Nat \ {0} /\ RECONNECT_DELAY \in Nat

ATTEMPTS == 3

VARIABLES
  phase,       \* where main, and later the monitor, waits
  attempt,     \* the monitor's attempt, 0 when it makes none
  timer,       \* ticks since the timer it waits for was started
  associated,  \* controller.is_connected()
  listening,   \* temperature_receiver has got past wait_config_up
  \* History: none of these enables or disables a step.
  outage,      \* ticks without the link since it ended, or since power-on
  cause        \* why the chip last started: "power", "monitor" or "form"

wifiVars == <<phase, attempt, timer, associated, listening, outage, cause>>

Phases == {"connect", "linked", "delay", "reconnect", "setup"}

\* spawned: the tasks of station mode run.
Station == phase \in {"linked", "delay", "reconnect"}

Goto(p) == phase' = p /\ timer' = 0

\* The longest the cooler may be on its way to a link or to setup mode.
OUTAGE_LIMIT == ATTEMPTS * (RECONNECT_DELAY + CONNECT_LIMIT) + CONNECT_LIMIT

Capped(n) == IF n > OUTAGE_LIMIT THEN OUTAGE_LIMIT + 1 ELSE n
-----------------------------------------------------------------------------
\* main starts; configured says whether load gave it a configuration.
Boot(configured) ==
  /\ Goto(IF configured THEN "connect" ELSE "setup")
  /\ attempt' = 0
  /\ associated' = FALSE /\ listening' = FALSE

WifiInit ==
  /\ phase \in {"connect", "setup"} /\ attempt = 0 /\ timer = 0
  /\ associated = FALSE /\ listening = FALSE
  /\ outage = 0 /\ cause = "power"

\* The first connect_async returns Ok: the tasks of station mode are spawned.
FirstConnected ==
  /\ phase = "connect"
  /\ Goto("linked") /\ associated' = TRUE /\ outage' = 0
  /\ UNCHANGED <<attempt, listening, cause>>

\* It returns an error, or the limit expires: main enters setup mode.
FirstConnectFails ==
  /\ phase = "connect"
  /\ Goto("setup") /\ outage' = 0
  /\ UNCHANGED <<attempt, associated, listening, cause>>

\* The access point, or the distance to it, ends the association.
LoseLink ==
  /\ associated
  /\ associated' = FALSE
  /\ UNCHANGED <<phase, attempt, timer, listening, outage, cause>>

\* The driver completes an attempt that with_timeout has already given up.
LateAssociation ==
  /\ phase = "delay" /\ attempt > 1 /\ ~associated
  /\ associated' = TRUE
  /\ UNCHANGED <<phase, attempt, timer, listening, outage, cause>>

\* The receiver's stack has an address: from now on it takes datagrams.
Listen ==
  /\ Station /\ associated /\ ~listening
  /\ listening' = TRUE
  /\ UNCHANGED <<phase, attempt, timer, associated, outage, cause>>

\* is_connected is false, or wait_for_disconnect_async returns, be it with
\* the reason or with an error.
StopWaiting ==
  /\ phase = "linked"
  /\ Goto("delay") /\ attempt' = 1
  /\ UNCHANGED <<associated, listening, outage, cause>>

StartAttempt ==
  /\ phase = "delay" /\ timer = RECONNECT_DELAY
  /\ Goto("reconnect")
  /\ UNCHANGED <<attempt, associated, listening, outage, cause>>

Reconnected ==
  /\ phase = "reconnect"
  /\ Goto("linked") /\ attempt' = 0 /\ associated' = TRUE /\ outage' = 0
  /\ UNCHANGED <<listening, cause>>

\* Seeded fault: the attempts are not counted.
AttemptFails_NeverCounts ==
  /\ phase = "reconnect" /\ attempt < ATTEMPTS
  /\ Goto("delay")
  /\ UNCHANGED <<attempt, associated, listening, outage, cause>>

\* connect_async returns an error, or its limit expires.
AttemptFails ==
  /\ phase = "reconnect" /\ attempt < ATTEMPTS
  /\ Goto("delay") /\ attempt' = attempt + 1
  /\ UNCHANGED <<associated, listening, outage, cause>>

\* Seeded fault: 1..3 in place of 1..=3.
GiveUp_TooSoon(configured) ==
  /\ phase = "reconnect" /\ attempt >= ATTEMPTS - 1
  /\ Boot(configured)
  /\ cause' = "monitor"
  /\ outage' = IF configured THEN outage ELSE 0

\* The last attempt fails: software_reset.
GiveUp(configured) ==
  /\ phase = "reconnect" /\ attempt = ATTEMPTS
  /\ Boot(configured)
  /\ cause' = "monitor"
  /\ outage' = IF configured THEN outage ELSE 0

\* The chip starts again for a reason that is not the monitor's.
Restart(why, configured) ==
  /\ Boot(configured)
  /\ cause' = why /\ outage' = 0

\* Seeded fault: only the first connection has a limit.
Patience_FirstOnly ==
  IF phase = "reconnect" THEN OUTAGE_LIMIT + 1
  ELSE IF phase = "connect" THEN CONNECT_LIMIT
  ELSE IF phase = "delay" THEN RECONNECT_DELAY ELSE 0

\* The time that main or the monitor may wait where it is.
Patience ==
  IF phase \in {"connect", "reconnect"} THEN CONNECT_LIMIT
  ELSE IF phase = "delay" THEN RECONNECT_DELAY ELSE 0

Waits == phase \in {"connect", "delay", "reconnect"}

WifiTick ==
  /\ Waits => timer < Patience
  /\ phase = "linked" => associated
  /\ timer' = IF Waits THEN timer + 1 ELSE timer
  /\ outage' = IF Waits THEN Capped(outage + 1) ELSE outage
  /\ UNCHANGED <<phase, attempt, associated, listening, cause>>

WifiNext ==
  \/ FirstConnected \/ FirstConnectFails
  \/ LoseLink \/ LateAssociation \/ Listen
  \/ StopWaiting \/ StartAttempt \/ Reconnected \/ AttemptFails
  \/ \E configured \in BOOLEAN :
       GiveUp(configured) \/ \E why \in {"power", "form"} : Restart(why, configured)
  \/ WifiTick

WifiSpec == WifiInit /\ [][WifiNext]_wifiVars
-----------------------------------------------------------------------------
(***************************************************************************)
(* The variables keep their types; an attempt is under way exactly while   *)
(* the monitor makes one, and no timer runs past its limit.                *)
(***************************************************************************)
WifiTypeOK ==
  /\ phase \in Phases
  /\ attempt \in IF phase \in {"delay", "reconnect"} THEN 1 .. ATTEMPTS ELSE {0}
  /\ timer \in 0 .. Patience
  /\ associated \in BOOLEAN /\ listening \in BOOLEAN
  /\ ~Station => ~associated /\ ~listening
  /\ outage \in 0 .. OUTAGE_LIMIT + 1
  /\ cause \in {"power", "monitor", "form"}

(***************************************************************************)
(* "Restarting into bounded fallback": however long connections hang or    *)
(* how they fail, the cooler has a link again or is in setup mode within   *)
(* three attempts to reconnect and the first connection of the next boot.  *)
(***************************************************************************)
OutageBounded == outage <= OUTAGE_LIMIT

(***************************************************************************)
(* A short outage does not restart the chip: each outage gets its own      *)
(* three attempts, so the monitor's restart, which stops the fan, comes no *)
(* sooner than three delays after it stopped waiting for the link to end.  *)
(***************************************************************************)
PatientRestart ==
  phase = "connect" /\ cause = "monitor" => outage >= ATTEMPTS * RECONNECT_DELAY
=============================================================================
