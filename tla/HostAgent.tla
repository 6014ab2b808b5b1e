------------------------------ MODULE HostAgent ------------------------------
(***************************************************************************)
(* The Linux temperature agent (run in host-agent/src/main.rs) and the     *)
(* systemd unit that restarts it.  One pass of the agent's loop is one     *)
(* step: it takes far less than a tick, and thread::sleep separates it     *)
(* from the next.  Which duty FanPolicy asks for is left open below the    *)
(* emergency temperature; at or above it the policy always asks for        *)
(* MAX_DUTY_PERCENT.                                                       *)
(***************************************************************************)
EXTENDS Integers, SerialNumbers

CONSTANTS
  SEQUENCE_MODULUS,               \* 2^32
  INTERVAL,                       \* interval_ms
  RESTART_SEC,                    \* RestartSec of laptop-cooler-agent.service
  Readings,                       \* what maximum_temperature may return
  PolicyDuties,                   \* what FanPolicy::update may return
  EMERGENCY_TEMPERATURE_MILLI_C,  \* emergency_temperature_c
  MAX_DUTY_PERCENT

VARIABLES
  agent,     \* "running", "failed" (systemd will restart it) or "stopped"
  sleep,     \* ticks until the loop, or systemd, goes on
  sequence   \* the number of the next packet

agentVars == <<agent, sleep, sequence>>

Due == sleep = 0

FanPolicyDuties(temperature) ==
  IF temperature >= EMERGENCY_TEMPERATURE_MILLI_C
  THEN {MAX_DUTY_PERCENT}
  ELSE PolicyDuties

Init == agent = "stopped" /\ sleep = 0 /\ sequence = 0

\* A new process: initial_sequence draws its first number from the wall clock,
\* and nothing ties it to the numbers of the process before.
Start ==
  /\ sequence' \in 0 .. SEQUENCE_MODULUS - 1
  /\ agent' = "running"
  /\ sleep' = 0

\* run returns an error: main exits with status 1 and Restart=on-failure
\* brings the agent back after RestartSec.
Exit ==
  /\ agent' = "failed"
  /\ sleep' = RESTART_SEC
  /\ UNCHANGED sequence

\* One pass of the loop that reads a temperature and sends a command for it.
SendCommand(temperature, duty) ==
  /\ agent = "running" /\ Due
  /\ temperature \in Readings
  /\ duty \in FanPolicyDuties(temperature)
  /\ sequence' = WrappingAdd(SEQUENCE_MODULUS, sequence, 1)
  /\ sleep' = INTERVAL
  /\ UNCHANGED agent

\* One pass whose sensors cannot be read and, on rediscovery, are all gone.
SkipWithoutSensors ==
  /\ agent = "running" /\ Due
  /\ sleep' = INTERVAL
  /\ UNCHANGED <<agent, sequence>>

\* One pass that fails: rediscovery fails, the rediscovered sensors cannot be
\* read either, or the socket refuses the packet.
Fail == agent = "running" /\ Due /\ Exit

\* systemd starts the failed agent again, which may fail once more before its
\* loop begins (no configuration, no sensors, no socket).
SystemdRestart == agent = "failed" /\ Due /\ (Start \/ Exit)

\* The operator: systemctl start, stop and restart.
OperatorStart == agent = "stopped" /\ Start
OperatorRestart == agent # "stopped" /\ Start
OperatorStop ==
  /\ agent # "stopped"
  /\ agent' = "stopped" /\ sleep' = 0
  /\ UNCHANGED sequence

\* Time passes while the agent, or systemd, sleeps.
Tick ==
  /\ agent = "stopped" \/ ~Due
  /\ sleep' = IF Due THEN 0 ELSE sleep - 1
  /\ UNCHANGED <<agent, sequence>>

Next ==
  \/ \E t \in Readings : \E d \in FanPolicyDuties(t) : SendCommand(t, d)
  \/ SkipWithoutSensors \/ Fail \/ SystemdRestart
  \/ OperatorStart \/ OperatorRestart \/ OperatorStop
  \/ Tick

Spec == Init /\ [][Next]_agentVars
-----------------------------------------------------------------------------
\* The agent waits no longer than it means to, and its numbers keep their width.
AgentTypeOK ==
  /\ agent \in {"running", "failed", "stopped"}
  /\ sleep \in 0 .. (IF INTERVAL > RESTART_SEC THEN INTERVAL ELSE RESTART_SEC)
  /\ sequence \in 0 .. SEQUENCE_MODULUS - 1
=============================================================================
