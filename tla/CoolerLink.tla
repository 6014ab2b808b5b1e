------------------------------ MODULE CoolerLink ------------------------------
(***************************************************************************)
(* The agent, the network and the cooler together.  The agent broadcasts   *)
(* one UDP datagram per interval; the network may lose, delay, reorder and *)
(* repeat it for up to MAX_DELAY ticks; the cooler accepts or rejects what *)
(* arrives.  Agent and cooler may be restarted at any moment,              *)
(* MAX_DISTURBANCES times in all.                                          *)
(***************************************************************************)
EXTENDS Integers

CONSTANTS
  None, Token, SEQUENCE_MODULUS,
  SAMPLE_TIMEOUT_MILLIS, OFFLINE_COOLDOWN_MILLIS,
  MIN_TEMPERATURE_MILLI_C, MAX_TEMPERATURE_MILLI_C,
  HARD_EMERGENCY_TEMPERATURE_MILLI_C, MIN_DUTY_PERCENT, MAX_DUTY_PERCENT,
  INTERVAL, RESTART_SEC, Readings, PolicyDuties, EMERGENCY_TEMPERATURE_MILLI_C,
  MAX_DELAY,         \* the longest a datagram stays in the network
  MAX_DISTURBANCES   \* bound on the restarts, stops, failures and reboots

ASSUME LinkNumbersAssumption ==
  /\ SEQUENCE_MODULUS \in Nat \ {0}
  /\ SAMPLE_TIMEOUT_MILLIS \in Nat /\ OFFLINE_COOLDOWN_MILLIS \in Nat
  /\ MIN_TEMPERATURE_MILLI_C \in Int /\ MAX_TEMPERATURE_MILLI_C \in Int
  /\ MIN_DUTY_PERCENT \in Nat /\ MAX_DUTY_PERCENT \in Nat
  /\ MIN_DUTY_PERCENT <= MAX_DUTY_PERCENT
  /\ MAX_DELAY \in Nat /\ MAX_DISTURBANCES \in Nat
ASSUME LinkAgentAssumption ==
  /\ INTERVAL \in Nat \ {0} /\ RESTART_SEC \in Nat
  /\ Readings \subseteq Int /\ PolicyDuties \subseteq Nat

VARIABLES
  last_sequence, update_age, temperature_milli_c, requested_duty_percent,
  current_duty,
  agent, sleep, sequence,
  network,       \* the datagrams that may still arrive
  disturbances,  \* how many disturbances may still happen
  \* History: none of these enables or disables a step.
  inForce,       \* the datagram whose command is in force, or None
  epochAge,      \* ticks since the agent's process started
  silence,       \* ticks since a datagram was last sent, or None
  heard          \* the temperature last reported to the cooler, or None

fanVars == <<last_sequence, update_age, temperature_milli_c,
             requested_duty_percent, current_duty>>
agentVars == <<agent, sleep, sequence>>
histories == <<inForce, epochAge, silence, heard>>
vars == <<fanVars, agentVars, network, disturbances, histories>>

\* The datagrams the network may carry (see Datagram).
Datagrams ==
  [utf8 : {TRUE}, version : {"LC2"}, fields : {5}, token : {Token},
   sequence : 0 .. SEQUENCE_MODULUS - 1, temperature_milli_c : Readings,
   requested_duty_percent : PolicyDuties \union {MAX_DUTY_PERCENT},
   age : 0 .. MAX_DELAY + 1, current : BOOLEAN]

Fan == INSTANCE HostControl WITH Packets <- Datagrams
Agent == INSTANCE HostAgent

Upto(bound, n) == IF n > bound THEN bound ELSE n

\* Bounds of the histories: one past the largest age a property speaks of.
EPOCH_CAP == MAX_DELAY + SAMPLE_TIMEOUT_MILLIS + 1
SILENCE_CAP == MAX_DELAY + OFFLINE_COOLDOWN_MILLIS + 2

(***************************************************************************)
(* A datagram in the network: the command, its time in the network, and    *)
(* whether the process that sent it still runs (a history of the sender).  *)
(***************************************************************************)
Datagram(temperature, duty) ==
  [utf8 |-> TRUE, version |-> "LC2", fields |-> 5, token |-> Token,
   sequence |-> sequence, temperature_milli_c |-> temperature,
   requested_duty_percent |-> duty, age |-> 0, current |-> TRUE]

ASSUME LinkNoneAssumption == None \notin Int /\ None \notin Datagrams

Past(d) == [d EXCEPT !.current = FALSE]
Aged(d) == [d EXCEPT !.age = Upto(MAX_DELAY + 1, @ + 1)]

Disturb == disturbances > 0 /\ disturbances' = disturbances - 1

\* The agent's process ends: what it sent belongs to a past epoch.
EndEpoch ==
  /\ network' = {Past(d) : d \in network}
  /\ inForce' = IF inForce = None THEN None ELSE Past(inForce)
  /\ epochAge' = 0
-----------------------------------------------------------------------------
Init ==
  /\ Fan!Init
  /\ Agent!Init
  /\ network = {}
  /\ disturbances = MAX_DISTURBANCES
  /\ inForce = None /\ epochAge = 0 /\ silence = None /\ heard = None

Send ==
  \E t \in Readings : \E d \in Agent!FanPolicyDuties(t) :
    /\ Agent!SendCommand(t, d)
    /\ network' = network \union {Datagram(t, d)}
    /\ silence' = 0
    /\ UNCHANGED <<fanVars, disturbances, inForce, epochAge, heard>>

Skip ==
  /\ Agent!SkipWithoutSensors
  /\ Disturb
  /\ UNCHANGED <<fanVars, network, histories>>

Fail ==
  /\ Agent!Fail
  /\ Disturb
  /\ EndEpoch
  /\ UNCHANGED <<fanVars, silence, heard>>

SystemdRestart ==
  /\ Agent!SystemdRestart
  /\ UNCHANGED <<fanVars, network, disturbances, histories>>

Operate ==
  /\ Agent!OperatorRestart \/ Agent!OperatorStop
  /\ Disturb
  /\ EndEpoch
  /\ UNCHANGED <<fanVars, silence, heard>>

OperatorStart ==
  /\ Agent!OperatorStart
  /\ UNCHANGED <<fanVars, network, disturbances, histories>>

InForceAfter(d) == IF Fan!Accepts(d) THEN d ELSE inForce

\* A datagram arrives; it stays in the network, from where it may arrive again.
Deliver(d) ==
  /\ Fan!Receive(d)
  /\ inForce' = InForceAfter(d)
  /\ heard' = IF Fan!Stale \/ Fan!InOrder(d.sequence)
              THEN d.temperature_milli_c
              ELSE heard
  /\ UNCHANGED <<agentVars, network, disturbances, epochAge, silence>>

SetDuty ==
  /\ Fan!SetDuty
  /\ UNCHANGED <<agentVars, network, disturbances, histories>>

Reboot ==
  /\ Fan!Reboot
  /\ Disturb
  /\ inForce' = None /\ heard' = None
  /\ UNCHANGED <<agentVars, network, epochAge, silence>>

\* Time passes for everyone.  A datagram older than MAX_DELAY is gone: if it
\* has not arrived by then it is lost.
Tick ==
  /\ Fan!Tick
  /\ Agent!Tick
  /\ network' = {Aged(d) : d \in {e \in network : e.age < MAX_DELAY}}
  /\ inForce' = IF inForce = None THEN None ELSE Aged(inForce)
  /\ epochAge' = IF agent = "running" THEN Upto(EPOCH_CAP, epochAge + 1) ELSE 0
  /\ silence' = IF silence = None THEN None ELSE Upto(SILENCE_CAP, silence + 1)
  /\ UNCHANGED <<disturbances, heard>>

Next ==
  \/ Send \/ Skip \/ Fail \/ SystemdRestart \/ Operate \/ OperatorStart
  \/ \E d \in network : Deliver(d)
  \/ SetDuty \/ Reboot \/ Tick

Spec == Init /\ [][Next]_vars

(***************************************************************************)
(* The fan loop and the agent's loop keep running, the clock advances, and *)
(* a network that keeps carrying the running agent's datagrams delivers    *)
(* one again and again.                                                    *)
(***************************************************************************)
DeliverCurrent == \E d \in network : d.current /\ d.age = 0 /\ Deliver(d)

Fairness ==
  /\ WF_vars(SetDuty)
  /\ WF_vars(Send) /\ WF_vars(SystemdRestart)
  /\ WF_vars(Tick)
  /\ SF_vars(DeliverCurrent)

FairSpec == Spec /\ Fairness
-----------------------------------------------------------------------------
(***************************************************************************)
(* The cooler's and the agent's variables keep their types, every datagram *)
(* in the network is one the agent can have built, and the command in      *)
(* force is the one the cooler remembers.                                  *)
(***************************************************************************)
LinkTypeOK ==
  /\ Fan!TypeOK
  /\ Agent!AgentTypeOK
  /\ \A d \in network : d \in Datagrams /\ d.age <= MAX_DELAY
  /\ disturbances \in 0 .. MAX_DISTURBANCES
  /\ inForce = None <=> last_sequence = None
  /\ inForce # None => inForce \in Datagrams /\ inForce.sequence = last_sequence
  /\ epochAge \in 0 .. EPOCH_CAP
  /\ silence \in (0 .. SILENCE_CAP) \union {None}
  /\ heard \in Readings \union {None}

(***************************************************************************)
(* HostState::accept with a network no slower than SAMPLE_TIMEOUT_MILLIS:  *)
(* while one agent process runs, the cooler never goes back to a command   *)
(* that process sent earlier than the one in force, whatever is reordered, *)
(* repeated or lost and whatever an earlier process left in the network.   *)
(***************************************************************************)
NoRegression ==
  [][ \A d \in network :
        Deliver(d) /\ inForce # None /\ inForce' # inForce
          => (inForce.current /\ d.current => d.age < inForce.age) ]_vars

(***************************************************************************)
(* The README: "a new sequence epoch is accepted after five seconds".      *)
(* However the new process's numbers compare with the old one's, once the  *)
(* old datagrams are gone and the sample timeout has passed, a datagram of *)
(* the running process that arrives leaves one of its commands in force:   *)
(* HostState::accept never refuses it in favour of the old process.        *)
(***************************************************************************)
EpochAdopted ==
  \A d \in network :
    d.current /\ epochAge > MAX_DELAY + SAMPLE_TIMEOUT_MILLIS
      => InForceAfter(d).current

(***************************************************************************)
(* The README: "if communication stops, the ESP32 holds the last effective *)
(* duty for a 60-second cooldown and then stops the supplemental fan".     *)
(* Repeated datagrams cannot prolong the cooldown by more than the time    *)
(* the network can hold one.                                               *)
(***************************************************************************)
FanOffAfterSilence ==
  silence = None \/ silence > MAX_DELAY + OFFLINE_COOLDOWN_MILLIS + 1
    => current_duty = 0

(***************************************************************************)
(* The README: "reported temperatures at or above 90 C force 100%".  While *)
(* the last temperature that reached the cooler in order (or when nothing  *)
(* had been heard for the sample timeout) is that hot, the duty the fan    *)
(* loop computes is full speed until the cooldown ends.                    *)
(***************************************************************************)
ReportedHotForcesFull ==
  /\ heard # None
  /\ heard >= HARD_EMERGENCY_TEMPERATURE_MILLI_C
  /\ update_age \in 0 .. OFFLINE_COOLDOWN_MILLIS
  => Fan!duty_percent = MAX_DUTY_PERCENT

(***************************************************************************)
(* An agent that keeps running is obeyed again and again, whatever         *)
(* restarts came before: no number the cooler remembers from an earlier    *)
(* process locks the running one out for good.                             *)
(***************************************************************************)
Obeyed ==
  /\ inForce # None
  /\ inForce.current /\ inForce.age = 0
  /\ current_duty = Fan!duty_percent

RunningAgentObeyed == <>[](agent = "running") => []<>Obeyed

(***************************************************************************)
(* An agent that is stopped for good leaves the fan off for good.          *)
(***************************************************************************)
StoppedAgentFanOff == <>[](agent = "stopped") => <>[](current_duty = 0)
=============================================================================
