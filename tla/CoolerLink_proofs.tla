-------------------------- MODULE CoolerLink_proofs --------------------------
(***************************************************************************)
(* Proofs about agent, network and cooler together, for every width of the *)
(* sequence number, all time limits, delays and intervals, all readings    *)
(* and any number of disturbances.                                         *)
(***************************************************************************)
EXTENDS CoolerLink, SerialNumbers_proofs

-----------------------------------------------------------------------------
\* Ageing and the end of its process change nothing else of a datagram.
LEMMA AgedType ==
  ASSUME NEW d \in Datagrams
  PROVE  /\ Aged(d) \in Datagrams
         /\ Aged(d).sequence = d.sequence /\ Aged(d).current = d.current
         /\ Aged(d).age = IF d.age <= MAX_DELAY THEN d.age + 1 ELSE MAX_DELAY + 1
<1>1. d.age \in 0 .. MAX_DELAY + 1
  BY DEF Datagrams
<1> DEFINE age == Upto(MAX_DELAY + 1, d.age + 1)
<1>2. /\ age \in 0 .. MAX_DELAY + 1
      /\ age = IF d.age <= MAX_DELAY THEN d.age + 1 ELSE MAX_DELAY + 1
  BY <1>1, LinkNumbersAssumption DEF Upto
<1>3. Aged(d) = [d EXCEPT !.age = age]
  BY DEF Aged
<1> HIDE DEF age
<1>. QED
  BY <1>2, <1>3 DEF Datagrams

LEMMA PastType ==
  ASSUME NEW d \in Datagrams
  PROVE  /\ Past(d) \in Datagrams /\ ~ Past(d).current
         /\ Past(d).sequence = d.sequence /\ Past(d).age = d.age
BY DEF Past, Datagrams

LEMMA NewType ==
  ASSUME Agent!AgentTypeOK, NEW t \in Readings, NEW duty \in PolicyDuties \union {MAX_DUTY_PERCENT}
  PROVE  /\ Datagram(t, duty) \in Datagrams
         /\ Datagram(t, duty).age = 0 /\ Datagram(t, duty).current
         /\ Datagram(t, duty).sequence = sequence
BY LinkNumbersAssumption DEF Datagram, Datagrams, Agent!AgentTypeOK

\* What LinkTypeOK says, in a form that needs no definitions.
LEMMA LinkTypes ==
  ASSUME LinkTypeOK
  PROVE  /\ \A d \in network : d \in Datagrams /\ d.age \in 0 .. MAX_DELAY
         /\ Fan!TypeOK /\ Agent!AgentTypeOK
         /\ sequence \in 0 .. SEQUENCE_MODULUS - 1
<1>1. \A d \in network : d \in Datagrams /\ d.age <= MAX_DELAY
  BY Zenon DEF LinkTypeOK
<1>2. \A d \in Datagrams : d.age <= MAX_DELAY => d.age \in 0 .. MAX_DELAY
  BY LinkNumbersAssumption DEF Datagrams
<1>3. Fan!TypeOK /\ Agent!AgentTypeOK
  BY Zenon DEF LinkTypeOK
<1>. QED
  BY <1>1, <1>2, <1>3, Zenon DEF Agent!AgentTypeOK

\* A datagram is taken, and its command in force, or nothing changes.
LEMMA DeliverCases ==
  ASSUME LinkTypeOK, NEW d \in network, Deliver(d)
  PROVE  /\ UNCHANGED <<current_duty, agentVars, network, disturbances, epochAge, silence>>
         /\ heard' = IF Fan!Stale \/ Fan!InOrder(d.sequence)
                     THEN d.temperature_milli_c ELSE heard
         /\ inForce' = InForceAfter(d)
         /\ \/ Fan!accept(d) /\ inForce' = d /\ inForce' # None
            \/ Fan!reject(d) /\ UNCHANGED <<Fan!hostState, inForce>>
<1>1. d # None
  BY LinkTypes, LinkNoneAssumption, Zenon
<1>2. CASE Fan!accept(d)
  BY <1>1, <1>2, Zenon DEF Deliver, Fan!Receive, InForceAfter, Fan!accept
<1>3. CASE Fan!reject(d)
  BY <1>1, <1>3, Zenon DEF Deliver, Fan!Receive, InForceAfter, Fan!reject
<1>. QED
  BY <1>2, <1>3, Zenon DEF Deliver, Fan!Receive
-----------------------------------------------------------------------------
(***************************************************************************)
(* Types of the cooler: as in HostControl_proofs, of the instance.         *)
(***************************************************************************)
LEMMA FanTypeAccept ==
  ASSUME Fan!TypeOK, NEW p, Fan!accept(p), UNCHANGED current_duty
  PROVE  Fan!TypeOK'
<1>1. /\ p.sequence \in Fan!Sequences32 /\ p.temperature_milli_c \in Fan!Temperatures
      /\ p.requested_duty_percent \in Fan!CommandDuties
  BY DEF Fan!accept, Fan!Accepts, Fan!parse_command
<1>2. 0 \in 0 .. Fan!AGE_CAP /\ 0 # None /\ p.sequence # None
  BY <1>1, LinkNoneAssumption, LinkNumbersAssumption DEF Fan!AGE_CAP, Fan!Sequences32
<1>. QED
  BY <1>1, <1>2 DEF Fan!accept, Fan!TypeOK, Fan!Duties

LEMMA FanTypeUnchanged ==
  Fan!TypeOK /\ UNCHANGED fanVars => Fan!TypeOK'
BY DEF fanVars, Fan!TypeOK

LEMMA FanTypeReboot == Fan!Reboot => Fan!TypeOK'
BY LinkNumbersAssumption, LinkNoneAssumption
   DEF Fan!Reboot, Fan!TypeOK, Fan!Duties, Fan!OFFLINE_FAN_DUTY_PERCENT,
       Fan!INITIAL_PWM_DUTY_PERCENT

LEMMA FanTypeSetDuty ==
  ASSUME Fan!TypeOK, Fan!SetDuty
  PROVE  Fan!TypeOK'
<1>1. Fan!duty_percent \in Fan!Duties
  BY LinkNumbersAssumption
     DEF Fan!TypeOK, Fan!duty_percent, Fan!Duties, Fan!CommandDuties,
         Fan!OFFLINE_FAN_DUTY_PERCENT
<1>. QED
  BY <1>1 DEF Fan!SetDuty, Fan!TypeOK, Fan!hostState

\* An age grows by one tick up to its bound.
LEMMA OlderAge ==
  ASSUME Fan!TypeOK
  PROVE  /\ Fan!Older(update_age) = None <=> update_age = None
         /\ update_age # None =>
              /\ update_age \in 0 .. Fan!AGE_CAP /\ Fan!Older(update_age) \in 0 .. Fan!AGE_CAP
              /\ Fan!Older(update_age) =
                   IF update_age = Fan!AGE_CAP THEN Fan!AGE_CAP ELSE update_age + 1
BY LinkNoneAssumption, LinkNumbersAssumption DEF Fan!TypeOK, Fan!Older, Fan!AGE_CAP

LEMMA FanTypeTick ==
  ASSUME Fan!TypeOK, Fan!Tick
  PROVE  Fan!TypeOK'
<1>1. /\ Fan!Older(update_age) \in (0 .. Fan!AGE_CAP) \union {None}
      /\ (Fan!Older(update_age) = None <=> update_age = None)
  BY OlderAge, Zenon
<1>. QED
  BY <1>1 DEF Fan!Tick, Fan!TypeOK

\* And of the agent: a step of its own or none.
AgentStep == [Agent!Next]_agentVars

LEMMA AgentTypeStep ==
  ASSUME Agent!AgentTypeOK, AgentStep
  PROVE  Agent!AgentTypeOK'
<1> DEFINE Longest == IF INTERVAL > RESTART_SEC THEN INTERVAL ELSE RESTART_SEC
<1>1. /\ INTERVAL \in 0 .. Longest /\ RESTART_SEC \in 0 .. Longest /\ 0 \in 0 .. Longest
      /\ \A n \in 0 .. Longest : n # 0 => n - 1 \in 0 .. Longest
  BY LinkAgentAssumption
<1>2. /\ agent \in {"running", "failed", "stopped"}
      /\ sleep \in 0 .. Longest
      /\ sequence \in 0 .. SEQUENCE_MODULUS - 1
  BY Zenon DEF Agent!AgentTypeOK
<1>3. Agent!WrappingAdd(SEQUENCE_MODULUS, sequence, 1) \in 0 .. SEQUENCE_MODULUS - 1
  BY <1>2, LinkNumbersAssumption DEF Agent!WrappingAdd
<1>4. Agent!AgentTypeOK' <=>
        /\ agent' \in {"running", "failed", "stopped"}
        /\ sleep' \in 0 .. Longest
        /\ sequence' \in 0 .. SEQUENCE_MODULUS - 1
  BY Zenon DEF Agent!AgentTypeOK
<1> HIDE DEF Longest
<1>5. CASE \E t \in Readings : \E duty \in Agent!FanPolicyDuties(t) : Agent!SendCommand(t, duty)
  BY <1>1, <1>2, <1>3, <1>4, <1>5 DEF Agent!SendCommand
<1>6. CASE Agent!SkipWithoutSensors \/ Agent!Fail
  BY <1>1, <1>2, <1>4, <1>6 DEF Agent!SkipWithoutSensors, Agent!Fail, Agent!Exit
<1>7. CASE Agent!SystemdRestart \/ Agent!OperatorRestart \/ Agent!OperatorStart
  BY <1>1, <1>2, <1>4, <1>7
     DEF Agent!SystemdRestart, Agent!OperatorRestart, Agent!OperatorStart, Agent!Start,
         Agent!Exit
<1>8. CASE Agent!OperatorStop
  BY <1>1, <1>2, <1>4, <1>8 DEF Agent!OperatorStop
<1>9. CASE Agent!Tick
  BY <1>1, <1>2, <1>4, <1>9 DEF Agent!Tick, Agent!Due
<1>10. CASE UNCHANGED agentVars
  BY <1>2, <1>4, <1>10 DEF agentVars
<1>. QED
  BY <1>5, <1>6, <1>7, <1>8, <1>9, <1>10, Zenon DEF AgentStep, Agent!Next
-----------------------------------------------------------------------------
\* The parts of LinkTypeOK about the network and the histories.
HistoryOK ==
  /\ \A d \in network : d \in Datagrams /\ d.age <= MAX_DELAY
  /\ disturbances \in 0 .. MAX_DISTURBANCES
  /\ inForce = None <=> last_sequence = None
  /\ inForce # None => inForce \in Datagrams /\ inForce.sequence = last_sequence
  /\ epochAge \in 0 .. EPOCH_CAP
  /\ silence \in (0 .. SILENCE_CAP) \union {None}
  /\ heard \in Readings \union {None}

LEMMA LinkTypeParts == LinkTypeOK <=> Fan!TypeOK /\ Agent!AgentTypeOK /\ HistoryOK
BY Zenon DEF LinkTypeOK, HistoryOK

\* The duties that come with a reading are those of a datagram.
LEMMA SendsDatagram ==
  ASSUME LinkTypeOK, NEW t \in Readings, NEW duty \in Agent!FanPolicyDuties(t)
  PROVE  /\ Datagram(t, duty) \in Datagrams
         /\ Datagram(t, duty).age = 0 /\ Datagram(t, duty).current
         /\ Datagram(t, duty).sequence = sequence
<1>1. duty \in PolicyDuties \union {MAX_DUTY_PERCENT}
  BY Zenon DEF Agent!FanPolicyDuties
<1>. QED
  BY <1>1, LinkTypes, NewType, Zenon

\* What the clock leaves of the network.
LEMMA TickNetwork ==
  ASSUME LinkTypeOK, Tick
  PROVE  \A d \in network' :
           \E e \in network :
             /\ d = Aged(e) /\ d \in Datagrams /\ d.age <= MAX_DELAY
             /\ d.age = e.age + 1 /\ d.sequence = e.sequence /\ d.current = e.current
<1> SUFFICES ASSUME NEW d \in network'
             PROVE  \E e \in network :
                      /\ d = Aged(e) /\ d \in Datagrams /\ d.age <= MAX_DELAY
                      /\ d.age = e.age + 1 /\ d.sequence = e.sequence
                      /\ d.current = e.current
  OBVIOUS
<1>1. PICK e \in network : e.age < MAX_DELAY /\ d = Aged(e)
  BY Zenon DEF Tick
<1>2. e \in Datagrams /\ e.age \in 0 .. MAX_DELAY
  BY LinkTypes, Zenon
<1>3. /\ d \in Datagrams /\ d.sequence = e.sequence /\ d.current = e.current
      /\ d.age = IF e.age <= MAX_DELAY THEN e.age + 1 ELSE MAX_DELAY + 1
  BY <1>1, <1>2, AgedType, Zenon
<1>4. d.age = e.age + 1 /\ d.age <= MAX_DELAY
  <2> DEFINE a == d.age
             b == e.age
  <2>1. b \in 0 .. MAX_DELAY /\ b < MAX_DELAY
        /\ a = IF b <= MAX_DELAY THEN b + 1 ELSE MAX_DELAY + 1
    BY <1>1, <1>2, <1>3, Zenon
  <2> HIDE DEF a, b
  <2>2. a = b + 1 /\ a <= MAX_DELAY
    BY <2>1, LinkNumbersAssumption
  <2>. QED
    BY <2>2, Zenon DEF a, b
<1>. QED
  BY <1>1, <1>3, <1>4, Zenon

\* A disturbance is one less to come.
LEMMA DisturbType == HistoryOK /\ Disturb => disturbances' \in 0 .. MAX_DISTURBANCES
BY LinkNumbersAssumption DEF HistoryOK, Disturb

\* The end of the agent's process keeps the types of the histories.
LEMMA EndEpochType ==
  ASSUME LinkTypeOK, EndEpoch, Disturb, UNCHANGED <<fanVars, silence, heard>>
  PROVE  HistoryOK'
<1>1. HistoryOK
  BY LinkTypeParts, Zenon
<1>2. \A d \in network' : d \in Datagrams /\ d.age <= MAX_DELAY
  BY LinkTypes, PastType, <1>1, Zenon DEF EndEpoch, HistoryOK
<1>3. inForce' = None <=> inForce = None
  <2>1. inForce # None => Past(inForce) \in Datagrams
    BY <1>1, PastType, Zenon DEF HistoryOK
  <2>. QED
    BY <2>1, LinkNoneAssumption, Zenon DEF EndEpoch
<1>4. inForce' # None => inForce' \in Datagrams /\ inForce'.sequence = last_sequence
  BY <1>1, <1>3, PastType, Zenon DEF EndEpoch, HistoryOK
<1>5. 0 \in 0 .. EPOCH_CAP
  BY LinkNumbersAssumption DEF EPOCH_CAP
<1>6. last_sequence' = last_sequence /\ silence' = silence /\ heard' = heard /\ epochAge' = 0
  BY Zenon DEF fanVars, EndEpoch
<1>. QED
  BY <1>1, <1>2, <1>3, <1>4, <1>5, <1>6, DisturbType, Zenon DEF HistoryOK

\* The histories advance with the clock within their bounds.
LEMMA TickHistories ==
  ASSUME HistoryOK, Tick
  PROVE  /\ epochAge' \in 0 .. EPOCH_CAP
         /\ epochAge' = IF agent = "running" THEN Upto(EPOCH_CAP, epochAge + 1) ELSE 0
         /\ epochAge' <= epochAge + 1
         /\ silence' = None <=> silence = None
         /\ silence # None =>
              /\ silence \in 0 .. SILENCE_CAP /\ silence' \in 0 .. SILENCE_CAP
              /\ silence' = IF silence = SILENCE_CAP THEN SILENCE_CAP ELSE silence + 1
<1>1. /\ epochAge' = IF agent = "running" THEN Upto(EPOCH_CAP, epochAge + 1) ELSE 0
      /\ silence' = IF silence = None THEN None ELSE Upto(SILENCE_CAP, silence + 1)
  BY Zenon DEF Tick
<1>2. EPOCH_CAP \in Nat /\ SILENCE_CAP \in Nat
  BY LinkNumbersAssumption DEF EPOCH_CAP, SILENCE_CAP
<1>3. epochAge \in 0 .. EPOCH_CAP /\ silence \in (0 .. SILENCE_CAP) \union {None}
  BY Zenon DEF HistoryOK
<1>. QED
  BY <1>1, <1>2, <1>3, LinkNoneAssumption DEF Upto

LEMMA HistoryStep ==
  ASSUME LinkTypeOK, [Next]_vars
  PROVE  HistoryOK'
<1>1. HistoryOK
  BY LinkTypeParts, Zenon
<1>2. CASE Send
  <2>0. PICK t \in Readings : \E duty \in Agent!FanPolicyDuties(t) :
          /\ network' = network \union {Datagram(t, duty)}
          /\ silence' = 0
          /\ UNCHANGED <<fanVars, disturbances, inForce, epochAge, heard>>
    BY <1>2, Zenon DEF Send
  <2>1. PICK duty \in Agent!FanPolicyDuties(t) :
          /\ network' = network \union {Datagram(t, duty)}
          /\ silence' = 0
          /\ UNCHANGED <<fanVars, disturbances, inForce, epochAge, heard>>
    BY <2>0, Zenon
  <2>2. Datagram(t, duty) \in Datagrams /\ Datagram(t, duty).age = 0
    BY SendsDatagram, Zenon
  <2>3. 0 <= MAX_DELAY /\ 0 \in 0 .. SILENCE_CAP
    BY LinkNumbersAssumption DEF SILENCE_CAP
  <2>4. \A d \in network' : d \in Datagrams /\ d.age <= MAX_DELAY
    BY <1>1, <2>1, <2>2, <2>3, Zenon DEF HistoryOK
  <2>. QED
    BY <1>1, <2>1, <2>3, <2>4, Zenon DEF HistoryOK, fanVars
<1>3. CASE Skip
  BY <1>1, <1>3, DisturbType, Zenon DEF Skip, HistoryOK, fanVars, histories
<1>4. CASE Fail \/ Operate
  BY <1>4, EndEpochType, Zenon DEF Fail, Operate
<1>5. CASE SystemdRestart \/ OperatorStart
  BY <1>1, <1>5, Zenon DEF SystemdRestart, OperatorStart, HistoryOK, fanVars, histories
<1>6. ASSUME NEW d \in network, Deliver(d) PROVE HistoryOK'
  <2>1. /\ UNCHANGED <<network, disturbances, epochAge, silence>>
        /\ heard' \in {d.temperature_milli_c, heard}
        /\ \/ Fan!accept(d) /\ inForce' = d /\ inForce' # None
           \/ UNCHANGED <<Fan!hostState, inForce>>
    BY <1>6, DeliverCases, Zenon DEF agentVars
  <2>2. d \in Datagrams
    BY LinkTypes, Zenon
  <2>3. d.temperature_milli_c \in Readings /\ d.sequence \in Int
    BY <2>2 DEF Datagrams
  <2>4. heard' \in Readings \union {None}
    BY <1>1, <2>1, <2>3, Zenon DEF HistoryOK
  <2>5. CASE Fan!accept(d) /\ inForce' = d /\ inForce' # None
    <3>1. last_sequence' = d.sequence /\ last_sequence' # None
      BY <2>3, <2>5, LinkNoneAssumption, Zenon DEF Fan!accept
    <3>. QED
      BY <1>1, <2>1, <2>2, <2>4, <2>5, <3>1, Zenon DEF HistoryOK
  <2>6. CASE UNCHANGED <<Fan!hostState, inForce>>
    BY <1>1, <2>1, <2>4, <2>6, Zenon DEF HistoryOK, Fan!hostState
  <2>. QED
    BY <2>1, <2>5, <2>6, Zenon
<1>7. CASE SetDuty
  BY <1>1, <1>7, Zenon
     DEF SetDuty, Fan!SetDuty, Fan!hostState, HistoryOK, agentVars, histories
<1>8. CASE Reboot
  BY <1>1, <1>8, DisturbType, Zenon DEF Reboot, Fan!Reboot, HistoryOK, agentVars
<1>9. CASE Tick
  <2>1. \A d \in network' : d \in Datagrams /\ d.age <= MAX_DELAY
    BY <1>9, TickNetwork, Zenon
  <2>2. /\ inForce' = IF inForce = None THEN None ELSE Aged(inForce)
        /\ last_sequence' = last_sequence
        /\ disturbances' = disturbances /\ heard' = heard
    BY <1>9, Zenon DEF Tick, Fan!Tick
  <2>3. inForce # None =>
          Aged(inForce) \in Datagrams /\ Aged(inForce).sequence = inForce.sequence
    BY <1>1, AgedType, Zenon DEF HistoryOK
  <2>4. /\ inForce' = None <=> inForce = None
        /\ inForce' # None => inForce' \in Datagrams /\ inForce'.sequence = last_sequence
    BY <1>1, <2>2, <2>3, LinkNoneAssumption, Zenon DEF HistoryOK
  <2>5. epochAge' \in 0 .. EPOCH_CAP /\ silence' \in (0 .. SILENCE_CAP) \union {None}
    BY <1>1, <1>9, TickHistories, Zenon
  <2>. QED
    BY <1>1, <2>1, <2>2, <2>4, <2>5, Zenon DEF HistoryOK
<1>10. CASE UNCHANGED vars
  BY <1>1, <1>10, Zenon DEF vars, fanVars, agentVars, histories, HistoryOK
<1>. QED
  BY <1>2, <1>3, <1>4, <1>5, <1>6, <1>7, <1>8, <1>9, <1>10, Zenon DEF Next

LEMMA FanTypeStep ==
  ASSUME LinkTypeOK, [Next]_vars
  PROVE  Fan!TypeOK'
<1>1. Fan!TypeOK
  BY LinkTypes, Zenon
<1>2. ASSUME NEW d \in network, Deliver(d) PROVE Fan!TypeOK'
  <2>1. CASE Fan!accept(d)
    BY <1>1, <1>2, <2>1, FanTypeAccept, DeliverCases, Zenon
  <2>2. CASE UNCHANGED Fan!hostState
    BY <1>1, <1>2, <2>2, FanTypeUnchanged, DeliverCases, Zenon DEF Fan!hostState, fanVars
  <2>. QED
    BY <1>2, <2>1, <2>2, DeliverCases, Zenon
<1>3. CASE SetDuty
  BY <1>1, <1>3, FanTypeSetDuty, Zenon DEF SetDuty
<1>4. CASE Reboot
  BY <1>4, FanTypeReboot, Zenon DEF Reboot
<1>5. CASE Tick
  BY <1>1, <1>5, FanTypeTick, Zenon DEF Tick
<1>6. CASE \/ Send \/ Skip \/ Fail \/ SystemdRestart \/ Operate \/ OperatorStart
           \/ UNCHANGED vars
  <2>1. UNCHANGED fanVars
    BY <1>6, Zenon DEF Send, Skip, Fail, SystemdRestart, Operate, OperatorStart, vars
  <2>. QED
    BY <1>1, <2>1, FanTypeUnchanged, Zenon
<1>. QED
  BY <1>2, <1>3, <1>4, <1>5, <1>6, Zenon DEF Next

\* Every step of the link is a step of the agent or leaves it alone.
LEMMA StepOfAgent == [Next]_vars => AgentStep
<1> SUFFICES ASSUME [Next]_vars PROVE AgentStep
  OBVIOUS
<1>1. CASE \/ Send \/ Skip \/ Fail \/ SystemdRestart \/ Operate \/ OperatorStart \/ Tick
  BY <1>1, Zenon
     DEF Send, Skip, Fail, SystemdRestart, Operate, OperatorStart, Tick, AgentStep,
         Agent!Next
<1>2. CASE SetDuty \/ Reboot \/ UNCHANGED vars \/ \E d \in network : Deliver(d)
  <2>1. UNCHANGED agentVars
    BY <1>2, Zenon DEF SetDuty, Reboot, vars, Deliver
  <2>. QED
    BY <2>1, Zenon DEF AgentStep
<1>. QED
  BY <1>1, <1>2, Zenon DEF Next

LEMMA LinkTypeStep == LinkTypeOK /\ [Next]_vars => LinkTypeOK'
<1> SUFFICES ASSUME LinkTypeOK, [Next]_vars PROVE LinkTypeOK'
  OBVIOUS
<1>1. Agent!AgentTypeOK'
  BY LinkTypes, StepOfAgent, AgentTypeStep, Zenon
<1>. QED
  BY <1>1, FanTypeStep, HistoryStep, Zenon DEF LinkTypeOK, HistoryOK

LEMMA LinkTypeInit == Init => LinkTypeOK
<1> SUFFICES ASSUME Init PROVE LinkTypeOK
  OBVIOUS
<1>1. Fan!TypeOK
  BY LinkNumbersAssumption, LinkNoneAssumption
     DEF Init, Fan!Init, Fan!TypeOK, Fan!Duties, Fan!OFFLINE_FAN_DUTY_PERCENT,
         Fan!INITIAL_PWM_DUTY_PERCENT
<1>2. Agent!AgentTypeOK
  BY LinkNumbersAssumption, LinkAgentAssumption DEF Init, Agent!Init, Agent!AgentTypeOK
<1>3. HistoryOK
  BY LinkNumbersAssumption DEF Init, Fan!Init, HistoryOK, EPOCH_CAP
<1>. QED
  BY <1>1, <1>2, <1>3, LinkTypeParts

(***************************************************************************)
(* Agent, network and cooler keep their types, and the command in force is *)
(* the one the cooler remembers, through every restart, loss and delay.    *)
(***************************************************************************)
THEOREM LinkTypeCorrect == Spec => []LinkTypeOK
BY LinkTypeInit, LinkTypeStep, PTL DEF Spec
-----------------------------------------------------------------------------
(***************************************************************************)
(* The composition runs the agent of HostAgent: the network and the cooler *)
(* give it no step that run, systemd or the operator would not take.       *)
(***************************************************************************)
THEOREM LinkImplementsAgent == Spec => Agent!Spec
<1>1. Init => Agent!Init
  BY DEF Init
<1>2. [Next]_vars => [Agent!Next]_(Agent!agentVars)
  BY StepOfAgent, Zenon DEF AgentStep, agentVars, Agent!agentVars
<1>. QED
  BY <1>1, <1>2, PTL DEF Spec, Agent!Spec

\* Every step of the link is a step of the cooler of HostControl, fed by the
\* datagrams an agent can build, or leaves the cooler alone.
LEMMA StepOfHostControl == LinkTypeOK /\ [Next]_vars => [Fan!Next]_fanVars
<1> SUFFICES ASSUME LinkTypeOK, [Next]_vars PROVE [Fan!Next]_fanVars
  OBVIOUS
<1>1. CASE \/ Send \/ Skip \/ Fail \/ SystemdRestart \/ Operate \/ OperatorStart
  BY <1>1, Zenon DEF Send, Skip, Fail, SystemdRestart, Operate, OperatorStart
<1>2. ASSUME NEW d \in network, Deliver(d)
      PROVE  [Fan!Next]_fanVars
  <2>1. d \in Datagrams
    BY Zenon DEF LinkTypeOK
  <2>. QED
    BY <1>2, <2>1, Zenon DEF Deliver, Fan!Next
<1>3. CASE SetDuty \/ Reboot \/ Tick
  BY <1>3, Zenon DEF SetDuty, Reboot, Tick, Fan!Next
<1>4. CASE UNCHANGED vars
  BY <1>4, Zenon DEF vars, fanVars
<1>. QED
  BY <1>1, <1>2, <1>3, <1>4, Zenon DEF Next

(***************************************************************************)
(* The composition runs the cooler of HostControl with the datagrams of    *)
(* Datagrams: whatever the network loses, repeats or reorders, the command *)
(* state and the fan change only as accept, the fan loop, time and reboots *)
(* change them, so what is proved of HostControl for every set of          *)
(* datagrams holds of a cooler that an agent commands over this network.   *)
(***************************************************************************)
THEOREM LinkImplementsHostControl == Spec => Fan!Spec
<1>1. Init => Fan!Init
  BY DEF Init
<1>2. [Fan!Next]_fanVars => [Fan!Next]_(Fan!vars)
  BY Zenon DEF fanVars, Fan!vars
<1>. QED
  BY <1>1, <1>2, LinkTypeCorrect, StepOfHostControl, PTL DEF Spec, Fan!Spec
-----------------------------------------------------------------------------
(***************************************************************************)
(* Silence.  Whatever is still in the network was sent no later than the   *)
(* last datagram, and what the cooler took was in the network for at most  *)
(* MAX_DELAY; once the cooldown is over the fan loop has stopped the fan.  *)
(***************************************************************************)
Known ==
  /\ \A d \in network : silence # None /\ silence <= d.age
  /\ update_age # None => silence # None /\ silence <= update_age + MAX_DELAY
  /\ update_age \in {None, Fan!AGE_CAP} => current_duty = 0

\* One pass of the agent's loop, and the datagram that it sends.
LEMMA SendCases ==
  ASSUME LinkTypeOK, Send
  PROVE  /\ agent = "running" /\ sleep = 0 /\ agent' = agent /\ sleep' = INTERVAL
         /\ sequence' = WrappingAdd(SEQUENCE_MODULUS, sequence, 1)
         /\ silence' = 0
         /\ UNCHANGED <<fanVars, disturbances, inForce, epochAge, heard>>
         /\ \E p \in Datagrams :
              /\ p.age = 0 /\ p.current /\ p.sequence = sequence
              /\ network' = network \union {p}
<1>1. PICK t \in Readings : \E duty \in Agent!FanPolicyDuties(t) :
        /\ Agent!SendCommand(t, duty)
        /\ network' = network \union {Datagram(t, duty)}
        /\ silence' = 0
        /\ UNCHANGED <<fanVars, disturbances, inForce, epochAge, heard>>
  BY Zenon DEF Send
<1>2. PICK duty \in Agent!FanPolicyDuties(t) :
        /\ Agent!SendCommand(t, duty)
        /\ network' = network \union {Datagram(t, duty)}
        /\ silence' = 0
        /\ UNCHANGED <<fanVars, disturbances, inForce, epochAge, heard>>
  BY <1>1, Zenon
<1>3. /\ agent = "running" /\ sleep = 0 /\ agent' = agent /\ sleep' = INTERVAL
      /\ sequence' = WrappingAdd(SEQUENCE_MODULUS, sequence, 1)
  BY <1>2 DEF Agent!SendCommand, Agent!Due, Agent!WrappingAdd, WrappingAdd
<1>. QED
  BY <1>2, <1>3, SendsDatagram, Zenon

\* With no age, or one past the cooldown, the fan loop stops the fan.
LEMMA OffPastCooldown ==
  update_age \in {None, Fan!AGE_CAP, OFFLINE_COOLDOWN_MILLIS + 1} => Fan!duty_percent = 0
BY LinkNumbersAssumption, LinkNoneAssumption
   DEF Fan!AGE_CAP, Fan!duty_percent, Fan!OFFLINE_FAN_DUTY_PERCENT

\* Steps that touch neither the cooler nor the network nor its silence, and
\* those that only mark what is in it.
LEMMA KnownKeeps ==
  ASSUME Known, UNCHANGED <<update_age, current_duty, silence>>,
         \A d \in network' : \E e \in network : d.age = e.age
  PROVE  Known'
BY Zenon DEF Known, Fan!AGE_CAP

LEMMA KnownStep ==
  ASSUME LinkTypeOK, Known, [Next]_vars
  PROVE  Known'
<1>0. /\ MAX_DELAY \in Nat /\ Fan!AGE_CAP \in Nat
      /\ SILENCE_CAP = Fan!AGE_CAP + MAX_DELAY
      /\ Fan!AGE_CAP = OFFLINE_COOLDOWN_MILLIS + 2
      /\ OFFLINE_COOLDOWN_MILLIS \in Nat /\ Fan!AGE_CAP' = Fan!AGE_CAP
  BY LinkNumbersAssumption DEF Fan!AGE_CAP, SILENCE_CAP
<1>1. HistoryOK /\ Fan!TypeOK
  BY LinkTypeParts, Zenon
<1>2. CASE Send
  <2>1. PICK p \in Datagrams : p.age = 0 /\ network' = network \union {p}
    BY <1>2, SendCases, Zenon
  <2>2. silence' = 0 /\ update_age' = update_age /\ current_duty' = current_duty
    BY <1>2, SendCases, Zenon DEF fanVars
  <2>3. \A d \in network' : d.age \in Nat
    BY <2>1, LinkTypes
  <2>4. silence' # None /\ \A d \in network' : silence' <= d.age
    BY <2>2, <2>3, LinkNoneAssumption
  <2>5. update_age' # None => silence' <= update_age' + MAX_DELAY
    BY <1>0, <1>1, <2>2 DEF Fan!TypeOK
  <2>. QED
    BY <1>0, <2>2, <2>4, <2>5, Zenon DEF Known
<1>3. CASE Skip \/ SystemdRestart \/ OperatorStart \/ UNCHANGED vars
  BY <1>3, KnownKeeps, Zenon
     DEF Skip, SystemdRestart, OperatorStart, vars, histories, fanVars
<1>4. CASE Fail \/ Operate
  <2>1. EndEpoch /\ UNCHANGED <<fanVars, silence, heard>>
    BY <1>4, Zenon DEF Fail, Operate
  <2>2. \A d \in network' : \E e \in network : d.age = e.age
    BY <2>1, LinkTypes, PastType, Zenon DEF EndEpoch
  <2>. QED
    BY <2>1, <2>2, KnownKeeps, Zenon DEF fanVars
<1>5. ASSUME NEW d \in network, Deliver(d) PROVE Known'
  <2>1. /\ UNCHANGED <<current_duty, network, silence>>
        /\ Fan!accept(d) \/ UNCHANGED Fan!hostState
    BY <1>5, DeliverCases, Zenon
  <2>2. CASE Fan!accept(d)
    <3>1. update_age' = 0 /\ silence' = silence /\ silence # None /\ silence <= d.age
      BY <2>1, <2>2, Zenon DEF Fan!accept, Known
    <3>2. silence \in Nat /\ d.age \in 0 .. MAX_DELAY
      BY <1>1, <3>1, LinkTypes DEF HistoryOK
    <3>3. update_age' # None /\ update_age' # Fan!AGE_CAP
          /\ silence' <= update_age' + MAX_DELAY
      BY <1>0, <3>1, <3>2, LinkNoneAssumption
    <3>. QED
      BY <1>0, <2>1, <3>1, <3>3, Zenon DEF Known
  <2>3. CASE UNCHANGED Fan!hostState
    BY <2>1, <2>3, KnownKeeps, Zenon DEF Fan!hostState
  <2>. QED
    BY <2>1, <2>2, <2>3, Zenon
<1>6. CASE SetDuty
  <2>1. /\ UNCHANGED <<update_age, network, silence>> /\ current_duty' = Fan!duty_percent
    BY <1>6, Zenon DEF SetDuty, Fan!SetDuty, Fan!hostState, histories
  <2>. QED
    BY <1>0, <2>1, OffPastCooldown, Zenon DEF Known
<1>7. CASE Reboot
  <2>1. update_age' = None /\ current_duty' = 0 /\ UNCHANGED <<network, silence>>
    BY <1>7, Zenon DEF Reboot, Fan!Reboot, Fan!INITIAL_PWM_DUTY_PERCENT
  <2>. QED
    BY <2>1, Zenon DEF Known
<1>8. CASE Tick
  <2>1. /\ current_duty = Fan!duty_percent /\ current_duty' = current_duty
        /\ update_age' = Fan!Older(update_age)
    BY <1>8, Zenon DEF Tick, Fan!Tick
  <2>2. /\ silence' = None <=> silence = None
        /\ silence # None =>
             /\ silence \in 0 .. SILENCE_CAP
             /\ silence' = IF silence = SILENCE_CAP THEN SILENCE_CAP ELSE silence + 1
    BY <1>1, <1>8, TickHistories, Zenon
  <2>3. ASSUME NEW d \in network' PROVE silence' # None /\ silence' <= d.age
    <3>1. PICK e \in network : d.age = e.age + 1
      BY <1>8, TickNetwork, Zenon
    <3>2. silence # None /\ silence <= e.age /\ e.age \in 0 .. MAX_DELAY
      BY LinkTypes, Zenon DEF Known
    <3>3. silence' <= e.age + 1
      BY <1>0, <2>2, <3>2
    <3>. QED
      BY <2>2, <3>1, <3>2, <3>3, Zenon
  <2>4. /\ update_age' = None <=> update_age = None
        /\ update_age # None =>
             /\ update_age \in 0 .. Fan!AGE_CAP /\ update_age' \in 0 .. Fan!AGE_CAP
             /\ update_age' =
                  IF update_age = Fan!AGE_CAP THEN Fan!AGE_CAP ELSE update_age + 1
    BY <1>1, <2>1, OlderAge, Zenon
  <2>5. ASSUME update_age' # None
        PROVE  silence' # None /\ silence' <= update_age' + MAX_DELAY
    <3>1. silence # None /\ silence <= update_age + MAX_DELAY
      BY <2>4, <2>5, Zenon DEF Known
    <3>. QED
      BY <1>0, <2>2, <2>4, <2>5, <3>1
  <2>6. ASSUME update_age' \in {None, Fan!AGE_CAP} PROVE current_duty' = 0
    <3>1. update_age \in {None, Fan!AGE_CAP, OFFLINE_COOLDOWN_MILLIS + 1}
      BY <1>0, <2>4, <2>6
    <3>. QED
      BY <2>1, <3>1, OffPastCooldown, Zenon
  <2>. QED
    BY <1>0, <2>3, <2>5, <2>6, Zenon DEF Known
<1>. QED
  BY <1>2, <1>3, <1>4, <1>5, <1>6, <1>7, <1>8, Zenon DEF Next

LEMMA KnownInit == Init => Known
BY DEF Init, Fan!Init, Fan!INITIAL_PWM_DUTY_PERCENT, Known

LEMMA KnownStopsFan == LinkTypeOK /\ Known => FanOffAfterSilence
<1> SUFFICES ASSUME LinkTypeOK, Known,
                    silence = None \/ silence > MAX_DELAY + OFFLINE_COOLDOWN_MILLIS + 1
             PROVE  current_duty = 0
  BY Zenon DEF FanOffAfterSilence
<1>1. HistoryOK /\ Fan!TypeOK
  BY LinkTypeParts, Zenon
<1>2. CASE update_age = None
  BY <1>2, Zenon DEF Known
<1>3. CASE update_age # None
  <2>1. silence # None /\ silence <= update_age + MAX_DELAY
    BY <1>3, Zenon DEF Known
  <2>2. silence \in Nat /\ update_age \in 0 .. Fan!AGE_CAP
    BY <1>1, <1>3, <2>1 DEF HistoryOK, Fan!TypeOK
  <2>3. update_age = Fan!AGE_CAP
    BY <2>1, <2>2, LinkNumbersAssumption DEF Fan!AGE_CAP
  <2>. QED
    BY <2>3, Zenon DEF Known
<1>. QED
  BY <1>2, <1>3

(***************************************************************************)
(* Whatever the network repeats and delays, and whoever restarts when, a   *)
(* silent agent's cooler stops its fan.                                    *)
(***************************************************************************)
THEOREM SilenceStopsFan == Spec => []FanOffAfterSilence
<1>1. LinkTypeOK /\ Known /\ [Next]_vars => (LinkTypeOK /\ Known)'
  BY LinkTypeStep, KnownStep, Zenon
<1>. QED
  BY <1>1, LinkTypeInit, KnownInit, KnownStopsFan, PTL DEF Spec
-----------------------------------------------------------------------------
(***************************************************************************)
(* Heat.  Every reading and duty of the agent is one the cooler can        *)
(* understand, so a datagram that arrives in order, or after the sample    *)
(* timeout, is taken; the cooler then works with the temperature it heard. *)
(***************************************************************************)
Understood ==
  /\ Readings \subseteq MIN_TEMPERATURE_MILLI_C .. MAX_TEMPERATURE_MILLI_C
  /\ PolicyDuties \subseteq MIN_DUTY_PERCENT .. MAX_DUTY_PERCENT

Heard == heard # None => update_age # None /\ temperature_milli_c = heard

LEMMA UnderstoodAccepts ==
  ASSUME Understood, NEW d \in Datagrams
  PROVE  Fan!Accepts(d) <=> Fan!Stale \/ Fan!InOrder(d.sequence)
<1>1. /\ d.utf8 /\ d.version = "LC2" /\ d.fields = 5 /\ d.token = Token
      /\ d.sequence \in 0 .. SEQUENCE_MODULUS - 1 /\ d.temperature_milli_c \in Readings
      /\ d.requested_duty_percent \in PolicyDuties \union {MAX_DUTY_PERCENT}
  BY DEF Datagrams
<1>2. PolicyDuties \union {MAX_DUTY_PERCENT} \subseteq Fan!CommandDuties
  BY LinkNumbersAssumption DEF Understood, Fan!CommandDuties
<1>3. Fan!parse_command(Token, d)
  BY <1>1, <1>2, Zenon DEF Understood, Fan!parse_command, Fan!Sequences32, Fan!Temperatures
<1>. QED
  BY <1>3, Zenon DEF Fan!Accepts

LEMMA HeardStep ==
  ASSUME Understood, LinkTypeOK, Heard, [Next]_vars
  PROVE  Heard'
<1>1. ASSUME NEW d \in network, Deliver(d) PROVE Heard'
  <2>1. d \in Datagrams
    BY LinkTypes, Zenon
  <2>2. CASE Fan!accept(d)
    <3>0. 0 # None
      BY LinkNoneAssumption
    <3>1. heard' = d.temperature_milli_c
      BY <1>1, <2>1, <2>2, UnderstoodAccepts, DeliverCases, Zenon DEF Fan!accept
    <3>2. update_age' # None /\ temperature_milli_c' = d.temperature_milli_c
      BY <2>2, <3>0, Zenon DEF Fan!accept
    <3>. QED
      BY <3>1, <3>2, Zenon DEF Heard
  <2>3. CASE Fan!reject(d) /\ UNCHANGED Fan!hostState
    <3>1. heard' = heard
      BY <1>1, <2>1, <2>3, UnderstoodAccepts, DeliverCases, Zenon DEF Fan!reject
    <3>. QED
      BY <2>3, <3>1, Zenon DEF Heard, Fan!hostState
  <2>. QED
    BY <1>1, <2>2, <2>3, DeliverCases, Zenon
<1>2. CASE SetDuty
  BY <1>2, Zenon DEF SetDuty, Fan!SetDuty, Fan!hostState, histories, Heard
<1>3. CASE Reboot
  BY <1>3, Zenon DEF Reboot, Heard
<1>4. CASE Tick
  <2>1. /\ update_age' = Fan!Older(update_age)
        /\ heard' = heard /\ temperature_milli_c' = temperature_milli_c
    BY <1>4, Zenon DEF Tick, Fan!Tick
  <2>. QED
    BY <2>1, LinkTypes, OlderAge, Zenon DEF Heard
<1>5. CASE \/ Send \/ Skip \/ Fail \/ SystemdRestart \/ Operate \/ OperatorStart
           \/ UNCHANGED vars
  <2>1. UNCHANGED fanVars /\ heard' = heard
    BY <1>5, Zenon
       DEF Send, Skip, Fail, SystemdRestart, Operate, OperatorStart, vars, histories
  <2>. QED
    BY <2>1, Zenon DEF fanVars, Heard
<1>. QED
  BY <1>1, <1>2, <1>3, <1>4, <1>5, Zenon DEF Next

LEMMA HeardForcesFull == LinkTypeOK /\ Heard => ReportedHotForcesFull
BY Zenon DEF Heard, ReportedHotForcesFull, Fan!duty_percent

(***************************************************************************)
(* A hot report that arrives is never weakened by what comes late, by a    *)
(* restart or by the clock: until the cooldown ends the fan runs at full   *)
(* speed unless a cooler report is taken.                                  *)
(***************************************************************************)
THEOREM HotReportsForceFull ==
  ASSUME Understood
  PROVE  Spec => []ReportedHotForcesFull
<1>1. Init => Heard
  BY Zenon DEF Init, Heard
<1>2. LinkTypeOK /\ Heard /\ [Next]_vars => (LinkTypeOK /\ Heard)'
  BY LinkTypeStep, HeardStep, Zenon
<1>. QED
  BY <1>1, <1>2, LinkTypeInit, HeardForcesFull, PTL DEF Spec
-----------------------------------------------------------------------------
(***************************************************************************)
(* Epochs.  What an earlier process left in the network is no younger than *)
(* the running one, and a command of an earlier process was taken at most  *)
(* MAX_DELAY after its process ended.                                      *)
(***************************************************************************)
Epoch ==
  /\ agent # "running" => \A d \in network : ~ d.current
  /\ \A d \in network : ~ d.current => epochAge <= d.age
  /\ inForce # None /\ ~ inForce.current => epochAge <= update_age + MAX_DELAY

\* The cooldown covers the sample timeout, as the constants of control.rs do.
Cooling == SAMPLE_TIMEOUT_MILLIS <= OFFLINE_COOLDOWN_MILLIS

\* A command is in force exactly when the cooler counts its age.
LEMMA InForceHasAge ==
  ASSUME LinkTypeOK
  PROVE  /\ inForce = None <=> update_age = None
         /\ update_age # None => update_age \in 0 .. Fan!AGE_CAP
         /\ epochAge \in 0 .. EPOCH_CAP
BY Zenon DEF LinkTypeOK, Fan!TypeOK

\* Only the agent's own steps change what runs.
LEMMA EpochKeeps ==
  ASSUME Epoch, UNCHANGED <<agent, network, inForce, epochAge, update_age>>
  PROVE  Epoch'
BY Zenon DEF Epoch

LEMMA EndEpochStep ==
  ASSUME LinkTypeOK, EndEpoch, UNCHANGED fanVars
  PROVE  Epoch'
<1>1. \A d \in network' : ~ d.current /\ 0 <= d.age
  <2> SUFFICES ASSUME NEW d \in network' PROVE ~ d.current /\ 0 <= d.age
    OBVIOUS
  <2>1. PICK e \in network : d = Past(e)
    BY Zenon DEF EndEpoch
  <2>2. ~ d.current /\ d.age = e.age /\ e.age \in 0 .. MAX_DELAY
    BY <2>1, LinkTypes, PastType, Zenon
  <2>. QED
    BY <2>2
<1>2. ASSUME inForce' # None PROVE 0 <= update_age + MAX_DELAY
  <2>1. update_age \in 0 .. Fan!AGE_CAP
    BY <1>2, InForceHasAge, Zenon DEF EndEpoch
  <2>. QED
    BY <2>1, LinkNumbersAssumption
<1>3. update_age' = update_age /\ epochAge' = 0
  BY Zenon DEF EndEpoch, fanVars
<1>. QED
  BY <1>1, <1>2, <1>3, Zenon DEF Epoch

LEMMA EpochStep ==
  ASSUME Cooling, LinkTypeOK, Epoch, [Next]_vars
  PROVE  Epoch'
<1>1. CASE Send
  <2>1. PICK p \in Datagrams : p.current /\ network' = network \union {p}
    BY <1>1, SendCases, Zenon
  <2>2. /\ agent = "running" /\ agent' = agent
        /\ inForce' = inForce /\ epochAge' = epochAge /\ update_age' = update_age
    BY <1>1, SendCases, Zenon DEF fanVars
  <2>. QED
    BY <2>1, <2>2, Zenon DEF Epoch
<1>2. CASE Skip \/ SetDuty \/ UNCHANGED vars
  BY <1>2, EpochKeeps, Zenon
     DEF Skip, SetDuty, vars, histories, fanVars, agentVars, Agent!SkipWithoutSensors,
         Fan!SetDuty, Fan!hostState
<1>3. CASE Fail \/ Operate
  BY <1>3, EndEpochStep, Zenon DEF Fail, Operate
<1>4. CASE SystemdRestart \/ OperatorStart
  <2>1. agent # "running" /\ UNCHANGED <<fanVars, network, histories>>
    BY <1>4 DEF SystemdRestart, OperatorStart, Agent!SystemdRestart, Agent!OperatorStart
  <2>. QED
    BY <2>1, Zenon DEF Epoch, fanVars, histories
<1>5. ASSUME NEW d \in network, Deliver(d) PROVE Epoch'
  <2>1. /\ UNCHANGED <<agent, network, epochAge>>
        /\ \/ Fan!accept(d) /\ inForce' = d
           \/ UNCHANGED <<Fan!hostState, inForce>>
    BY <1>5, DeliverCases, Zenon DEF agentVars
  <2>2. CASE Fan!accept(d) /\ inForce' = d
    <3>1. update_age' = 0
      BY <2>2, Zenon DEF Fan!accept
    <3>2. ASSUME ~ d.current PROVE epochAge' <= update_age' + MAX_DELAY
      <4>1. epochAge <= d.age /\ d.age \in 0 .. MAX_DELAY /\ epochAge \in 0 .. EPOCH_CAP
        BY <3>2, LinkTypes, InForceHasAge, Zenon DEF Epoch
      <4>. QED
        BY <2>1, <3>1, <4>1, LinkNumbersAssumption
    <3>. QED
      BY <2>1, <2>2, <3>2, Zenon DEF Epoch
  <2>3. CASE UNCHANGED <<Fan!hostState, inForce>>
    BY <2>1, <2>3, Zenon DEF Epoch, Fan!hostState
  <2>. QED
    BY <2>1, <2>2, <2>3, Zenon
<1>6. CASE Reboot
  BY <1>6, Zenon DEF Reboot, agentVars, Epoch
<1>7. CASE Tick
  <2>1. /\ agent' = agent /\ update_age' = Fan!Older(update_age)
        /\ inForce' = IF inForce = None THEN None ELSE Aged(inForce)
    BY <1>7, Zenon DEF Tick, Fan!Tick, Agent!Tick
  <2>2. /\ epochAge' = IF agent = "running" THEN Upto(EPOCH_CAP, epochAge + 1) ELSE 0
        /\ epochAge' <= epochAge + 1 /\ epochAge' \in 0 .. EPOCH_CAP
    BY <1>7, LinkTypeParts, TickHistories, Zenon
  <2>3. ASSUME agent' # "running", NEW d \in network' PROVE ~ d.current
    BY <1>7, <2>1, <2>3, TickNetwork, Zenon DEF Epoch
  <2>4. ASSUME NEW d \in network', ~ d.current PROVE epochAge' <= d.age
    <3>1. PICK e \in network : d.age = e.age + 1 /\ d.current = e.current
      BY <1>7, TickNetwork, Zenon
    <3>2. epochAge <= e.age /\ e.age \in 0 .. MAX_DELAY /\ epochAge \in 0 .. EPOCH_CAP
      BY <2>4, <3>1, LinkTypes, InForceHasAge, Zenon DEF Epoch
    <3>3. epochAge' <= e.age + 1
      BY <2>2, <3>2, LinkNumbersAssumption
    <3>. QED
      BY <3>1, <3>3
  <2>5. ASSUME inForce' # None, ~ inForce'.current
        PROVE  epochAge' <= update_age' + MAX_DELAY
    <3>1. inForce # None /\ ~ inForce.current
      BY <2>1, <2>5, AgedType, LinkTypeParts, Zenon DEF HistoryOK
    <3>2. epochAge <= update_age + MAX_DELAY
      BY <3>1, Zenon DEF Epoch
    <3>3. /\ update_age \in 0 .. Fan!AGE_CAP /\ epochAge \in 0 .. EPOCH_CAP
          /\ update_age' =
               IF update_age = Fan!AGE_CAP THEN Fan!AGE_CAP ELSE update_age + 1
      BY <2>1, <3>1, LinkTypes, InForceHasAge, OlderAge, Zenon
    <3>4. EPOCH_CAP <= Fan!AGE_CAP + MAX_DELAY
      BY LinkNumbersAssumption DEF Cooling, EPOCH_CAP, Fan!AGE_CAP
    <3>. QED
      BY <2>2, <3>2, <3>3, <3>4, LinkNumbersAssumption DEF EPOCH_CAP, Fan!AGE_CAP
  <2>. QED
    BY <2>3, <2>4, <2>5, Zenon DEF Epoch
<1>. QED
  BY <1>1, <1>2, <1>3, <1>4, <1>5, <1>6, <1>7, Zenon DEF Next

LEMMA EpochInit == Init => Epoch
BY Zenon DEF Init, Epoch

\* A command of an earlier process that is still in force is stale by then.
LEMMA EpochAdopts ==
  ASSUME Understood, LinkTypeOK, Epoch
  PROVE  EpochAdopted
<1> SUFFICES ASSUME NEW d \in network, d.current,
                    epochAge > MAX_DELAY + SAMPLE_TIMEOUT_MILLIS
             PROVE  InForceAfter(d).current
  BY Zenon DEF EpochAdopted
<1>1. CASE Fan!Accepts(d)
  BY <1>1, Zenon DEF InForceAfter
<1>2. CASE ~ Fan!Accepts(d)
  <2>1. ~ Fan!Stale /\ ~ Fan!InOrder(d.sequence)
    BY <1>2, LinkTypes, UnderstoodAccepts, Zenon
  <2>2. update_age \in 0 .. SAMPLE_TIMEOUT_MILLIS /\ last_sequence # None
    BY <2>1, Zenon DEF Fan!Stale, Fan!InOrder
  <2>3. inForce # None
    BY <2>2, LinkTypeParts, Zenon DEF HistoryOK
  <2>4. ~ (epochAge <= update_age + MAX_DELAY)
    BY <2>2, InForceHasAge, LinkNumbersAssumption
  <2>. QED
    BY <1>2, <2>3, <2>4, Zenon DEF Epoch, InForceAfter
<1>. QED
  BY <1>1, <1>2, Zenon

(***************************************************************************)
(* A restarted agent is obeyed once the sample timeout has passed,         *)
(* wherever its first sequence number lies.                                *)
(***************************************************************************)
THEOREM RestartedAgentAdopted ==
  ASSUME Understood, Cooling
  PROVE  Spec => []EpochAdopted
<1>1. LinkTypeOK /\ Epoch /\ [Next]_vars => (LinkTypeOK /\ Epoch)'
  BY LinkTypeStep, EpochStep, Zenon
<1>. QED
  BY <1>1, LinkTypeInit, EpochInit, EpochAdopts, PTL DEF Spec
-----------------------------------------------------------------------------
(***************************************************************************)
(* Order.  The running process numbers what it sends one after the other   *)
(* and sends at most once per INTERVAL, so in the network an older         *)
(* datagram is behind a younger one by no more than the ticks between      *)
(* them; and what is in force is in the network or older than all of it.   *)
(***************************************************************************)
Behind(newer, older) == WrappingSub(SEQUENCE_MODULUS, newer, older)

InLine ==
  /\ agent = "running" => sleep <= INTERVAL
  /\ \A d \in network : d.current =>
       Behind(sequence, d.sequence) \in 1 .. d.age + 1 - (INTERVAL - sleep)
  /\ \A d, e \in network : d.current /\ e.current =>
       /\ d.age = e.age => d = e
       /\ d.age < e.age => Behind(d.sequence, e.sequence) \in 1 .. e.age - d.age
  /\ inForce # None =>
       \/ inForce.age = MAX_DELAY + 1
       \/ inForce \in network /\ update_age <= inForce.age

\* The network is no slower than the sample timeout, and the number does not
\* go half round in the time the network may hold a datagram.
Prompt ==
  /\ MAX_DELAY <= SAMPLE_TIMEOUT_MILLIS
  /\ MAX_DELAY + 1 < SEQUENCE_MODULUS
  /\ 2 * MAX_DELAY <= SEQUENCE_MODULUS

\* The ages and numbers of the network's datagrams, as SMT wants them.
LEMMA DatagramNumbers ==
  ASSUME LinkTypeOK, NEW d \in network
  PROVE  d.age \in 0 .. MAX_DELAY /\ d.sequence \in 0 .. SEQUENCE_MODULUS - 1
<1>1. \A c \in Datagrams : c.sequence \in 0 .. SEQUENCE_MODULUS - 1
  BY DEF Datagrams
<1>. QED
  BY <1>1, LinkTypes, Zenon

\* The next number is one further from every number less than a turn behind.
LEMMA NextIsFurther ==
  ASSUME Prompt, NEW s \in 0 .. SEQUENCE_MODULUS - 1, NEW old \in 0 .. SEQUENCE_MODULUS - 1,
         Behind(s, old) \in 0 .. MAX_DELAY
  PROVE  Behind(WrappingAdd(SEQUENCE_MODULUS, s, 1), old) = Behind(s, old) + 1
<1> DEFINE next == WrappingAdd(SEQUENCE_MODULUS, s, 1)
<1>1. next \in 0 .. SEQUENCE_MODULUS - 1
  BY LinkNumbersAssumption, WrappingType
<1>2. WrappingSub(SEQUENCE_MODULUS, next, s) = 1
  BY LinkNumbersAssumption DEF WrappingAdd, WrappingSub, Prompt
<1> HIDE DEF next
<1>3. WrappingSub(SEQUENCE_MODULUS, next, s) + WrappingSub(SEQUENCE_MODULUS, s, old)
        < SEQUENCE_MODULUS
  BY <1>2, LinkNumbersAssumption DEF Behind, Prompt
<1>. QED
  BY <1>1, <1>2, <1>3, WrappingSubAdds, LinkNumbersAssumption DEF Behind, next

\* Its own number is no distance behind.
LEMMA BehindItself ==
  ASSUME NEW s \in 0 .. SEQUENCE_MODULUS - 1
  PROVE  Behind(s, s) = 0
BY LinkNumbersAssumption DEF Behind, WrappingSub

LEMMA InLineSend ==
  ASSUME Prompt, LinkTypeOK, Epoch, InLine, Send
  PROVE  InLine'
<1>1. /\ agent = "running" /\ sleep = 0 /\ agent' = agent /\ sleep' = INTERVAL
      /\ sequence' = WrappingAdd(SEQUENCE_MODULUS, sequence, 1)
      /\ inForce' = inForce /\ update_age' = update_age
  BY SendCases, Zenon DEF fanVars
<1>2. PICK p \in Datagrams : p.age = 0 /\ p.current /\ p.sequence = sequence
                             /\ network' = network \union {p}
  BY SendCases, Zenon
<1>3. INTERVAL \in Nat \ {0} /\ MAX_DELAY \in Nat /\ sequence \in 0 .. SEQUENCE_MODULUS - 1
  BY LinkNumbersAssumption, LinkAgentAssumption, LinkTypes, Zenon
<1>4. ASSUME NEW d \in network, d.current
      PROVE  /\ Behind(sequence, d.sequence) \in 1 .. d.age
             /\ d.age # 0
             /\ Behind(sequence', d.sequence) \in 1 .. d.age + 1
  <2>1. Behind(sequence, d.sequence) \in 1 .. d.age + 1 - (INTERVAL - sleep)
    BY <1>4, Zenon DEF InLine
  <2>2. d.age \in 0 .. MAX_DELAY /\ d.sequence \in 0 .. SEQUENCE_MODULUS - 1
    BY DatagramNumbers, Zenon
  <2>3. Behind(sequence, d.sequence) \in 1 .. d.age /\ d.age # 0
    BY <1>1, <1>3, <2>1, <2>2
  <2>4. Behind(sequence, d.sequence) \in 0 .. MAX_DELAY
    BY <1>3, <2>2, <2>3
  <2>5. Behind(sequence', d.sequence) = Behind(sequence, d.sequence) + 1
    BY <1>1, <1>3, <2>2, <2>4, NextIsFurther, Zenon
  <2>. QED
    BY <2>2, <2>3, <2>5
<1>5. Behind(sequence', p.sequence) = 1
  <2>1. Behind(sequence, sequence) = 0
    BY <1>3, BehindItself
  <2>2. Behind(sequence, sequence) \in 0 .. MAX_DELAY
    BY <1>3, <2>1
  <2>3. Behind(sequence', sequence) = Behind(sequence, sequence) + 1
    BY <1>1, <1>3, <2>2, NextIsFurther, Zenon
  <2>. QED
    BY <1>2, <2>1, <2>3
<1>6. ASSUME NEW d \in network', d.current
      PROVE  Behind(sequence', d.sequence) \in 1 .. d.age + 1 - (INTERVAL - sleep')
  <2>1. CASE d \in network
    <3>1. Behind(sequence', d.sequence) \in 1 .. d.age + 1 /\ d.age \in 0 .. MAX_DELAY
      BY <1>4, <1>6, <2>1, DatagramNumbers, Zenon
    <3>. QED
      BY <1>1, <1>3, <3>1
  <2>2. CASE d = p
    BY <1>1, <1>2, <1>3, <1>5, <2>2
  <2>. QED
    BY <1>2, <2>1, <2>2, Zenon
<1>7. ASSUME NEW d \in network', NEW e \in network', d.current, e.current
      PROVE  /\ d.age = e.age => d = e
             /\ d.age < e.age => Behind(d.sequence, e.sequence) \in 1 .. e.age - d.age
  <2>1. CASE d \in network /\ e \in network
    BY <1>7, <2>1, Zenon DEF InLine
  <2>2. CASE d = p /\ e \in network
    <3>1. Behind(d.sequence, e.sequence) \in 1 .. e.age /\ d.age = 0 /\ e.age # 0
      BY <1>2, <1>4, <1>7, <2>2, Zenon
    <3>2. e.age \in 0 .. MAX_DELAY
      BY <2>2, DatagramNumbers, Zenon
    <3>. QED
      BY <3>1, <3>2
  <2>3. CASE d \in network /\ e = p
    <3>1. d.age # 0 /\ e.age = 0
      BY <1>2, <1>4, <1>7, <2>3, Zenon
    <3>2. d.age \in 0 .. MAX_DELAY
      BY <2>3, DatagramNumbers, Zenon
    <3>. QED
      BY <3>1, <3>2
  <2>4. CASE d = p /\ e = p
    BY <1>2, <2>4
  <2>. QED
    BY <1>2, <2>1, <2>2, <2>3, <2>4, Zenon
<1>8. sleep' <= INTERVAL
  BY <1>1, <1>3
<1>9. inForce' # None => \/ inForce'.age = MAX_DELAY + 1
                         \/ inForce' \in network' /\ update_age' <= inForce'.age
  BY <1>1, <1>2, Zenon DEF InLine
<1>. QED
  BY <1>6, <1>7, <1>8, <1>9, Zenon DEF InLine

\* Without datagrams of the running process only what is in force matters.
LEMMA InLineAlone ==
  ASSUME \A d \in network' : ~ d.current,
         agent' = "running" => sleep' <= INTERVAL,
         inForce' # None => \/ inForce'.age = MAX_DELAY + 1
                            \/ inForce' \in network' /\ update_age' <= inForce'.age
  PROVE  InLine'
BY Zenon DEF InLine

LEMMA InLineEnd ==
  ASSUME LinkTypeOK, InLine, Fail \/ Operate
  PROVE  InLine'
<1>1. EndEpoch /\ update_age' = update_age
  BY Zenon DEF Fail, Operate, fanVars
<1>2. agent' = "running" => sleep' <= INTERVAL
  BY LinkAgentAssumption
     DEF Fail, Operate, Agent!Fail, Agent!Exit, Agent!OperatorRestart, Agent!OperatorStop,
         Agent!Start
<1>3. \A d \in network' : ~ d.current
  BY <1>1, LinkTypes, PastType, Zenon DEF EndEpoch
<1>4. ASSUME inForce' # None
      PROVE  \/ inForce'.age = MAX_DELAY + 1
             \/ inForce' \in network' /\ update_age' <= inForce'.age
  <2>1. inForce # None /\ inForce' = Past(inForce) /\ inForce \in Datagrams
    BY <1>1, <1>4, LinkTypeParts, Zenon DEF EndEpoch, HistoryOK
  <2>2. inForce'.age = inForce.age
    BY <2>1, PastType, Zenon
  <2>3. inForce \in network => inForce' \in network'
    BY <1>1, <2>1, Zenon DEF EndEpoch
  <2>. QED
    BY <1>1, <2>1, <2>2, <2>3, Zenon DEF InLine
<1>. QED
  BY <1>2, <1>3, <1>4, InLineAlone, Zenon

LEMMA InLineStart ==
  ASSUME LinkTypeOK, Epoch, InLine, SystemdRestart \/ OperatorStart
  PROVE  InLine'
<1>1. agent # "running" /\ UNCHANGED <<fanVars, network, histories>>
  BY DEF SystemdRestart, OperatorStart, Agent!SystemdRestart, Agent!OperatorStart
<1>2. agent' = "running" => sleep' <= INTERVAL
  BY LinkAgentAssumption
     DEF SystemdRestart, OperatorStart, Agent!SystemdRestart, Agent!OperatorStart,
         Agent!Start, Agent!Exit
<1>3. \A d \in network' : ~ d.current
  BY <1>1, Zenon DEF Epoch
<1>4. inForce' # None => \/ inForce'.age = MAX_DELAY + 1
                         \/ inForce' \in network' /\ update_age' <= inForce'.age
  BY <1>1, Zenon DEF InLine, fanVars, histories
<1>. QED
  BY <1>2, <1>3, <1>4, InLineAlone, Zenon

LEMMA InLineDeliver ==
  ASSUME LinkTypeOK, InLine, NEW d \in network, Deliver(d)
  PROVE  InLine'
<1>1. /\ UNCHANGED <<agentVars, network>>
      /\ \/ Fan!accept(d) /\ inForce' = d
         \/ UNCHANGED <<Fan!hostState, inForce>>
  BY DeliverCases, Zenon
<1>2. CASE Fan!accept(d) /\ inForce' = d
  <2>1. update_age' = 0 /\ d.age \in 0 .. MAX_DELAY
    BY <1>2, DatagramNumbers, Zenon DEF Fan!accept
  <2>2. update_age' <= d.age
    BY <2>1
  <2>. QED
    BY <1>1, <1>2, <2>2, Zenon DEF InLine, agentVars
<1>3. CASE UNCHANGED <<Fan!hostState, inForce>>
  BY <1>1, <1>3, Zenon DEF InLine, agentVars, Fan!hostState
<1>. QED
  BY <1>1, <1>2, <1>3, Zenon

LEMMA InLineTick ==
  ASSUME LinkTypeOK, Epoch, InLine, Tick
  PROVE  InLine'
<1>1. /\ agent' = agent /\ sequence' = sequence
      /\ agent = "running" => sleep # 0 /\ sleep' = sleep - 1
      /\ network' = {Aged(d) : d \in {e \in network : e.age < MAX_DELAY}}
      /\ inForce' = IF inForce = None THEN None ELSE Aged(inForce)
      /\ update_age' = Fan!Older(update_age)
  BY DEF Tick, Fan!Tick, Agent!Tick, Agent!Due
<1>2. INTERVAL \in Nat /\ MAX_DELAY \in Nat /\ sleep \in Nat
  BY LinkNumbersAssumption, LinkAgentAssumption, LinkTypes DEF Agent!AgentTypeOK
<1>3. agent' = "running" => sleep' <= INTERVAL
  BY <1>1, <1>2 DEF InLine
<1>4. ASSUME NEW d \in network', d.current
      PROVE  Behind(sequence', d.sequence) \in 1 .. d.age + 1 - (INTERVAL - sleep')
  <2>1. PICK e \in network : /\ d.age = e.age + 1
                             /\ d.sequence = e.sequence /\ d.current = e.current
    BY TickNetwork, Zenon
  <2>2. /\ Behind(sequence', d.sequence) \in 1 .. e.age + 1 - (INTERVAL - sleep)
        /\ agent = "running" /\ e.age \in 0 .. MAX_DELAY
    BY <1>1, <1>4, <2>1, DatagramNumbers, Zenon DEF InLine, Epoch
  <2>. QED
    BY <1>1, <1>2, <2>1, <2>2
<1>5. ASSUME NEW d \in network', NEW e \in network', d.current, e.current
      PROVE  /\ d.age = e.age => d = e
             /\ d.age < e.age => Behind(d.sequence, e.sequence) \in 1 .. e.age - d.age
  <2>1. PICK b \in network : /\ d = Aged(b) /\ d.age = b.age + 1
                             /\ d.sequence = b.sequence /\ d.current = b.current
    BY TickNetwork, Zenon
  <2>2. PICK c \in network : /\ e = Aged(c) /\ e.age = c.age + 1
                             /\ e.sequence = c.sequence /\ e.current = c.current
    BY TickNetwork, Zenon
  <2>3. /\ b.age = c.age => b = c
        /\ b.age < c.age => Behind(d.sequence, e.sequence) \in 1 .. c.age - b.age
    BY <1>5, <2>1, <2>2, Zenon DEF InLine
  <2>4. b.age \in 0 .. MAX_DELAY /\ c.age \in 0 .. MAX_DELAY
    BY DatagramNumbers, Zenon
  <2>5. d.age = e.age => d = e
    <3>1. d.age = e.age => b.age = c.age
      BY <2>1, <2>2, <2>4
    <3>. QED
      BY <2>1, <2>2, <2>3, <3>1, Zenon
  <2>6. d.age < e.age => b.age < c.age /\ e.age - d.age = c.age - b.age
    BY <1>2, <2>1, <2>2, <2>4
  <2>. QED
    BY <2>3, <2>5, <2>6, Zenon
<1>6. ASSUME inForce' # None
      PROVE  \/ inForce'.age = MAX_DELAY + 1
             \/ inForce' \in network' /\ update_age' <= inForce'.age
  <2>1. inForce # None /\ inForce \in Datagrams /\ inForce' = Aged(inForce)
    BY <1>1, <1>6, LinkTypeParts, Zenon DEF HistoryOK
  <2>2. inForce'.age = IF inForce.age <= MAX_DELAY THEN inForce.age + 1 ELSE MAX_DELAY + 1
    BY <2>1, AgedType, Zenon
  <2>3. CASE inForce.age = MAX_DELAY + 1
    BY <1>2, <2>2, <2>3
  <2>4. CASE inForce \in network /\ update_age <= inForce.age
    <3>1. inForce.age \in 0 .. MAX_DELAY
      BY <2>4, DatagramNumbers, Zenon
    <3>2. inForce'.age = inForce.age + 1
      BY <2>2, <3>1
    <3>3. CASE inForce.age = MAX_DELAY
      BY <3>2, <3>3
    <3>4. CASE inForce.age < MAX_DELAY
      <4>1. inForce' \in network'
        BY <1>1, <2>1, <2>4, <3>4, Zenon
      <4>2. /\ update_age \in 0 .. Fan!AGE_CAP
            /\ update_age' =
                 IF update_age = Fan!AGE_CAP THEN Fan!AGE_CAP ELSE update_age + 1
        BY <1>1, <2>1, LinkTypes, InForceHasAge, OlderAge, Zenon
      <4>3. update_age' <= inForce'.age
        BY <2>4, <3>1, <3>2, <4>2
      <4>. QED
        BY <4>1, <4>3
    <3>. QED
      BY <1>2, <3>1, <3>3, <3>4
  <2>. QED
    BY <2>1, <2>3, <2>4, Zenon DEF InLine
<1>. QED
  BY <1>3, <1>4, <1>5, <1>6, Zenon DEF InLine

LEMMA InLineStep ==
  ASSUME Prompt, LinkTypeOK, Epoch, InLine, [Next]_vars
  PROVE  InLine'
<1>1. CASE Skip
  <2>1. /\ agent' = agent /\ sequence' = sequence /\ sleep = 0 /\ sleep' = INTERVAL
        /\ UNCHANGED <<network, inForce, update_age>>
    BY <1>1, Zenon
       DEF Skip, Agent!SkipWithoutSensors, Agent!Due, fanVars, histories
  <2>2. ASSUME NEW d \in network', d.current
        PROVE  Behind(sequence', d.sequence) \in 1 .. d.age + 1 - (INTERVAL - sleep')
    <3>1. /\ Behind(sequence', d.sequence) \in 1 .. d.age + 1 - (INTERVAL - sleep)
          /\ d.age \in 0 .. MAX_DELAY
      BY <2>1, <2>2, DatagramNumbers, Zenon DEF InLine
    <3>. QED
      BY <2>1, <3>1, LinkAgentAssumption, LinkNumbersAssumption
  <2>3. sleep' <= INTERVAL
    BY <2>1, LinkAgentAssumption
  <2>. QED
    BY <2>1, <2>2, <2>3, Zenon DEF InLine
<1>2. CASE SetDuty \/ UNCHANGED vars
  <2>1. UNCHANGED <<agentVars, network, inForce, update_age>>
    BY <1>2, Zenon
       DEF SetDuty, Fan!SetDuty, Fan!hostState, vars, fanVars, histories
  <2>. QED
    BY <2>1, Zenon DEF InLine, agentVars
<1>3. CASE Reboot
  BY <1>3, Zenon DEF Reboot, InLine, agentVars
<1>4. CASE Send
  BY <1>4, InLineSend, Zenon
<1>5. CASE Fail \/ Operate
  BY <1>5, InLineEnd, Zenon
<1>6. CASE SystemdRestart \/ OperatorStart
  BY <1>6, InLineStart, Zenon
<1>7. CASE \E d \in network : Deliver(d)
  BY <1>7, InLineDeliver, Zenon
<1>8. CASE Tick
  BY <1>8, InLineTick, Zenon
<1>. QED
  BY <1>1, <1>2, <1>3, <1>4, <1>5, <1>6, <1>7, <1>8, Zenon DEF Next

LEMMA InLineInit == Init => InLine
BY Zenon DEF Init, Agent!Init, InLine

\* What was sent before the command in force is behind it by less than half
\* a turn, and the cooler is not stale while that can still arrive.
LEMMA OlderIsRefused ==
  ASSUME Prompt, LinkTypeOK, InLine, NEW d \in network, Deliver(d),
         inForce # None, inForce' # inForce, inForce.current, d.current
  PROVE  d.age < inForce.age
<1>1. Fan!accept(d) /\ inForce' = d
  BY DeliverCases, Zenon
<1>2. d.age \in 0 .. MAX_DELAY /\ d.sequence \in 0 .. SEQUENCE_MODULUS - 1
  BY DatagramNumbers, Zenon
<1>3. CASE inForce.age = MAX_DELAY + 1
  BY <1>2, <1>3, LinkNumbersAssumption
<1>4. CASE inForce \in network /\ update_age <= inForce.age
  <2>1. inForce.age \in 0 .. MAX_DELAY /\ inForce.sequence \in 0 .. SEQUENCE_MODULUS - 1
    BY <1>4, DatagramNumbers, Zenon
  <2>2. inForce.age = d.age => inForce = d
    BY <1>4, Zenon DEF InLine
  <2>3. inForce.age < d.age =>
          Behind(inForce.sequence, d.sequence) \in 1 .. d.age - inForce.age
    BY <1>4, Zenon DEF InLine
  <2>4. update_age \in 0 .. SAMPLE_TIMEOUT_MILLIS
    BY <1>4, <2>1, InForceHasAge, LinkNumbersAssumption DEF Prompt
  <2>5. IsNewer(SEQUENCE_MODULUS, d.sequence, inForce.sequence)
    <3>1. last_sequence # None /\ last_sequence = inForce.sequence
      BY LinkTypeParts, Zenon DEF HistoryOK
    <3>2. Fan!IsNewer(SEQUENCE_MODULUS, d.sequence, inForce.sequence)
      BY <1>1, <2>4, <3>1, Zenon
         DEF Fan!accept, Fan!Accepts, Fan!Stale, Fan!InOrder, Fan!sequence_is_newer
    <3>. QED
      BY <3>2 DEF Fan!IsNewer, Fan!WrappingSub, IsNewer, WrappingSub
  <2>6. ~ (inForce.age < d.age)
    <3> SUFFICES ASSUME inForce.age < d.age PROVE FALSE
      OBVIOUS
    <3>1. 2 * WrappingSub(SEQUENCE_MODULUS, inForce.sequence, d.sequence) <= SEQUENCE_MODULUS
      BY <1>2, <2>1, <2>3, LinkNumbersAssumption DEF Behind, Prompt
    <3>. QED
      BY <1>2, <2>1, <2>5, <3>1, BehindIsNotNewer, LinkNumbersAssumption
  <2>7. inForce.age # d.age
    BY <1>1, <2>2
  <2>. QED
    BY <1>2, <2>1, <2>6, <2>7
<1>. QED
  BY <1>3, <1>4, Zenon DEF InLine

(***************************************************************************)
(* While one process runs the cooler never goes back to an older command   *)
(* of it, for every width of the number, interval and delay within Prompt. *)
(***************************************************************************)
THEOREM CommandsNeverRegress ==
  ASSUME Cooling, Prompt
  PROVE  Spec => NoRegression
<1>1. LinkTypeOK /\ Epoch /\ InLine /\ [Next]_vars => (LinkTypeOK /\ Epoch /\ InLine)'
  BY LinkTypeStep, EpochStep, InLineStep, Zenon
<1>2. LinkTypeOK /\ InLine =>
        \A d \in network :
          Deliver(d) /\ inForce # None /\ inForce' # inForce
            => (inForce.current /\ d.current => d.age < inForce.age)
  BY OlderIsRefused, Zenon
<1>. QED
  BY <1>1, <1>2, LinkTypeInit, EpochInit, InLineInit, PTL DEF Spec, NoRegression
=============================================================================
