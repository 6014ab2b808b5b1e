------------------------- MODULE HostControl_proofs -------------------------
(***************************************************************************)
(* Proofs about HostControl and its history, for every width of the        *)
(* sequence number, every pair of time limits and every set of datagrams.  *)
(***************************************************************************)
EXTENDS HostControlReplay, SerialNumbers_proofs

USE DEF OFFLINE_FAN_DUTY_PERCENT, INITIAL_PWM_DUTY_PERCENT

-----------------------------------------------------------------------------
(***************************************************************************)
(* Typing: HostState keeps its widths, remembers a number exactly when it  *)
(* remembers a time, and the fan is off or at a duty the protocol allows.  *)
(***************************************************************************)
LEMMA TypeInit == Init => TypeOK
  BY NoneAssumption, ModulusAssumption, TimeAssumption, RangeAssumption
  DEF Init, TypeOK, Duties

\* A datagram, taken or refused, keeps the types: parse_command has checked
\* the ranges of what accept stores.
LEMMA TypeReceive ==
  ASSUME TypeOK, NEW p, Receive(p)
  PROVE  TypeOK'
<1>1. CASE accept(p)
  <2>1. p.sequence \in Sequences32 /\ p.temperature_milli_c \in Temperatures
        /\ p.requested_duty_percent \in CommandDuties
    BY <1>1 DEF accept, Accepts, parse_command
  <2>2. 0 \in 0 .. AGE_CAP /\ 0 # None /\ p.sequence # None
    BY <2>1, NoneAssumption, TimeAssumption, ModulusAssumption
    DEF AGE_CAP, Sequences32
  <2>. QED
    BY <1>1, <2>1, <2>2 DEF accept, Receive, TypeOK, Duties
<1>2. CASE reject(p)
  BY <1>2 DEF reject, Receive, TypeOK, hostState
<1>. QED
  BY <1>1, <1>2 DEF Receive

\* duty_percent is off or a duty the protocol allows.
LEMMA DutyType ==
  ASSUME TypeOK
  PROVE  duty_percent \in Duties
  BY RangeAssumption DEF TypeOK, duty_percent, Duties, CommandDuties

\* Time passes: an age stays an age up to its cap, and none stays none.
LEMMA TypeTick ==
  ASSUME TypeOK, Tick
  PROVE  TypeOK'
<1>1. Older(update_age) \in (0 .. AGE_CAP) \union {None}
      /\ (Older(update_age) = None <=> update_age = None)
  BY NoneAssumption, TimeAssumption DEF TypeOK, Older, AGE_CAP
<1>. QED
  BY <1>1 DEF Tick, TypeOK

\* Every step keeps the types.
LEMMA TypeNext ==
  ASSUME TypeOK, [Next]_vars
  PROVE  TypeOK'
<1>1. ASSUME NEW p \in Packets, Receive(p)
      PROVE  TypeOK'
  BY <1>1, TypeReceive
<1>2. CASE SetDuty
  BY <1>2, DutyType DEF SetDuty, TypeOK, hostState
<1>3. CASE Tick
  BY <1>3, TypeTick
<1>4. CASE Reboot
  BY <1>4, RangeAssumption DEF Reboot, TypeOK, Duties
<1>5. CASE UNCHANGED vars
  BY <1>5 DEF vars, TypeOK
<1>. QED
  BY <1>1, <1>2, <1>3, <1>4, <1>5 DEF Next

\* HostState and the PWM duty are well-typed in every reachable state.
THEOREM TypeCorrect == Spec => []TypeOK
<1>1. Init => TypeOK
  BY TypeInit
<1>2. TypeOK /\ [Next]_vars => TypeOK'
  BY TypeNext
<1>. QED
  BY <1>1, <1>2, PTL DEF Spec
-----------------------------------------------------------------------------
(***************************************************************************)
(* Replays.  EpochIsBehind is inductive together with the types: an        *)
(* accepted number moves last_sequence forward by exactly what is added to *)
(* travel, so that every number of the epoch falls behind by as much, and  *)
(* sequence_is_newer refuses whatever is at most half a turn behind.       *)
(***************************************************************************)

(***************************************************************************)
(* Heat.  The clock of a hot report is the age of the state, and the heat  *)
(* is still what HostState remembers: no datagram that is refused touches  *)
(* either, and one that is accepted decides both anew.                     *)
(***************************************************************************)
HeatInForce ==
  hot # None =>
    /\ update_age = hot
    /\ temperature_milli_c >= HARD_EMERGENCY_TEMPERATURE_MILLI_C

ReplayInv == ReplayTypeOK /\ EpochIsBehind /\ HeatInForce

\* The history rides along: a step with it is a step of HostControl.
LEMMA ReplayStepIsStep == [ReplayNext]_replayVars => [Next]_vars
  BY DEF ReplayNext, replayVars, Next, ReceiveWithHistory, SetDutyWithHistory,
         TickWithHistory, RebootWithHistory

\* A state that is not stale has a last number.
LEMMA FreshHasSequence ==
  ASSUME TypeOK, ~Stale
  PROVE  last_sequence \in Sequences32 /\ last_sequence # None
  BY NoneAssumption DEF TypeOK, Stale

\* The history keeps its type and stays behind the last number when a command
\* is accepted in order.
LEMMA ExtendEpochKeeps ==
  ASSUME ReplayInv, NEW p, accept(p), ~Stale, ExtendEpoch(p)
  PROVE  accepted' \subseteq Sequences32 /\ travel' \in 0 .. SEQUENCE_MODULUS
         /\ EpochIsBehind'
<1> DEFINE step == WrappingSub(SEQUENCE_MODULUS, p.sequence, last_sequence)
<1>1. p.sequence \in Sequences32 /\ last_sequence' = p.sequence
  BY DEF accept, Accepts, parse_command
<1>2. last_sequence \in Sequences32 /\ last_sequence # None
  BY FreshHasSequence DEF ReplayInv, ReplayTypeOK
<1>3. step \in 0 .. SEQUENCE_MODULUS - 1
  <2>1. p.sequence \in Int /\ last_sequence \in Int
    BY <1>1, <1>2 DEF Sequences32
  <2>. QED
    BY <2>1, WrappingType, ModulusAssumption
<1>4. travel \in 0 .. SEQUENCE_MODULUS /\ accepted \subseteq Sequences32
  BY DEF ReplayInv, ReplayTypeOK
<1>5. travel' = FullTurn(travel + step) /\ accepted' = accepted \union {p.sequence}
  BY DEF ExtendEpoch
<1> HIDE DEF step
<1>6. travel' \in 0 .. SEQUENCE_MODULUS
      /\ (travel' < SEQUENCE_MODULUS => travel' = travel + step)
  BY <1>3, <1>4, <1>5, ModulusAssumption DEF FullTurn
<1>7. ASSUME travel' < SEQUENCE_MODULUS, NEW s \in accepted'
      PROVE  last_sequence' # None
             /\ WrappingSub(SEQUENCE_MODULUS, last_sequence', s) <= travel'
  <2>1. p.sequence # None
    BY <1>1, NoneAssumption, ModulusAssumption DEF Sequences32
  <2>2. CASE s = p.sequence
    <3>1. WrappingSub(SEQUENCE_MODULUS, p.sequence, p.sequence) = 0
      BY <1>1, WrappingSubCases, ModulusAssumption DEF Sequences32
    <3>. QED
      BY <1>1, <1>6, <2>1, <2>2, <3>1
  <2>3. CASE s \in accepted
    <3>1. travel' = travel + step /\ travel < SEQUENCE_MODULUS
      BY <1>3, <1>4, <1>6, <1>7, ModulusAssumption
    <3>2. WrappingSub(SEQUENCE_MODULUS, last_sequence, s) <= travel
      BY <2>3, <3>1 DEF ReplayInv, EpochIsBehind
    <3>3. s \in Sequences32
      BY <1>4, <2>3
    <3>4. WrappingSub(SEQUENCE_MODULUS, last_sequence, s) \in 0 .. SEQUENCE_MODULUS - 1
      BY <1>2, <3>3, WrappingType, ModulusAssumption DEF Sequences32
    <3>5. step + WrappingSub(SEQUENCE_MODULUS, last_sequence, s) < SEQUENCE_MODULUS
      BY <1>3, <1>4, <1>7, <3>1, <3>2, <3>4, ModulusAssumption
    <3>6. WrappingSub(SEQUENCE_MODULUS, p.sequence, s)
            = step + WrappingSub(SEQUENCE_MODULUS, last_sequence, s)
      BY <1>1, <1>2, <3>3, <3>5, WrappingSubAdds, ModulusAssumption
      DEF Sequences32, step
    <3>. QED
      BY <1>1, <1>3, <1>4, <2>1, <3>1, <3>2, <3>4, <3>6, ModulusAssumption
  <2>. QED
    BY <1>5, <1>7, <2>2, <2>3
<1>. QED
  BY <1>1, <1>4, <1>5, <1>6, <1>7 DEF EpochIsBehind

\* The first command after a stale state starts a history of one number.
LEMMA StartEpochKeeps ==
  ASSUME NEW p, accept(p), StartEpoch(p)
  PROVE  accepted' \subseteq Sequences32 /\ travel' \in 0 .. SEQUENCE_MODULUS
         /\ EpochIsBehind'
<1>1. p.sequence \in Sequences32 /\ last_sequence' = p.sequence
  BY DEF accept, Accepts, parse_command
<1>2. WrappingSub(SEQUENCE_MODULUS, p.sequence, p.sequence) = 0
      /\ p.sequence # None
  BY <1>1, WrappingSubCases, ModulusAssumption, NoneAssumption DEF Sequences32
<1>. QED
  BY <1>1, <1>2, ModulusAssumption DEF StartEpoch, EpochIsBehind

\* An accepted command sets the age and the temperature the clock stands for.
LEMMA HeedKeeps ==
  ASSUME NEW p, accept(p), Heed(p)
  PROVE  hot' \in (0 .. AGE_CAP) \union {None} /\ HeatInForce'
<1>1. update_age' = 0 /\ temperature_milli_c' = p.temperature_milli_c
  BY DEF accept
<1>2. 0 \in 0 .. AGE_CAP
  BY TimeAssumption DEF AGE_CAP
<1>. QED
  BY <1>1, <1>2 DEF Heed, ReportsHeat, HeatInForce

\* Time passes for both clocks alike.
LEMMA TickKeepsHeat ==
  ASSUME ReplayInv, TickWithHistory
  PROVE  hot' \in (0 .. AGE_CAP) \union {None} /\ HeatInForce'
<1>1. hot' = Older(hot) /\ update_age' = Older(update_age)
      /\ temperature_milli_c' = temperature_milli_c
  BY DEF TickWithHistory, Tick
<1>2. /\ Older(hot) \in (0 .. AGE_CAP) \union {None}
      /\ Older(hot) = None <=> hot = None
  BY NoneAssumption, TimeAssumption DEF ReplayInv, ReplayTypeOK, Older, AGE_CAP
<1>. QED
  BY <1>1, <1>2 DEF ReplayInv, HeatInForce

\* Nothing accepted, nothing travelled, no heat reported.
LEMMA ReplayInvInit == ReplayInit => ReplayInv
  BY TypeInit, ModulusAssumption
  DEF ReplayInit, ReplayInv, ReplayTypeOK, EpochIsBehind, HeatInForce

\* Every step keeps the history behind the last number, and the heat in force.
LEMMA ReplayInvNext ==
  ASSUME ReplayInv, [ReplayNext]_replayVars
  PROVE  ReplayInv'
<1>1. TypeOK'
  BY TypeNext, ReplayStepIsStep DEF ReplayInv, ReplayTypeOK
<1>2. ASSUME NEW p \in Packets, ReceiveWithHistory(p)
      PROVE  ReplayInv'
  <2>1. CASE Accepts(p)
    <3>1. accept(p)
      BY <1>2, <2>1 DEF ReceiveWithHistory, Receive, reject
    <3>. QED
      BY <1>1, <1>2, <2>1, <3>1, StartEpochKeeps, ExtendEpochKeeps, HeedKeeps
      DEF ReceiveWithHistory, ReplayInv, ReplayTypeOK
  <2>2. CASE ~Accepts(p)
    <3>1. UNCHANGED <<hostState, accepted, travel, hot>>
      BY <1>2, <2>2
      DEF ReceiveWithHistory, Receive, accept, reject, epochVars
    <3>. QED
      BY <1>1, <3>1
      DEF hostState, ReplayInv, ReplayTypeOK, EpochIsBehind, HeatInForce
  <2>. QED
    BY <2>1, <2>2
<1>3. CASE SetDutyWithHistory
  BY <1>1, <1>3
  DEF SetDutyWithHistory, SetDuty, hostState, epochVars, ReplayInv, ReplayTypeOK,
      EpochIsBehind, HeatInForce
<1>4. CASE TickWithHistory
  BY <1>1, <1>4, TickKeepsHeat
  DEF TickWithHistory, Tick, epochVars, ReplayInv, ReplayTypeOK, EpochIsBehind
<1>5. CASE RebootWithHistory
  BY <1>1, <1>5, ModulusAssumption
  DEF RebootWithHistory, ReplayInv, ReplayTypeOK, EpochIsBehind, HeatInForce
<1>6. CASE UNCHANGED replayVars
  BY <1>1, <1>6
  DEF replayVars, vars, epochVars, ReplayInv, ReplayTypeOK, EpochIsBehind, HeatInForce
<1>. QED
  BY <1>2, <1>3, <1>4, <1>5, <1>6 DEF ReplayNext

\* With its history, too, the command state is well-typed in every state.
THEOREM ReplayTypeCorrect == ReplaySpec => []ReplayTypeOK
<1>1. ReplayInit => ReplayInv
  BY ReplayInvInit
<1>2. ReplayInv /\ [ReplayNext]_replayVars => ReplayInv'
  BY ReplayInvNext
<1>3. ReplayInv => ReplayTypeOK
  BY DEF ReplayInv
<1>. QED
  BY <1>1, <1>2, <1>3, PTL DEF ReplaySpec

\* Every number accepted in the epoch is behind the last one, by no more than
\* the counter has travelled.
THEOREM EpochBehind == ReplaySpec => []EpochIsBehind
<1>1. ReplayInit => ReplayInv
  BY ReplayInvInit
<1>2. ReplayInv /\ [ReplayNext]_replayVars => ReplayInv'
  BY ReplayInvNext
<1>3. ReplayInv => EpochIsBehind
  BY DEF ReplayInv
<1>. QED
  BY <1>1, <1>2, <1>3, PTL DEF ReplaySpec

\* No single step takes a number of the epoch again.
LEMMA NoRepeatStep ==
  ASSUME ReplayInv
  PROVE  AcceptsNoRepeat
<1> SUFFICES ASSUME NEW p \in Packets, accept(p), ~Stale,
                    2 * travel <= SEQUENCE_MODULUS, p.sequence \in accepted
             PROVE  FALSE
  BY DEF AcceptsNoRepeat
<1>1. last_sequence \in Sequences32 /\ last_sequence # None
  BY FreshHasSequence DEF ReplayInv, ReplayTypeOK
<1>2. p.sequence \in Sequences32 /\ sequence_is_newer(p.sequence, last_sequence)
  BY <1>1 DEF accept, Accepts, parse_command, InOrder
<1>3. travel \in 0 .. SEQUENCE_MODULUS /\ travel < SEQUENCE_MODULUS
  BY ModulusAssumption DEF ReplayInv, ReplayTypeOK
<1>4. WrappingSub(SEQUENCE_MODULUS, last_sequence, p.sequence) <= travel
  BY <1>3 DEF ReplayInv, EpochIsBehind
<1>5. WrappingSub(SEQUENCE_MODULUS, last_sequence, p.sequence) \in Int
  BY <1>1, <1>2, WrappingType, ModulusAssumption DEF Sequences32
<1>6. 2 * WrappingSub(SEQUENCE_MODULUS, last_sequence, p.sequence) <= SEQUENCE_MODULUS
  BY <1>3, <1>4, <1>5, ModulusAssumption
<1>. QED
  BY <1>1, <1>2, <1>6, BehindIsNotNewer, ModulusAssumption
  DEF sequence_is_newer, Sequences32

(***************************************************************************)
(* HostState::accept never takes a command of the epoch a second time      *)
(* before the counter has gone more than half way round.                   *)
(***************************************************************************)
THEOREM NoReplay == ReplaySpec => NoReplayInEpoch
<1>1. ReplayInit => ReplayInv
  BY ReplayInvInit
<1>2. ReplayInv /\ [ReplayNext]_replayVars => ReplayInv'
  BY ReplayInvNext
<1>3. ReplayInv => AcceptsNoRepeat
  BY NoRepeatStep
<1>. QED
  BY <1>1, <1>2, <1>3, PTL DEF ReplaySpec, NoReplayInEpoch
-----------------------------------------------------------------------------
\* When time passes the fan loop has set what duty_percent returns.
LEMMA HeatStep ==
  ASSUME ReplayInv, Tick, hot # None, hot <= OFFLINE_COOLDOWN_MILLIS
  PROVE  current_duty = MAX_DUTY_PERCENT
<1>1. hot \in 0 .. OFFLINE_COOLDOWN_MILLIS
  BY TimeAssumption DEF ReplayInv, ReplayTypeOK, AGE_CAP
<1>2. /\ update_age \in 0 .. OFFLINE_COOLDOWN_MILLIS
      /\ temperature_milli_c >= HARD_EMERGENCY_TEMPERATURE_MILLI_C
  BY <1>1 DEF ReplayInv, HeatInForce
<1>. QED
  BY <1>2 DEF Tick, duty_percent

(***************************************************************************)
(* After a report of the hard emergency or more the fan runs at full speed *)
(* in every tick until the cooldown is over, whatever duty was asked for   *)
(* and whatever else arrives, unless a cooler command is accepted or the   *)
(* chip restarts.                                                          *)
(***************************************************************************)
THEOREM HeatIsForced == ReplaySpec => HeatForcesFull
<1>1. ReplayInit => ReplayInv
  BY ReplayInvInit
<1>2. ReplayInv /\ [ReplayNext]_replayVars => ReplayInv'
  BY ReplayInvNext
<1>3. ReplayInv =>
        (Tick /\ hot # None /\ hot <= OFFLINE_COOLDOWN_MILLIS
           => current_duty = MAX_DUTY_PERCENT)
  BY HeatStep
<1>. QED
  BY <1>1, <1>2, <1>3, PTL DEF ReplaySpec, HeatForcesFull
=============================================================================
