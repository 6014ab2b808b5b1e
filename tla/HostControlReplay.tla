-------------------------- MODULE HostControlReplay --------------------------
(***************************************************************************)
(* HostControl with two histories.  One is of the current epoch: the run   *)
(* of commands accepted since the last one that was taken because the      *)
(* state was stale.  The other is a clock of its own that a hot report     *)
(* starts.  No history enables or disables a step.                         *)
(***************************************************************************)
EXTENDS HostControl

VARIABLES
  accepted,  \* the sequence numbers accepted in this epoch
  travel,    \* how far last_sequence has moved in it, up to one full turn
  hot        \* ticks since the last accepted command if it reported a
             \* temperature from the hard emergency on, or None

epochVars == <<accepted, travel>>
replayVars == <<vars, epochVars, hot>>

FullTurn(distance) ==
  IF distance >= SEQUENCE_MODULUS THEN SEQUENCE_MODULUS ELSE distance

StartEpoch(p) == accepted' = {p.sequence} /\ travel' = 0

ExtendEpoch(p) ==
  /\ accepted' = accepted \union {p.sequence}
  /\ travel' = FullTurn(travel
                 + WrappingSub(SEQUENCE_MODULUS, p.sequence, last_sequence))

ReportsHeat(p) == p.temperature_milli_c >= HARD_EMERGENCY_TEMPERATURE_MILLI_C

\* The clock of a hot report starts again with each, and ends with a cooler one.
Heed(p) == hot' = IF ReportsHeat(p) THEN 0 ELSE None

ReplayInit == Init /\ accepted = {} /\ travel = 0 /\ hot = None

ReceiveWithHistory(p) ==
  /\ Receive(p)
  /\ \/ Accepts(p) /\ Stale /\ StartEpoch(p) /\ Heed(p)
     \/ Accepts(p) /\ ~Stale /\ ExtendEpoch(p) /\ Heed(p)
     \/ ~Accepts(p) /\ UNCHANGED <<epochVars, hot>>

SetDutyWithHistory == SetDuty /\ UNCHANGED <<epochVars, hot>>

TickWithHistory == Tick /\ hot' = Older(hot) /\ UNCHANGED epochVars

RebootWithHistory == Reboot /\ accepted' = {} /\ travel' = 0 /\ hot' = None

ReplayNext ==
  \/ \E p \in Packets : ReceiveWithHistory(p)
  \/ SetDutyWithHistory
  \/ TickWithHistory
  \/ RebootWithHistory

ReplaySpec == ReplayInit /\ [][ReplayNext]_replayVars
-----------------------------------------------------------------------------
ReplayTypeOK ==
  /\ TypeOK
  /\ accepted \subseteq Sequences32
  /\ travel \in 0 .. SEQUENCE_MODULUS
  /\ hot \in (0 .. AGE_CAP) \union {None}

(***************************************************************************)
(* The README says of the protocol that "the sequence number prevents      *)
(* duplicate and out-of-order commands".  Within an epoch, HostState::     *)
(* accept takes a number it has already accepted only after the counter    *)
(* has gone more than half way round its 2^32 values, however the          *)
(* datagrams are repeated or reordered in between.                         *)
(***************************************************************************)
AcceptsNoRepeat ==
  \A p \in Packets :
    accept(p) /\ ~Stale /\ 2 * travel <= SEQUENCE_MODULUS
      => p.sequence \notin accepted

NoReplayInEpoch == [][AcceptsNoRepeat]_replayVars

(***************************************************************************)
(* What makes it so: every number accepted in the epoch is behind the last *)
(* one, by no more than the counter has travelled.                         *)
(***************************************************************************)
EpochIsBehind ==
  travel < SEQUENCE_MODULUS =>
    \A s \in accepted :
      /\ last_sequence # None
      /\ WrappingSub(SEQUENCE_MODULUS, last_sequence, s) <= travel

(***************************************************************************)
(* The README: "reported temperatures at or above 90 C force 100%",        *)
(* whatever duty the host asks for.  From the command that reported the    *)
(* heat until the cooldown is over, the fan runs at full speed in every    *)
(* tick, unless a command with a lower temperature is accepted or the chip *)
(* restarts: no datagram that accept refuses, late, repeated or malformed, *)
(* takes it down sooner, and the fan loop has set it before time passes.   *)
(***************************************************************************)
HeatForcesFull ==
  [][ Tick /\ hot # None /\ hot <= OFFLINE_COOLDOWN_MILLIS
        => current_duty = MAX_DUTY_PERCENT ]_replayVars
=============================================================================
