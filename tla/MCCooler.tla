---- MODULE MCCooler ----
(***************************************************************************)
(* The cooler with times in the order of the code's: three delays are      *)
(* shorter than the hold, three attempts that run into their limits are    *)
(* longer.  Two commands, below and above the hard emergency.              *)
(***************************************************************************)
EXTENDS Cooler

Command(sequence, temperature) ==
  [utf8 |-> TRUE, version |-> "LC2", fields |-> 5, token |-> Token,
   sequence |-> sequence, temperature_milli_c |-> temperature,
   requested_duty_percent |-> MIN_DUTY_PERCENT]

MCPackets ==
  {Command(0, MIN_TEMPERATURE_MILLI_C), Command(1, MAX_TEMPERATURE_MILLI_C)}
====
