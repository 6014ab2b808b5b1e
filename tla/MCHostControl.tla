---- MODULE MCHostControl ----
(***************************************************************************)
(* HostControlReplay with a counter of six values: every command of        *)
(* the protocol's edge temperatures and duties, and one datagram for each  *)
(* reason parse_command has to refuse one.                                 *)
(***************************************************************************)
EXTENDS HostControlReplay

Command(sequence, temperature, duty) ==
  [utf8 |-> TRUE, version |-> "LC2", fields |-> 5, token |-> Token,
   sequence |-> sequence, temperature_milli_c |-> temperature,
   requested_duty_percent |-> duty]

Sound == Command(0, MAX_TEMPERATURE_MILLI_C, MAX_DUTY_PERCENT)

Malformed ==
  { [Sound EXCEPT !.utf8 = FALSE],
    [Sound EXCEPT !.version = "LC1"],
    [Sound EXCEPT !.fields = 4],
    [Sound EXCEPT !.fields = 6],
    [Sound EXCEPT !.token = None],
    [Sound EXCEPT !.sequence = SEQUENCE_MODULUS],
    [Sound EXCEPT !.temperature_milli_c = MIN_TEMPERATURE_MILLI_C - 1],
    [Sound EXCEPT !.temperature_milli_c = MAX_TEMPERATURE_MILLI_C + 1],
    [Sound EXCEPT !.requested_duty_percent = MIN_DUTY_PERCENT - 1],
    [Sound EXCEPT !.requested_duty_percent = MAX_DUTY_PERCENT + 1] }

MCPackets ==
  Malformed \union
  { Command(s, t, d) :
      s \in 0 .. SEQUENCE_MODULUS - 1,
      t \in {HARD_EMERGENCY_TEMPERATURE_MILLI_C - 1,
             HARD_EMERGENCY_TEMPERATURE_MILLI_C},
      d \in {MIN_DUTY_PERCENT} }
====
