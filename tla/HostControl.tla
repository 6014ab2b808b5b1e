----------------------------- MODULE HostControl -----------------------------
(***************************************************************************)
(* The cooler's command state (HostState in control.rs), the task that     *)
(* feeds it datagrams (temperature_receiver in main.rs) and the loop that  *)
(* drives the fan from it (the loop of main in main.rs).                   *)
(*                                                                         *)
(* Time is kept as an age: the code only ever looks at now_millis minus    *)
(* last_update_millis and compares it with two limits, so update_age       *)
(* counts that difference and stops counting at AGE_CAP, past both.        *)
(* A command's fields are numbers of the widths the code parses.           *)
(***************************************************************************)
EXTENDS Integers, SerialNumbers

CONSTANTS
  None,                                \* Option::None
  Token,                               \* the token of the stored configuration
  Packets,                             \* the datagrams that may arrive
  SEQUENCE_MODULUS,                    \* 2^32
  SAMPLE_TIMEOUT_MILLIS,
  OFFLINE_COOLDOWN_MILLIS,
  MIN_TEMPERATURE_MILLI_C,
  MAX_TEMPERATURE_MILLI_C,
  HARD_EMERGENCY_TEMPERATURE_MILLI_C,
  MIN_DUTY_PERCENT,
  MAX_DUTY_PERCENT

ASSUME NoneAssumption == None \notin Int
ASSUME ModulusAssumption == SEQUENCE_MODULUS \in Nat \ {0}
ASSUME TimeAssumption ==
  /\ SAMPLE_TIMEOUT_MILLIS \in Nat
  /\ OFFLINE_COOLDOWN_MILLIS \in Nat
ASSUME RangeAssumption ==
  /\ MIN_TEMPERATURE_MILLI_C \in Int /\ MAX_TEMPERATURE_MILLI_C \in Int
  /\ HARD_EMERGENCY_TEMPERATURE_MILLI_C \in Int
  /\ MIN_DUTY_PERCENT \in Nat /\ MAX_DUTY_PERCENT \in Nat
  /\ MIN_DUTY_PERCENT <= MAX_DUTY_PERCENT

OFFLINE_FAN_DUTY_PERCENT == 0
INITIAL_PWM_DUTY_PERCENT == 0

VARIABLES
  last_sequence,           \* HostState.last_sequence: Option<u32>
  update_age,              \* now_millis - HostState.last_update_millis, or None
  temperature_milli_c,     \* HostState.temperature_milli_c
  requested_duty_percent,  \* HostState.requested_duty_percent
  current_duty             \* the duty last written to the PWM channel

hostState == <<last_sequence, update_age, temperature_milli_c,
               requested_duty_percent>>
vars == <<last_sequence, update_age, temperature_milli_c,
          requested_duty_percent, current_duty>>

Sequences32 == 0 .. SEQUENCE_MODULUS - 1
Temperatures == MIN_TEMPERATURE_MILLI_C .. MAX_TEMPERATURE_MILLI_C
CommandDuties == MIN_DUTY_PERCENT .. MAX_DUTY_PERCENT
Duties == CommandDuties \union {OFFLINE_FAN_DUTY_PERCENT}

\* Bound of the ages: one tick past the last age the code tells apart, and one
\* more so that a property can speak of the tick after the cooldown.
AGE_CAP == OFFLINE_COOLDOWN_MILLIS + 2

Older(age) == IF age = None \/ age = AGE_CAP THEN age ELSE age + 1

-----------------------------------------------------------------------------
\* Seeded fault: the duty is only required to parse.
parse_command_AnyDuty(expected_token, p) ==
  /\ p.utf8 /\ p.version = "LC2" /\ p.fields = 5 /\ p.token = expected_token
  /\ p.sequence \in Sequences32 /\ p.temperature_milli_c \in Temperatures

(***************************************************************************)
(* parse_command: the datagram is UTF-8, has exactly the five fields       *)
(* "LC2 token sequence temperature duty", carries the expected token, and  *)
(* its numbers parse and lie in range.  Which of the checks fails first    *)
(* only decides what is printed.                                           *)
(***************************************************************************)
parse_command(expected_token, p) ==
  /\ p.utf8
  /\ p.version = "LC2"
  /\ p.fields = 5
  /\ p.token = expected_token
  /\ p.sequence \in Sequences32
  /\ p.temperature_milli_c \in Temperatures
  /\ p.requested_duty_percent \in CommandDuties

\* Seeded fault: only the last number itself is refused.
sequence_is_newer_AnyOther(candidate, current) == candidate # current

sequence_is_newer(candidate, current) ==
  IsNewer(SEQUENCE_MODULUS, candidate, current)

\* No command within the sample timeout: an age that is None or past it.
Stale == update_age \notin 0 .. SAMPLE_TIMEOUT_MILLIS

\* Negation of accept's second test, which a first command cannot fail.
InOrder(sequence) ==
  last_sequence # None => sequence_is_newer(sequence, last_sequence)

\* Seeded fault: no staleness, and a plain comparison of the numbers.
Accepts_NoEpochs(p) ==
  /\ parse_command(Token, p)
  /\ last_sequence # None => p.sequence > last_sequence

\* HostState::accept returns Ok for this datagram.
Accepts(p) ==
  /\ parse_command(Token, p)
  /\ Stale \/ InOrder(p.sequence)

\* Seeded fault: the number is not remembered after the first command.
accept_KeepsSequence(p) ==
  /\ Accepts(p)
  /\ last_sequence' = IF last_sequence = None THEN p.sequence ELSE last_sequence
  /\ update_age' = 0
  /\ temperature_milli_c' = p.temperature_milli_c
  /\ requested_duty_percent' = p.requested_duty_percent

\* The command p carries becomes the command in force.
accept(p) ==
  /\ Accepts(p)
  /\ last_sequence' = p.sequence
  /\ update_age' = 0
  /\ temperature_milli_c' = p.temperature_milli_c
  /\ requested_duty_percent' = p.requested_duty_percent

\* Seeded fault: a refused datagram of a known token still counts as contact.
reject_RefreshesTime(p) ==
  /\ ~Accepts(p)
  /\ update_age' = IF parse_command(Token, p) THEN 0 ELSE update_age
  /\ UNCHANGED <<last_sequence, temperature_milli_c, requested_duty_percent>>

reject(p) == ~Accepts(p) /\ UNCHANGED hostState

\* Seeded fault: the cooldown is never looked at.
duty_percent_NeverStops ==
  IF update_age = None
  THEN OFFLINE_FAN_DUTY_PERCENT
  ELSE IF temperature_milli_c >= HARD_EMERGENCY_TEMPERATURE_MILLI_C
       THEN MAX_DUTY_PERCENT
       ELSE requested_duty_percent

\* Seeded fault: > in place of >=.
duty_percent_Above ==
  IF update_age \notin 0 .. OFFLINE_COOLDOWN_MILLIS
  THEN OFFLINE_FAN_DUTY_PERCENT
  ELSE IF temperature_milli_c > HARD_EMERGENCY_TEMPERATURE_MILLI_C
       THEN MAX_DUTY_PERCENT
       ELSE requested_duty_percent

\* HostState::duty_percent at the present moment.
duty_percent ==
  IF update_age \notin 0 .. OFFLINE_COOLDOWN_MILLIS
  THEN OFFLINE_FAN_DUTY_PERCENT
  ELSE IF temperature_milli_c >= HARD_EMERGENCY_TEMPERATURE_MILLI_C
       THEN MAX_DUTY_PERCENT
       ELSE requested_duty_percent
-----------------------------------------------------------------------------
Init ==
  /\ last_sequence = None
  /\ update_age = None
  /\ temperature_milli_c = 0
  /\ requested_duty_percent = OFFLINE_FAN_DUTY_PERCENT
  /\ current_duty = INITIAL_PWM_DUTY_PERCENT

\* temperature_receiver takes one datagram from the socket.
Receive(p) == (accept(p) \/ reject(p)) /\ UNCHANGED current_duty

\* One pass of the fan loop that finds the duty changed.
SetDuty ==
  /\ current_duty # duty_percent
  /\ current_duty' = duty_percent
  /\ UNCHANGED hostState

\* Time passes.  The fan loop runs every millisecond and a tick is no shorter,
\* so the fan is up to date whenever the clock advances.
Tick ==
  /\ current_duty = duty_percent
  /\ update_age' = Older(update_age)
  /\ UNCHANGED <<last_sequence, temperature_milli_c, requested_duty_percent,
                 current_duty>>

\* Seeded fault: the remembered number survives the restart.
Reboot_KeepsSequence ==
  /\ update_age' = None
  /\ temperature_milli_c' = 0
  /\ requested_duty_percent' = OFFLINE_FAN_DUTY_PERCENT
  /\ current_duty' = INITIAL_PWM_DUTY_PERCENT
  /\ UNCHANGED last_sequence

\* Seeded fault: the PWM goes on with the duty it had.
Reboot_KeepsDuty ==
  /\ last_sequence' = None
  /\ update_age' = None
  /\ temperature_milli_c' = 0
  /\ requested_duty_percent' = OFFLINE_FAN_DUTY_PERCENT
  /\ UNCHANGED current_duty

\* Power loss or software_reset: HOST_STATE and the PWM start afresh.
Reboot ==
  /\ last_sequence' = None
  /\ update_age' = None
  /\ temperature_milli_c' = 0
  /\ requested_duty_percent' = OFFLINE_FAN_DUTY_PERCENT
  /\ current_duty' = INITIAL_PWM_DUTY_PERCENT

Next ==
  \/ \E p \in Packets : Receive(p)
  \/ SetDuty
  \/ Tick
  \/ Reboot

Spec == Init /\ [][Next]_vars
-----------------------------------------------------------------------------
(***************************************************************************)
(* Every variable keeps its width, a sequence is remembered exactly when a *)
(* time is, and the fan is either off or at a duty the protocol allows.    *)
(***************************************************************************)
TypeOK ==
  /\ last_sequence \in Sequences32 \union {None}
  /\ update_age \in (0 .. AGE_CAP) \union {None}
  /\ last_sequence = None <=> update_age = None
  /\ temperature_milli_c \in Temperatures \union {0}
  /\ requested_duty_percent \in Duties
  /\ current_duty \in Duties
=============================================================================
