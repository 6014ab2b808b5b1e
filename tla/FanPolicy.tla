------------------------------ MODULE FanPolicy ------------------------------
(***************************************************************************)
(* The agent's fan policy (host-agent/src/policy.rs): a smoothed           *)
(* temperature, the duty the curve asks for, a target that changes only    *)
(* when the curve asks for something else by the hysteresis, and a         *)
(* commanded duty that moves to the target in steps, paid from a slew      *)
(* budget that time fills.                                                 *)
(*                                                                         *)
(* Time is in ticks.  f64 is exact here: duties of the curve are counted   *)
(* in 1 / SCALE percent and the budget in percent times ticks.  The        *)
(* exponential smoothing is any value between the previous one and the     *)
(* reading, the two included, which is all that its weight tells.          *)
(***************************************************************************)
EXTENDS Integers, Sequences

CONSTANTS
  None,              \* Option::None
  Candidates,        \* the configurations parse_config may hand to new
  Temperatures,      \* the readings, and the grid of the smoothed temperature
  Elapsed,           \* ticks that may pass from one update to the next
  TICKS_PER_SECOND,
  SCALE

ASSUME TickAssumption ==
  /\ TICKS_PER_SECOND \in Nat \ {0} /\ SCALE \in Nat \ {0}
  /\ Elapsed \subseteq Nat \ {0}

ASSUME TemperatureAssumption ==
  Temperatures \subseteq Int /\ None \notin Temperatures

ASSUME CandidateAssumption ==
  \A c \in Candidates :
    /\ c.curve \in Seq([temperature : Int, duty : Nat])
    /\ c.duty_hysteresis_percent \in Nat
    /\ c.emergency_temperature \in Int

MIN_DUTY_PERCENT == 20
MAX_DUTY_PERCENT == 100
MAX_CONFIGURABLE_EMERGENCY_C == 90

\* What validate accepts for the curve and for the emergency.
CurveTemperatures == 0 .. 120000
EmergencyTemperatures == 50000 .. MAX_CONFIGURABLE_EMERGENCY_C * 1000

VARIABLES
  config,                   \* the validated configuration
  smoothed_temperature,     \* smoothed_temperature_milli_c
  target_duty_percent,
  commanded_duty_percent,
  slew_budget               \* slew_budget_percent, in percent times ticks

vars == <<config, smoothed_temperature, target_duty_percent,
          commanded_duty_percent, slew_budget>>

AtMost(a, b) == IF a < b THEN a ELSE b
AtLeast(a, b) == IF a > b THEN a ELSE b
Distance(a, b) == IF a > b THEN a - b ELSE b - a
-----------------------------------------------------------------------------
ValidCurve(c) ==
  /\ Len(c.curve) >= 2
  /\ \A i \in 1 .. Len(c.curve) - 1 :
       /\ c.curve[i].temperature < c.curve[i + 1].temperature
       /\ c.curve[i].duty <= c.curve[i + 1].duty
  /\ \A i \in 1 .. Len(c.curve) :
       /\ c.curve[i].temperature \in CurveTemperatures
       /\ c.curve[i].duty \in MIN_DUTY_PERCENT .. MAX_DUTY_PERCENT
  /\ c.curve[Len(c.curve)].duty = MAX_DUTY_PERCENT
  /\ c.curve[Len(c.curve)].temperature <= c.emergency_temperature

\* FanPolicyConfig::validate.
validate(c) ==
  /\ ValidCurve(c)
  /\ c.smoothing_seconds <= 60
  /\ c.duty_step_percent \in 1 .. 20
  /\ c.duty_hysteresis_percent <= 20
  /\ c.ramp_up_percent_per_second \in 1 .. 100
  /\ c.ramp_down_percent_per_second \in 1 .. 100
  /\ c.emergency_temperature \in EmergencyTemperatures

\* The duty of a curve, in 1 / SCALE percent.
interpolate_curve(curve, temperature) ==
  IF temperature <= curve[1].temperature
  THEN SCALE * curve[1].duty
  ELSE IF temperature > curve[Len(curve)].temperature
  THEN SCALE * curve[Len(curve)].duty
  ELSE LET i == CHOOSE i \in 1 .. Len(curve) - 1 :
                  curve[i].temperature < temperature
                    /\ temperature <= curve[i + 1].temperature
       IN SCALE * curve[i].duty
            + (SCALE * (temperature - curve[i].temperature)
                     * (curve[i + 1].duty - curve[i].duty))
              \div (curve[i + 1].temperature - curve[i].temperature)

\* Seeded fault: the cast of the quotient truncates where round() rounds.
quantize_duty_Truncates(duty, step) ==
  AtLeast(MIN_DUTY_PERCENT,
          AtMost(MAX_DUTY_PERCENT, (duty \div (step * SCALE)) * step))

\* The nearest multiple of step, halves away from zero, clamped.
quantize_duty(duty, step) ==
  AtLeast(MIN_DUTY_PERCENT,
          AtMost(MAX_DUTY_PERCENT,
                 ((2 * duty + step * SCALE) \div (2 * step * SCALE)) * step))

\* SCALE is fine enough: interpolate_curve divides without a rest.
ASSUME ScaleAssumption ==
  \A c \in Candidates : validate(c) =>
    \A t \in Temperatures, i \in 1 .. Len(c.curve) - 1 :
      (SCALE * (t - c.curve[i].temperature)
             * (c.curve[i + 1].duty - c.curve[i].duty))
        % (c.curve[i + 1].temperature - c.curve[i].temperature) = 0
-----------------------------------------------------------------------------
\* FanPolicy::new, at the start of an agent: full speed until it knows better.
New(c) ==
  /\ validate(c)
  /\ config' = c
  /\ smoothed_temperature' = None
  /\ target_duty_percent' = MAX_DUTY_PERCENT
  /\ commanded_duty_percent' = MAX_DUTY_PERCENT
  /\ slew_budget' = 0

Init ==
  /\ config \in {c \in Candidates : validate(c)}
  /\ smoothed_temperature = None
  /\ target_duty_percent = MAX_DUTY_PERCENT
  /\ commanded_duty_percent = MAX_DUTY_PERCENT
  /\ slew_budget = 0

\* Where the smoothing may leave the temperature.
Smoothed(temperature) ==
  IF smoothed_temperature = None \/ config.smoothing_seconds = 0
  THEN {temperature}
  ELSE {t \in Temperatures :
          \/ smoothed_temperature <= t /\ t <= temperature
          \/ temperature <= t /\ t <= smoothed_temperature}

\* The curve asks for something else by at least the hysteresis.
Disagrees(desired) ==
  Distance(desired, SCALE * target_duty_percent)
    >= SCALE * config.duty_hysteresis_percent

TargetFor(desired) ==
  IF Disagrees(desired)
  THEN quantize_duty(desired, config.duty_step_percent)
  ELSE target_duty_percent

Rate(target) ==
  IF target > commanded_duty_percent
  THEN config.ramp_up_percent_per_second
  ELSE config.ramp_down_percent_per_second

\* Seeded fault: an overshoot of the target by the rest of a step.
Change_WholeSteps(target, budget) ==
  LET step == config.duty_step_percent
  IN AtMost(255, AtMost(255, budget \div (step * TICKS_PER_SECOND)) * step)

\* Seeded fault: the cast to a u8 wraps where Rust's saturates.
Change_Wraps(target, budget) ==
  LET step == config.duty_step_percent
      available_steps == (budget \div (step * TICKS_PER_SECOND)) % 256
      available_change == AtMost(255, available_steps * step)
  IN AtMost(available_change, Distance(target, commanded_duty_percent))

\* available_steps and available_change saturate at the width of a u8.
Change(target, budget) ==
  LET step == config.duty_step_percent
      available_steps == AtMost(255, budget \div (step * TICKS_PER_SECOND))
      available_change == AtMost(255, available_steps * step)
  IN AtMost(available_change, Distance(target, commanded_duty_percent))

\* Seeded fault: what was moved is not taken from the budget.
Move_KeepsBudget(target, budget) ==
  /\ target_duty_percent' = target
  /\ slew_budget' = budget
  /\ commanded_duty_percent' =
       IF target > commanded_duty_percent
       THEN commanded_duty_percent + Change(target, budget)
       ELSE commanded_duty_percent - Change(target, budget)

\* The commanded duty moves towards the target by what the budget pays for.
Move(target, budget) ==
  /\ target_duty_percent' = target
  /\ slew_budget' = budget - Change(target, budget) * TICKS_PER_SECOND
  /\ commanded_duty_percent' =
       IF target > commanded_duty_percent
       THEN commanded_duty_percent + Change(target, budget)
       ELSE commanded_duty_percent - Change(target, budget)

\* Seeded fault: every look at the curve empties the budget.
Follow_AlwaysResets(desired, elapsed) ==
  LET target == TargetFor(desired)
      kept == IF Disagrees(desired) THEN 0 ELSE slew_budget
  IN IF commanded_duty_percent = target
     THEN /\ target_duty_percent' = target
          /\ slew_budget' = 0
          /\ UNCHANGED commanded_duty_percent
     ELSE Move(target, kept + Rate(target) * elapsed)

\* Seeded fault: the budget is this update's earnings alone.
Follow_SavesNothing(desired, elapsed) ==
  LET target == TargetFor(desired)
  IN IF commanded_duty_percent = target
     THEN /\ target_duty_percent' = target
          /\ slew_budget' = 0
          /\ UNCHANGED commanded_duty_percent
     ELSE Move(target, Rate(target) * elapsed)

\* Seeded fault: a new target inherits the budget of the old one.
Follow_NeverResets(desired, elapsed) ==
  LET target == TargetFor(desired)
  IN IF commanded_duty_percent = target
     THEN /\ target_duty_percent' = target
          /\ slew_budget' = 0
          /\ UNCHANGED commanded_duty_percent
     ELSE Move(target, slew_budget + Rate(target) * elapsed)

\* The lower half of update: a new target empties the budget, and so does
\* having reached it.
Follow(desired, elapsed) ==
  LET target == TargetFor(desired)
      kept == IF target = target_duty_percent THEN slew_budget ELSE 0
  IN IF commanded_duty_percent = target
     THEN /\ target_duty_percent' = target
          /\ slew_budget' = 0
          /\ UNCHANGED commanded_duty_percent
     ELSE Move(target, kept + Rate(target) * elapsed)

\* FanPolicy::update in an emergency.
UpdateEmergency(temperature) ==
  /\ temperature >= config.emergency_temperature
  /\ smoothed_temperature' = temperature
  /\ target_duty_percent' = MAX_DUTY_PERCENT
  /\ commanded_duty_percent' = MAX_DUTY_PERCENT
  /\ slew_budget' = 0
  /\ UNCHANGED config

\* Seeded fault: the curve is asked for the reading, not what smoothing made of it.
UpdateNormal_Unsmoothed(temperature, elapsed) ==
  /\ temperature < config.emergency_temperature
  /\ smoothed_temperature' \in Smoothed(temperature)
  /\ Follow(interpolate_curve(config.curve, temperature), elapsed)
  /\ UNCHANGED config

\* FanPolicy::update below the emergency temperature.
UpdateNormal(temperature, elapsed) ==
  /\ temperature < config.emergency_temperature
  /\ smoothed_temperature' \in Smoothed(temperature)
  /\ Follow(interpolate_curve(config.curve, smoothed_temperature'), elapsed)
  /\ UNCHANGED config

update(temperature) ==
  \/ UpdateEmergency(temperature)
  \/ \E elapsed \in Elapsed : UpdateNormal(temperature, elapsed)

Update == \E temperature \in Temperatures : update(temperature)

Next == Update \/ \E c \in Candidates : New(c)

\* The agent's loop calls update once per interval.
Spec == Init /\ [][Next]_vars /\ WF_vars(Update)
-----------------------------------------------------------------------------
Desired == interpolate_curve(config.curve, smoothed_temperature)

Step == config.duty_step_percent * TICKS_PER_SECOND

(***************************************************************************)
(* Types; the duties stay in the range the protocol allows, and below the  *)
(* target a budget never holds a whole step that was not taken.            *)
(***************************************************************************)
PolicyTypeOK ==
  /\ config \in Candidates /\ validate(config)
  /\ smoothed_temperature \in Temperatures \union {None}
  /\ target_duty_percent \in MIN_DUTY_PERCENT .. MAX_DUTY_PERCENT
  /\ commanded_duty_percent \in MIN_DUTY_PERCENT .. MAX_DUTY_PERCENT
  /\ slew_budget \in Nat
  /\ commanded_duty_percent # target_duty_percent => slew_budget < Step

(***************************************************************************)
(* After every update the target is within the hysteresis of what the      *)
(* curve asks for at the smoothed temperature, or the multiple of the step *)
(* that is nearest to it.                                                  *)
(***************************************************************************)
TargetTracksCurve ==
  smoothed_temperature # None =>
    LET distance == Distance(Desired, SCALE * target_duty_percent)
    IN \/ distance < SCALE * config.duty_hysteresis_percent
       \/ 2 * distance <= SCALE * config.duty_step_percent

(***************************************************************************)
(* The target does not hunt: while the smoothed temperature stays where it *)
(* is, so does the target, also where a step is coarser than the           *)
(* hysteresis and the multiple of the step that is nearest to the curve    *)
(* provokes the hysteresis again.                                          *)
(***************************************************************************)
NoHunting ==
  [][ /\ smoothed_temperature # None
      /\ smoothed_temperature' = smoothed_temperature
      /\ smoothed_temperature < config.emergency_temperature
      => UNCHANGED target_duty_percent ]_vars

(***************************************************************************)
(* A step of update never moves the commanded duty away from the target it *)
(* has just chosen, nor past it.                                           *)
(***************************************************************************)
NeverOvershoots ==
  [][ \/ commanded_duty_percent <= commanded_duty_percent'
           /\ commanded_duty_percent' <= target_duty_percent'
      \/ target_duty_percent' <= commanded_duty_percent'
           /\ commanded_duty_percent' <= commanded_duty_percent ]_vars

(***************************************************************************)
(* A target that stays is reached, whatever the temperature does meanwhile *)
(* inside the hysteresis.                                                  *)
(***************************************************************************)
SettledTargetReached ==
  <>[][UNCHANGED target_duty_percent]_vars
    => <>[](commanded_duty_percent = target_duty_percent)

(***************************************************************************)
(* At a steady reading the fan settles: hysteresis, quantization and       *)
(* smoothing never chase each other.                                       *)
(***************************************************************************)
SteadyReadingSettles ==
  \A temperature \in Temperatures :
    <>[][update(temperature)]_vars
      => <>[](commanded_duty_percent = target_duty_percent)
=============================================================================
