---- MODULE MCFanPolicy ----
(***************************************************************************)
(* FanPolicy with the default configuration and others at the edges of     *)
(* what validate accepts, between some that it refuses.  The readings lie  *)
(* below, on, between and above the points of the curves.                  *)
(***************************************************************************)
EXTENDS FanPolicy

P(t, d) == [temperature |-> t, duty |-> d]

\* FanPolicyConfig::default.
Default ==
  [curve |-> <<P(45000, 25), P(55000, 40), P(65000, 60), P(75000, 80), P(80000, 100)>>,
   smoothing_seconds |-> 5, duty_step_percent |-> 5, duty_hysteresis_percent |-> 5,
   ramp_up_percent_per_second |-> 10, ramp_down_percent_per_second |-> 2,
   emergency_temperature |-> 80000]

\* Steps coarser than the hysteresis that do not divide 100, ramps that take
\* several updates a step.
Coarse ==
  [Default EXCEPT !.curve = <<P(40000, 20), P(80000, 100)>>,
                  !.duty_step_percent = 19, !.duty_hysteresis_percent = 1,
                  !.ramp_up_percent_per_second = 7,
                  !.ramp_down_percent_per_second = 3,
                  !.emergency_temperature = 85000]

\* No smoothing, no hysteresis, ramps faster than a u8 can count.
Quick ==
  [Default EXCEPT !.smoothing_seconds = 0, !.duty_hysteresis_percent = 0,
                  !.duty_step_percent = 1,
                  !.ramp_up_percent_per_second = 100]

Falling == [Default EXCEPT !.curve = <<P(45000, 60), P(55000, 40), P(80000, 100)>>]
LateEnd == [Default EXCEPT !.emergency_temperature = 70000]
NoStep == [Default EXCEPT !.duty_step_percent = 0]
NoRamp == [Default EXCEPT !.ramp_down_percent_per_second = 0]

MCCandidates == {Default, Coarse, Quick, Falling, LateEnd, NoStep, NoRamp}

MCTemperatures == {40000, 50000, 57000, 61000, 68000, 78000, 81000, 85000}
====
