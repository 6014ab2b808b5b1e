---------------------------- MODULE FanPolicySlew ----------------------------
(***************************************************************************)
(* FanPolicy with a history of how far the commanded duty has run ahead of *)
(* what its ramps have earned, and of what the ramp has still to earn on   *)
(* the way to the target, in percent times ticks.  It guards no step.      *)
(***************************************************************************)
EXTENDS FanPolicy

VARIABLES rise, fall, due

historyVars == <<rise, fall, due>>
slewVars == <<vars, historyVars>>

\* The way from the present duty to a target.
Way(target) == Distance(target, commanded_duty_percent) * TICKS_PER_SECOND

\* A new target has the whole way to go; time takes the rate off it.  The count
\* ends at -Step: a duty that is not there by then has missed its ramp.
Remaining(elapsed) ==
  IF commanded_duty_percent' = target_duty_percent'
  THEN 0
  ELSE AtLeast(-Step, (IF target_duty_percent' = target_duty_percent
                       THEN due
                       ELSE Way(target_duty_percent'))
                        - Rate(target_duty_percent') * elapsed)

\* Time leaks out of the account what the duty's movement adds to it.
Account(elapsed) ==
  LET change == (commanded_duty_percent' - commanded_duty_percent)
                  * TICKS_PER_SECOND
  IN /\ rise' = AtLeast(0, rise + AtLeast(0, change)
                             - config.ramp_up_percent_per_second * elapsed)
     /\ fall' = AtLeast(0, fall + AtLeast(0, -change)
                             - config.ramp_down_percent_per_second * elapsed)
     /\ due' = Remaining(elapsed)

\* An emergency, or a restart, starts the account anew.
Settle == rise' = 0 /\ fall' = 0 /\ due' = 0

SlewInit == Init /\ rise = 0 /\ fall = 0 /\ due = 0

SlewUpdate ==
  \E temperature \in Temperatures :
    \/ UpdateEmergency(temperature) /\ Settle
    \/ \E elapsed \in Elapsed :
         UpdateNormal(temperature, elapsed) /\ Account(elapsed)

SlewNext == SlewUpdate \/ \E c \in Candidates : New(c) /\ Settle

\* The agent's loop calls update once per interval.
SlewSpec == SlewInit /\ [][SlewNext]_slewVars /\ WF_slewVars(SlewUpdate)
-----------------------------------------------------------------------------
(***************************************************************************)
(* README.md calls the ramps the maximum rates.  Over any stretch of time  *)
(* without an emergency or a restart, however the temperature and the      *)
(* target change in it, the duty rises by less than ramp_up times the time *)
(* and one step, and falls by less than ramp_down times the time and one   *)
(* step.                                                                   *)
(***************************************************************************)
SlewBounded == rise \in 0 .. Step - 1 /\ fall \in 0 .. Step - 1

(***************************************************************************)
(* A target that stays is approached as fast as its ramp: from the update  *)
(* that chose it the duty is never ahead of the ramp and never a whole     *)
(* step behind it, however update cuts the time into pieces, saturates its *)
(* steps at the width of a u8 or looks at the curve again on the way.  So  *)
(* the duty is there once the ramp has had the time for the way and one    *)
(* step.                                                                   *)
(***************************************************************************)
RampIsFollowed ==
  commanded_duty_percent # target_duty_percent =>
    Way(target_duty_percent) - due \in 0 .. Step - 1
=============================================================================
