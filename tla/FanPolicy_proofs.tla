-------------------------- MODULE FanPolicy_proofs --------------------------
(***************************************************************************)
(* Proofs about the fan policy, for every set of configurations that       *)
(* validate accepts, every set of readings and every timing of updates.    *)
(***************************************************************************)
EXTENDS FanPolicySlew, SequenceTheorems, WellFoundedInduction, TLAPS

USE DEF MIN_DUTY_PERCENT, MAX_DUTY_PERCENT

\* What validate and the types of the fields say of a configuration.
LEMMA ConfigType ==
  ASSUME NEW c \in Candidates, validate(c)
  PROVE  /\ c.duty_step_percent \in 1 .. 20
         /\ c.duty_hysteresis_percent \in Nat
         /\ c.ramp_up_percent_per_second \in 1 .. 100
         /\ c.ramp_down_percent_per_second \in 1 .. 100
         /\ c.emergency_temperature \in Int
         /\ c.duty_step_percent * TICKS_PER_SECOND \in Nat \ {0}
<1>1. /\ c.duty_step_percent \in 1 .. 20
      /\ c.duty_hysteresis_percent \in Nat
      /\ c.ramp_up_percent_per_second \in 1 .. 100
      /\ c.ramp_down_percent_per_second \in 1 .. 100
      /\ c.emergency_temperature \in Int
  BY CandidateAssumption DEF validate
<1>. QED
  BY <1>1, TickAssumption

\* A curve has two points or more, and each a temperature and a duty.
LEMMA CurveType ==
  ASSUME NEW c \in Candidates, validate(c)
  PROVE  /\ Len(c.curve) \in Nat /\ Len(c.curve) >= 2
         /\ \A j \in 1 .. Len(c.curve) :
              c.curve[j].temperature \in Int /\ c.curve[j].duty \in Int
<1> DEFINE Point == [temperature : Int, duty : Nat]
<1>1. c.curve \in Seq(Point)
  BY CandidateAssumption
<1>2. ValidCurve(c)
  BY Zenon DEF validate
<1>3. Len(c.curve) >= 2
  BY <1>2, Zenon DEF ValidCurve
<1> HIDE DEF Point
<1>4. Len(c.curve) \in Nat /\ \A j \in 1 .. Len(c.curve) : c.curve[j] \in Point
  BY <1>1, LenProperties, ElementOfSeq, Zenon
<1>5. \A p \in Point : p.temperature \in Int /\ p.duty \in Int
  BY DEF Point
<1>. QED
  BY <1>3, <1>4, <1>5, Zenon

(***************************************************************************)
(* Between its ends a curve has a segment for every temperature, so that   *)
(* interpolate_curve asks for a duty: the segment whose upper point is the *)
(* first at or above the temperature.                                      *)
(***************************************************************************)
LEMMA SegmentExists ==
  ASSUME NEW c \in Candidates, validate(c), NEW t \in Int,
         t > c.curve[1].temperature, t <= c.curve[Len(c.curve)].temperature
  PROVE  \E i \in 1 .. Len(c.curve) - 1 :
           c.curve[i].temperature < t /\ t <= c.curve[i + 1].temperature
<1> DEFINE n == Len(c.curve)
           Above == {j \in 1 .. n : t <= c.curve[j].temperature}
<1>1. n \in Nat /\ n >= 2
  BY CurveType
<1>2. \A j \in 1 .. n : c.curve[j].temperature \in Int
  BY CurveType
<1>3. Above \subseteq Nat /\ n \in Above
  BY <1>1
<1>4. PICK j \in Above : \A k \in Above : ~ (<<k, j>> \in OpToRel(<, Nat))
  BY <1>3, WFMin, NatLessThanWellFounded
<1>5. \A k \in Above : ~ (k < j)
  BY <1>3, <1>4 DEF OpToRel
<1>6. j # 1 /\ j \in 1 .. n
  BY <1>1, <1>2
<1>7. j - 1 \in 1 .. n - 1 /\ j - 1 \notin Above /\ j - 1 + 1 = j
  BY <1>1, <1>5, <1>6
<1>8. c.curve[j - 1].temperature < t
  BY <1>1, <1>2, <1>7
<1>. QED
  BY <1>7, <1>8

\* What is left of b after its whole multiples of d is less than d.
LEMMA WholeParts ==
  ASSUME NEW b \in Nat, NEW d \in Nat \ {0}
  PROVE  b \div d \in Nat /\ (b \div d) * d <= b /\ b < (b \div d) * d + d
OBVIOUS

\* A part of a span takes no more than its share of the height.
LEMMA PartOfSpan ==
  ASSUME NEW height \in Nat, NEW width \in Nat, NEW span \in Nat \ {0},
         width <= span
  PROVE  (width * height) \div span \in 0 .. height
<1> DEFINE area == width * height
           q == area \div span
<1>1. area \in Nat /\ area <= span * height
  OBVIOUS
<1> HIDE DEF area
<1>2. q \in Nat /\ q * span <= area
  BY <1>1, WholeParts, Zenon
<1> HIDE DEF q
<1>3. ASSUME q > height PROVE FALSE
  <2>1. q * span >= (height + 1) * span
    BY <1>2, <1>3
  <2>2. (height + 1) * span = span * height + span
    OBVIOUS
  <2>. QED
    BY <1>1, <1>2, <2>1, <2>2
<1>. QED
  BY <1>2, <1>3 DEF q, area

\* What ValidCurve says of the points, without its ranges of temperatures.
LEMMA CurveShape ==
  ASSUME NEW c \in Candidates, validate(c)
  PROVE  /\ \A i \in 1 .. Len(c.curve) - 1 :
              /\ c.curve[i].temperature < c.curve[i + 1].temperature
              /\ c.curve[i].duty <= c.curve[i + 1].duty
         /\ \A i \in 1 .. Len(c.curve) :
              c.curve[i].duty \in MIN_DUTY_PERCENT .. MAX_DUTY_PERCENT
         /\ c.curve[Len(c.curve)].duty = MAX_DUTY_PERCENT
         /\ c.curve[Len(c.curve)].temperature <= c.emergency_temperature
BY Zenon DEF validate, ValidCurve

\* The segment that interpolate_curve takes, and what it makes of it.
LEMMA InterpolateSegment ==
  ASSUME NEW c \in Candidates, validate(c), NEW t \in Int,
         t > c.curve[1].temperature, t <= c.curve[Len(c.curve)].temperature
  PROVE  \E i \in 1 .. Len(c.curve) - 1 :
           /\ c.curve[i].temperature < t /\ t <= c.curve[i + 1].temperature
           /\ interpolate_curve(c.curve, t) =
                SCALE * c.curve[i].duty
                  + (SCALE * (t - c.curve[i].temperature)
                           * (c.curve[i + 1].duty - c.curve[i].duty))
                    \div (c.curve[i + 1].temperature - c.curve[i].temperature)
<1> DEFINE n == Len(c.curve)
           i == CHOOSE i \in 1 .. n - 1 :
                  c.curve[i].temperature < t /\ t <= c.curve[i + 1].temperature
<1>1. /\ i \in 1 .. n - 1
      /\ c.curve[i].temperature < t /\ t <= c.curve[i + 1].temperature
  BY SegmentExists, Zenon
<1>2. n \in Nat /\ n >= 2 /\ \A j \in 1 .. n : c.curve[j].temperature \in Int
  BY CurveType
<1>3. /\ c.curve[1].temperature \in Int /\ c.curve[n].temperature \in Int
  BY <1>2
<1>4. ~ (t <= c.curve[1].temperature) /\ ~ (t > c.curve[n].temperature)
  BY <1>3
<1>5. interpolate_curve(c.curve, t) =
        SCALE * c.curve[i].duty
          + (SCALE * (t - c.curve[i].temperature)
                   * (c.curve[i + 1].duty - c.curve[i].duty))
            \div (c.curve[i + 1].temperature - c.curve[i].temperature)
  BY <1>4, Zenon DEF interpolate_curve
<1> HIDE DEF i
<1>. QED
  BY <1>1, <1>5, Zenon

\* A curve asks for no less than the lowest duty of the protocol and for no
\* more than full speed: an interpolated duty lies between those of two points.
LEMMA InterpolateRange ==
  ASSUME NEW c \in Candidates, validate(c), NEW t \in Int
  PROVE  interpolate_curve(c.curve, t)
           \in SCALE * MIN_DUTY_PERCENT .. SCALE * MAX_DUTY_PERCENT
<1> DEFINE n == Len(c.curve)
           Between(d) == d \in SCALE * MIN_DUTY_PERCENT .. SCALE * MAX_DUTY_PERCENT
<1>1. n \in Nat /\ n >= 2 /\ \A j \in 1 .. n : c.curve[j].temperature \in Int
  BY CurveType
<1>2. \A j \in 1 .. n : c.curve[j].duty \in MIN_DUTY_PERCENT .. MAX_DUTY_PERCENT
  BY CurveShape, Zenon
<1>3. \A d \in MIN_DUTY_PERCENT .. MAX_DUTY_PERCENT : Between(SCALE * d)
  BY TickAssumption
<1>4. 1 \in 1 .. n /\ n \in 1 .. n
  BY <1>1
<1>5. CASE t <= c.curve[1].temperature
  <2>1. interpolate_curve(c.curve, t) = SCALE * c.curve[1].duty
    BY <1>5, Zenon DEF interpolate_curve
  <2>. QED
    BY <1>2, <1>3, <1>4, <2>1, Zenon
<1>6. CASE ~ (t <= c.curve[1].temperature) /\ t > c.curve[n].temperature
  <2>1. interpolate_curve(c.curve, t) = SCALE * c.curve[n].duty
    BY <1>6, Zenon DEF interpolate_curve
  <2>. QED
    BY <1>2, <1>3, <1>4, <2>1, Zenon
<1>7. CASE ~ (t <= c.curve[1].temperature) /\ ~ (t > c.curve[n].temperature)
  <2>1. t > c.curve[1].temperature /\ t <= c.curve[n].temperature
    BY <1>1, <1>4, <1>7
  <2>2. PICK i \in 1 .. n - 1 :
          /\ c.curve[i].temperature < t /\ t <= c.curve[i + 1].temperature
          /\ interpolate_curve(c.curve, t) =
               SCALE * c.curve[i].duty
                 + (SCALE * (t - c.curve[i].temperature)
                          * (c.curve[i + 1].duty - c.curve[i].duty))
                   \div (c.curve[i + 1].temperature - c.curve[i].temperature)
    BY <2>1, InterpolateSegment, Zenon
  <2> DEFINE width == t - c.curve[i].temperature
             span == c.curve[i + 1].temperature - c.curve[i].temperature
             lower == c.curve[i].duty
             upper == c.curve[i + 1].duty
             height == SCALE * (upper - lower)
             part == (width * height) \div span
  <2>3. i \in 1 .. n /\ i + 1 \in 1 .. n
    BY <1>1
  <2>4. lower \in MIN_DUTY_PERCENT .. MAX_DUTY_PERCENT
        /\ upper \in MIN_DUTY_PERCENT .. MAX_DUTY_PERCENT /\ lower <= upper
    BY <1>2, <2>3, CurveShape, Zenon
  <2>5. width \in Nat /\ span \in Nat \ {0} /\ width <= span
    <3>1. c.curve[i].temperature \in Int /\ c.curve[i + 1].temperature \in Int
      BY <1>1, <2>3, Zenon
    <3>2. c.curve[i].temperature < t /\ t <= c.curve[i + 1].temperature
      BY <2>2, Zenon
    <3>3. \A a, b \in Int : a < t /\ t <= b
            => t - a \in Nat /\ b - a \in Nat \ {0} /\ t - a <= b - a
      OBVIOUS
    <3>. QED
      BY <3>1, <3>2, <3>3, Zenon
  <2>6. interpolate_curve(c.curve, t)
          = SCALE * lower + (SCALE * width * (upper - lower)) \div span
    BY <2>2, Zenon
  <2> HIDE DEF width, span, lower, upper
  <2>7. SCALE * width * (upper - lower) = width * height
    BY <2>4, <2>5, TickAssumption
  <2>8. height \in Nat /\ SCALE * lower + height = SCALE * upper
    BY <2>4, TickAssumption
  <2> HIDE DEF height
  <2>9. part \in 0 .. height
    BY <2>5, <2>8, PartOfSpan
  <2>10. interpolate_curve(c.curve, t) = SCALE * lower + part
    BY <2>6, <2>7, Zenon
  <2> HIDE DEF part
  <2>11. Between(SCALE * lower) /\ Between(SCALE * upper)
    BY <1>3, <2>4, Zenon
  <2>. QED
    BY <2>8, <2>9, <2>10, <2>11, TickAssumption
<1>. QED
  BY <1>5, <1>6, <1>7, Zenon

\* So the curve always asks for a whole number of 1 / SCALE percent.
LEMMA InterpolateType ==
  ASSUME NEW c \in Candidates, validate(c), NEW t \in Int
  PROVE  interpolate_curve(c.curve, t) \in Int
<1>1. SCALE * MIN_DUTY_PERCENT \in Int /\ SCALE * MAX_DUTY_PERCENT \in Int
  BY TickAssumption
<1>. QED
  BY <1>1, InterpolateRange

\* The clamp keeps every target in the range of the protocol.
LEMMA QuantizeType ==
  ASSUME NEW d \in Int, NEW s \in 1 .. 20
  PROVE  quantize_duty(d, s) \in MIN_DUTY_PERCENT .. MAX_DUTY_PERCENT
<1> DEFINE q == (2 * d + s * SCALE) \div (2 * s * SCALE)
<1>1. 2 * s * SCALE \in Nat \ {0} /\ 2 * d + s * SCALE \in Int
  BY TickAssumption
<1>2. q \in Int
  BY <1>1
<1> HIDE DEF q
<1>3. q * s \in Int
  BY <1>2
<1>. QED
  BY <1>3 DEF quantize_duty, AtLeast, AtMost, q
-----------------------------------------------------------------------------
(***************************************************************************)
(* The inductive invariant.  What the duty has run ahead of its rate and   *)
(* what the budget still holds make less than one step together: a budget  *)
(* that is kept was earned after the movement it is added to.              *)
(***************************************************************************)
Ahead ==
  /\ commanded_duty_percent < target_duty_percent => rise + slew_budget < Step
  /\ commanded_duty_percent > target_duty_percent => fall + slew_budget < Step

SlewInv == PolicyTypeOK /\ SlewBounded /\ Ahead

\* The budget pays for the change, and a change that falls short of the
\* target leaves less than a step of it, in spite of the two saturations.
LEMMA ChangeIsPaid ==
  ASSUME validate(config), config \in Candidates,
         NEW target \in MIN_DUTY_PERCENT .. MAX_DUTY_PERCENT,
         commanded_duty_percent \in MIN_DUTY_PERCENT .. MAX_DUTY_PERCENT,
         NEW budget \in Nat
  PROVE  LET change == Change(target, budget)
         IN /\ change \in 0 .. Distance(target, commanded_duty_percent)
            /\ budget - change * TICKS_PER_SECOND \in Nat
            /\ \/ change = Distance(target, commanded_duty_percent)
               \/ budget - change * TICKS_PER_SECOND < Step
<1> DEFINE s == config.duty_step_percent
           T == TICKS_PER_SECOND
           D == Distance(target, commanded_duty_percent)
           n == budget \div (s * T)
           change == Change(target, budget)
<1>1. s \in 1 .. 20 /\ T \in Nat \ {0} /\ s * T \in Nat \ {0}
  BY ConfigType, TickAssumption
<1>2. D \in 0 .. 80
  BY DEF Distance
<1>3. n \in Nat /\ n * (s * T) <= budget /\ budget < n * (s * T) + s * T
  BY <1>1, WholeParts, Zenon
<1>4. change = AtMost(AtMost(255, AtMost(255, n) * s), D)
  BY DEF Change
<1> HIDE DEF s, T, D, n, change
<1>5. /\ n * s \in Nat /\ (n * s) * T = n * (s * T)
      /\ \A x, y \in Nat : x <= y => x * T \in Nat /\ x * T <= y * T
      /\ \A x \in Nat : x >= 255 => x * s >= 255 /\ x * s \in Nat
  <2>1. \A x, y \in Nat : x <= y => x * T \in Nat /\ x * T <= y * T
    BY <1>1
  <2>2. \A x \in Nat : x >= 255 => x * s >= 255 /\ x * s \in Nat
    BY <1>1
  <2>. QED
    BY <1>1, <1>3, <2>1, <2>2
<1>6. CASE n * s >= 255
  <2>1. change = D
    <3>1. CASE n >= 255
      <4>1. 255 * s >= 255 /\ 255 * s \in Nat
        BY <1>5
      <4>. QED
        BY <1>2, <1>3, <1>4, <3>1, <4>1 DEF AtMost
    <3>2. CASE n < 255
      BY <1>2, <1>3, <1>4, <1>5, <1>6, <3>2 DEF AtMost
    <3>. QED
      BY <1>3, <3>1, <3>2
  <2>2. D <= n * s /\ D \in Nat
    BY <1>2, <1>5, <1>6
  <2>3. D * T \in Nat /\ D * T <= budget
    BY <1>3, <1>5, <2>2
  <2>. QED
    BY <1>2, <2>1, <2>3 DEF s, T, D, change
<1>7. CASE n * s < 255
  <2>1. n < 255
    BY <1>3, <1>5, <1>7
  <2>2. change = AtMost(n * s, D)
    BY <1>3, <1>4, <1>5, <1>7, <2>1 DEF AtMost
  <2>3. change \in 0 .. D /\ change <= n * s /\ (change = D \/ change = n * s)
    BY <1>2, <1>5, <2>2 DEF AtMost
  <2>4. change * T \in Nat /\ change * T <= budget
    BY <1>2, <1>3, <1>5, <2>3
  <2>5. change = D \/ budget - change * T < s * T
    BY <1>1, <1>3, <1>5, <2>3
  <2>. QED
    BY <2>3, <2>4, <2>5 DEF s, T, D, change, Step
<1>. QED
  BY <1>5, <1>6, <1>7
(***************************************************************************)
(* The books of one movement.  An account that holds less than a step      *)
(* together with the budget that was kept still does so after the movement *)
(* is paid, unless the budget that is left is a step by itself; the        *)
(* account alone is less than a step in any case.                          *)
(***************************************************************************)
LEMMA Books ==
  ASSUME NEW account \in Nat, NEW kept \in Nat, NEW earned \in Nat,
         NEW paid \in Nat, NEW step \in Nat,
         account + kept < step, (kept + earned) - paid \in Nat
  PROVE  LET after == AtLeast(0, account + paid - earned)
         IN /\ after \in 0 .. step - 1
            /\ (kept + earned) - paid < step
                 => after + ((kept + earned) - paid) < step
BY DEF AtLeast

\* Without a movement an account only leaks.
LEMMA Leaks ==
  ASSUME NEW step \in Nat, NEW account \in 0 .. step - 1, NEW earned \in Nat
  PROVE  AtLeast(0, account + 0 - earned) \in 0 .. step - 1
BY DEF AtLeast

\* What the invariant says without its definitions of types.
LEMMA SlewTypes ==
  ASSUME SlewInv
  PROVE  /\ config \in Candidates /\ validate(config)
         /\ target_duty_percent \in MIN_DUTY_PERCENT .. MAX_DUTY_PERCENT
         /\ commanded_duty_percent \in MIN_DUTY_PERCENT .. MAX_DUTY_PERCENT
         /\ slew_budget \in Nat
         /\ rise \in 0 .. Step - 1 /\ fall \in 0 .. Step - 1
         /\ Step \in Nat \ {0}
         /\ Ahead
<1>1. config \in Candidates /\ validate(config)
  BY Zenon DEF SlewInv, PolicyTypeOK
<1>2. Step \in Nat \ {0}
  BY <1>1, ConfigType, Zenon DEF Step
<1>. QED
  BY <1>1, <1>2, Zenon DEF SlewInv, PolicyTypeOK, SlewBounded

\* The parts of the invariant that a movement of the duty can disturb.
Moved ==
  /\ target_duty_percent \in MIN_DUTY_PERCENT .. MAX_DUTY_PERCENT
  /\ commanded_duty_percent \in MIN_DUTY_PERCENT .. MAX_DUTY_PERCENT
  /\ slew_budget \in Nat
  /\ commanded_duty_percent # target_duty_percent => slew_budget < Step
  /\ SlewBounded
  /\ Ahead

\* A movement to the target, up or down, from a budget that was kept only
\* together with the target.
LEMMA MoveKeepsBooks ==
  ASSUME SlewInv, NEW target \in MIN_DUTY_PERCENT .. MAX_DUTY_PERCENT,
         NEW kept \in Nat, NEW elapsed \in Elapsed,
         \/ kept = 0
         \/ kept = slew_budget /\ target = target_duty_percent,
         target # commanded_duty_percent,
         Move(target, kept + Rate(target) * elapsed),
         Account(elapsed), config' = config
  PROVE  Moved'
<1> DEFINE T == TICKS_PER_SECOND
           up == config.ramp_up_percent_per_second * elapsed
           down == config.ramp_down_percent_per_second * elapsed
           earned == Rate(target) * elapsed
           change == Change(target, kept + earned)
           paid == change * T
           left == (kept + earned) - paid
           D == Distance(target, commanded_duty_percent)
<1>1. /\ config \in Candidates /\ validate(config)
      /\ commanded_duty_percent \in MIN_DUTY_PERCENT .. MAX_DUTY_PERCENT
      /\ slew_budget \in Nat
      /\ rise \in 0 .. Step - 1 /\ fall \in 0 .. Step - 1
      /\ Step \in Nat \ {0}
      /\ Ahead
  BY SlewTypes, Zenon
<1>2. T \in Nat \ {0} /\ elapsed \in Nat
  BY TickAssumption
<1>3. up \in Nat /\ down \in Nat
  BY <1>1, <1>2, ConfigType
<1>4. earned = IF target > commanded_duty_percent THEN up ELSE down
  BY Zenon DEF Rate
<1>5. earned \in Nat /\ kept + earned \in Nat
  BY <1>3, <1>4
<1>6. /\ change \in 0 .. D /\ left \in Nat /\ (change = D \/ left < Step)
  BY <1>1, <1>5, ChangeIsPaid, Zenon
<1>7. D \in 0 .. 80
      /\ D = IF target > commanded_duty_percent
             THEN target - commanded_duty_percent
             ELSE commanded_duty_percent - target
  BY <1>1 DEF Distance
<1>8. paid \in Nat
  BY <1>2, <1>6, <1>7
<1>9. /\ target_duty_percent' = target
      /\ slew_budget' = left
      /\ commanded_duty_percent' =
           IF target > commanded_duty_percent
           THEN commanded_duty_percent + change
           ELSE commanded_duty_percent - change
  BY Zenon DEF Move
<1>10. Step' = Step
  BY Zenon DEF Step
<1>11. LET moved == (commanded_duty_percent' - commanded_duty_percent) * T
       IN /\ rise' = AtLeast(0, rise + AtLeast(0, moved) - up)
          /\ fall' = AtLeast(0, fall + AtLeast(0, -moved) - down)
  BY Zenon DEF Account
<1> HIDE DEF T, up, down, earned, change, paid, left, D
<1>0. rise \in Nat /\ fall \in Nat /\ Step \in Nat /\ left = (kept + earned) - paid
  BY <1>1 DEF left
<1>12. CASE target > commanded_duty_percent
  <2>1. (commanded_duty_percent' - commanded_duty_percent) * T = paid
    BY <1>1, <1>2, <1>6, <1>7, <1>9, <1>12 DEF paid
  <2>2. rise' = AtLeast(0, rise + paid - earned)
        /\ fall' = AtLeast(0, fall + 0 - down)
    <3>1. AtLeast(0, paid) = paid /\ AtLeast(0, -paid) = 0
      BY <1>8 DEF AtLeast
    <3>. QED
      BY <1>4, <1>11, <1>12, <2>1, <3>1, Zenon
  <2>3. rise + kept < Step
    BY <1>1, <1>12 DEF Ahead
  <2>4. rise' \in 0 .. Step - 1 /\ (left < Step => rise' + left < Step)
    BY <1>0, <1>5, <1>6, <1>8, <2>2, <2>3, Books, Zenon
  <2>5. fall' \in 0 .. Step - 1
    BY <1>1, <1>3, <2>2, Leaks
  <2>6. commanded_duty_percent' \in MIN_DUTY_PERCENT .. MAX_DUTY_PERCENT
        /\ commanded_duty_percent' <= target
        /\ (change = D => commanded_duty_percent' = target)
    BY <1>1, <1>6, <1>7, <1>9, <1>12
  <2>. QED
    BY <1>6, <1>9, <1>10, <2>4, <2>5, <2>6 DEF Moved, SlewBounded, Ahead
<1>13. CASE ~ (target > commanded_duty_percent)
  <2>1. - ((commanded_duty_percent' - commanded_duty_percent) * T) = paid
        /\ (commanded_duty_percent' - commanded_duty_percent) * T = - paid
    BY <1>1, <1>2, <1>6, <1>7, <1>9, <1>13 DEF paid
  <2>2. fall' = AtLeast(0, fall + paid - earned)
        /\ rise' = AtLeast(0, rise + 0 - up)
    <3>1. AtLeast(0, paid) = paid /\ AtLeast(0, -paid) = 0
      BY <1>8 DEF AtLeast
    <3>. QED
      BY <1>4, <1>11, <1>13, <2>1, <3>1, Zenon
  <2>3. fall + kept < Step
    BY <1>1, <1>13 DEF Ahead
  <2>4. fall' \in 0 .. Step - 1 /\ (left < Step => fall' + left < Step)
    BY <1>0, <1>5, <1>6, <1>8, <2>2, <2>3, Books, Zenon
  <2>5. rise' \in 0 .. Step - 1
    BY <1>1, <1>3, <2>2, Leaks
  <2>6. commanded_duty_percent' \in MIN_DUTY_PERCENT .. MAX_DUTY_PERCENT
        /\ commanded_duty_percent' >= target
        /\ (change = D => commanded_duty_percent' = target)
    BY <1>1, <1>6, <1>7, <1>9, <1>13
  <2>. QED
    BY <1>6, <1>9, <1>10, <2>4, <2>5, <2>6 DEF Moved, SlewBounded, Ahead
<1>. QED
  BY <1>12, <1>13, Zenon
\* The lower half of update, whatever duty the curve asks for.
LEMMA FollowKeepsBooks ==
  ASSUME SlewInv, NEW desired \in Int, NEW elapsed \in Elapsed,
         Follow(desired, elapsed), Account(elapsed), config' = config
  PROVE  Moved'
<1> DEFINE target == TargetFor(desired)
           kept == IF target = target_duty_percent THEN slew_budget ELSE 0
<1>1. /\ config \in Candidates /\ validate(config)
      /\ target_duty_percent \in MIN_DUTY_PERCENT .. MAX_DUTY_PERCENT
      /\ commanded_duty_percent \in MIN_DUTY_PERCENT .. MAX_DUTY_PERCENT
      /\ slew_budget \in Nat
      /\ rise \in 0 .. Step - 1 /\ fall \in 0 .. Step - 1
      /\ Step \in Nat \ {0}
  BY SlewTypes, Zenon
<1>2. target \in MIN_DUTY_PERCENT .. MAX_DUTY_PERCENT
  BY <1>1, ConfigType, QuantizeType, Zenon DEF TargetFor
<1>3. CASE commanded_duty_percent = target
  <2>1. /\ target_duty_percent' = target
        /\ slew_budget' = 0
        /\ commanded_duty_percent' = commanded_duty_percent
    BY <1>3, Zenon DEF Follow
  <2>2. Step' = Step
    BY Zenon DEF Step
  <2> DEFINE up == config.ramp_up_percent_per_second * elapsed
             down == config.ramp_down_percent_per_second * elapsed
             moved == (commanded_duty_percent' - commanded_duty_percent)
                        * TICKS_PER_SECOND
  <2>3. up \in Nat /\ down \in Nat
    BY <1>1, ConfigType, TickAssumption
  <2>4. moved = 0 /\ -moved = 0
    BY <1>1, <2>1, TickAssumption
  <2>5. /\ rise' = AtLeast(0, rise + AtLeast(0, moved) - up)
        /\ fall' = AtLeast(0, fall + AtLeast(0, -moved) - down)
    BY Zenon DEF Account
  <2> HIDE DEF up, down, moved
  <2>6. rise' = AtLeast(0, rise + 0 - up) /\ fall' = AtLeast(0, fall + 0 - down)
    <3>1. AtLeast(0, 0) = 0
      BY DEF AtLeast
    <3>. QED
      BY <2>4, <2>5, <3>1, Zenon
  <2>7. rise' \in 0 .. Step - 1 /\ fall' \in 0 .. Step - 1
    BY <1>1, <2>3, <2>6, Leaks
  <2>8. SlewBounded'
    BY <2>2, <2>7, Zenon DEF SlewBounded
  <2>9. /\ commanded_duty_percent' = target_duty_percent'
        /\ target_duty_percent' \in MIN_DUTY_PERCENT .. MAX_DUTY_PERCENT
        /\ slew_budget' \in Nat
    <3>1. 0 \in Nat
      OBVIOUS
    <3>. QED
      BY <1>2, <1>3, <2>1, <3>1, Zenon
  <2>10. Ahead'
    BY <2>9 DEF Ahead
  <2>. QED
    BY <2>8, <2>9, <2>10, Zenon DEF Moved
<1>4. CASE commanded_duty_percent # target
  <2>1. Move(target, kept + Rate(target) * elapsed)
    BY <1>4, Zenon DEF Follow
  <2>2. kept \in Nat
    BY <1>1
  <2>3. \/ kept = 0
        \/ kept = slew_budget /\ target = target_duty_percent
    OBVIOUS
  <2> HIDE DEF target, kept
  <2>. QED
    BY <1>2, <1>4, <2>1, <2>2, <2>3, MoveKeepsBooks, Zenon
<1>. QED
  BY <1>3, <1>4, Zenon

\* A start of the agent, and an emergency, begin at full speed with nothing
\* in the budget and nothing in the accounts.
FullSpeed ==
  /\ config \in Candidates /\ validate(config)
  /\ smoothed_temperature \in Temperatures \union {None}
  /\ target_duty_percent = MAX_DUTY_PERCENT
  /\ commanded_duty_percent = MAX_DUTY_PERCENT
  /\ slew_budget = 0
  /\ rise = 0 /\ fall = 0

LEMMA FullSpeedIsFine == FullSpeed => SlewInv
<1> SUFFICES ASSUME FullSpeed PROVE SlewInv
  OBVIOUS
<1>1. config \in Candidates /\ validate(config)
  BY Zenon DEF FullSpeed
<1>2. Step \in Nat \ {0}
  BY <1>1, ConfigType, Zenon DEF Step
<1>3. /\ smoothed_temperature \in Temperatures \union {None}
      /\ target_duty_percent = MAX_DUTY_PERCENT
      /\ commanded_duty_percent = MAX_DUTY_PERCENT
      /\ slew_budget = 0 /\ rise = 0 /\ fall = 0
  BY Zenon DEF FullSpeed
<1>4. SlewBounded /\ Ahead
  BY <1>2, <1>3 DEF SlewBounded, Ahead
<1>5. PolicyTypeOK
  <2>1. /\ target_duty_percent \in MIN_DUTY_PERCENT .. MAX_DUTY_PERCENT
        /\ commanded_duty_percent \in MIN_DUTY_PERCENT .. MAX_DUTY_PERCENT
        /\ slew_budget \in Nat
        /\ commanded_duty_percent = target_duty_percent
    BY <1>3
  <2>. QED
    BY <1>1, <1>3, <2>1, Zenon DEF PolicyTypeOK
<1>. QED
  BY <1>4, <1>5, Zenon DEF SlewInv
-----------------------------------------------------------------------------
LEMMA SlewInvInit == SlewInit => SlewInv
BY FullSpeedIsFine, Zenon DEF SlewInit, Init, FullSpeed

\* Every step of the policy, with its history, keeps the invariant.
LEMMA SlewInvStep == SlewInv /\ [SlewNext]_slewVars => SlewInv'
<1> SUFFICES ASSUME SlewInv, [SlewNext]_slewVars PROVE SlewInv'
  OBVIOUS
<1>1. /\ config \in Candidates /\ validate(config)
      /\ smoothed_temperature \in Temperatures \union {None}
  BY Zenon DEF SlewInv, PolicyTypeOK
<1>2. ASSUME NEW t \in Temperatures, UpdateEmergency(t), Settle
      PROVE  SlewInv'
  <2>1. FullSpeed'
    BY <1>1, <1>2, Zenon DEF UpdateEmergency, Settle, FullSpeed, validate, ValidCurve
  <2>. QED
    BY <2>1, FullSpeedIsFine, PTL
<1>3. ASSUME NEW c \in Candidates, New(c), Settle
      PROVE  SlewInv'
  <2>1. FullSpeed'
    BY <1>3, Zenon DEF New, Settle, FullSpeed, validate, ValidCurve
  <2>. QED
    BY <2>1, FullSpeedIsFine, PTL
<1>4. ASSUME NEW t \in Temperatures, NEW elapsed \in Elapsed,
             UpdateNormal(t, elapsed), Account(elapsed)
      PROVE  SlewInv'
  <2> DEFINE desired == interpolate_curve(config.curve, smoothed_temperature')
  <2>1. /\ smoothed_temperature' \in Smoothed(t)
        /\ Follow(desired, elapsed)
        /\ config' = config
    BY <1>4, Zenon DEF UpdateNormal
  <2>2. smoothed_temperature' \in Temperatures
    BY <2>1, Zenon DEF Smoothed
  <2>3. desired \in Int
    BY <1>1, <2>2, TemperatureAssumption, InterpolateType
  <2> HIDE DEF desired
  <2>4. Moved'
    BY <1>4, <2>1, <2>3, FollowKeepsBooks, Zenon
  <2>5. config' \in Candidates /\ validate(config)'
    BY <1>1, <2>1, Zenon DEF validate, ValidCurve
  <2>. QED
    BY <2>2, <2>4, <2>5, Zenon DEF SlewInv, PolicyTypeOK, Moved
<1>5. CASE UNCHANGED slewVars
  BY <1>5, Zenon DEF SlewInv, PolicyTypeOK, SlewBounded, Ahead, Step, slewVars,
     vars, historyVars, validate, ValidCurve
<1>. QED
  BY <1>2, <1>3, <1>4, <1>5, Zenon DEF SlewNext, SlewUpdate

\* SlewInv is an invariant of the policy.
THEOREM SlewInvariant == SlewSpec => []SlewInv
BY SlewInvInit, SlewInvStep, PTL DEF SlewSpec

(***************************************************************************)
(* FanPolicy keeps its types: both duties stay in the range the protocol   *)
(* allows, whatever the curve, the steps, the ramps and the readings, and  *)
(* below the target the budget never holds a step that was not taken,      *)
(* although the steps saturate at the width of a u8.                       *)
(***************************************************************************)
THEOREM PolicyTypeCorrect == SlewSpec => []PolicyTypeOK
<1>1. SlewInv => PolicyTypeOK
  BY Zenon DEF SlewInv
<1>. QED
  BY <1>1, SlewInvariant, PTL

(***************************************************************************)
(* The ramps bound the duty over every stretch of time, not just from one  *)
(* update to the next, for all rates, steps and timings of the updates.    *)
(***************************************************************************)
THEOREM SlewIsBounded == SlewSpec => []SlewBounded
<1>1. SlewInv => SlewBounded
  BY Zenon DEF SlewInv
<1>. QED
  BY <1>1, SlewInvariant, PTL
\* What NeverOvershoots says of one step.
Approaches ==
  \/ commanded_duty_percent <= commanded_duty_percent'
       /\ commanded_duty_percent' <= target_duty_percent'
  \/ target_duty_percent' <= commanded_duty_percent'
       /\ commanded_duty_percent' <= commanded_duty_percent

LEMMA FollowApproaches ==
  ASSUME SlewInv, NEW desired \in Int, NEW elapsed \in Elapsed,
         Follow(desired, elapsed)
  PROVE  Approaches
<1> DEFINE target == TargetFor(desired)
           kept == IF target = target_duty_percent THEN slew_budget ELSE 0
           budget == kept + Rate(target) * elapsed
           change == Change(target, budget)
           D == Distance(target, commanded_duty_percent)
<1>1. /\ config \in Candidates /\ validate(config)
      /\ target_duty_percent \in MIN_DUTY_PERCENT .. MAX_DUTY_PERCENT
      /\ commanded_duty_percent \in MIN_DUTY_PERCENT .. MAX_DUTY_PERCENT
      /\ slew_budget \in Nat
  BY SlewTypes, Zenon
<1>2. target \in MIN_DUTY_PERCENT .. MAX_DUTY_PERCENT
  BY <1>1, ConfigType, QuantizeType, Zenon DEF TargetFor
<1>3. CASE commanded_duty_percent = target
  <2>1. target_duty_percent' = target /\ commanded_duty_percent' = target
    BY <1>3, Zenon DEF Follow
  <2> HIDE DEF target
  <2>. QED
    BY <1>2, <1>3, <2>1 DEF Approaches
<1>4. CASE commanded_duty_percent # target
  <2>1. /\ target_duty_percent' = target
        /\ commanded_duty_percent' =
             IF target > commanded_duty_percent
             THEN commanded_duty_percent + change
             ELSE commanded_duty_percent - change
    BY <1>4, Zenon DEF Follow, Move
  <2>2. budget \in Nat
    <3>1. Rate(target) \in Nat
      BY <1>1, ConfigType DEF Rate
    <3>2. kept \in Nat
      BY <1>1
    <3> HIDE DEF kept, target
    <3>. QED
      BY <3>1, <3>2, TickAssumption
  <2>3. D = IF target > commanded_duty_percent
            THEN target - commanded_duty_percent
            ELSE commanded_duty_percent - target
    BY <1>1, <1>2 DEF Distance
  <2> HIDE DEF budget, target
  <2>4. change \in 0 .. D
    BY <1>1, <1>2, <2>2, ChangeIsPaid, Zenon
  <2> HIDE DEF change, D
  <2>. QED
    BY <1>1, <1>2, <2>1, <2>3, <2>4 DEF Approaches
<1>. QED
  BY <1>3, <1>4, Zenon

(***************************************************************************)
(* No update moves the commanded duty away from its target or past it, for *)
(* every step, ramp and timing.                                            *)
(***************************************************************************)
THEOREM NoOvershoot == SlewSpec => NeverOvershoots
<1>1. SlewInv /\ [SlewNext]_slewVars => [Approaches]_vars
  <2> SUFFICES ASSUME SlewInv, [SlewNext]_slewVars PROVE [Approaches]_vars
    OBVIOUS
  <2>1. /\ config \in Candidates /\ validate(config)
        /\ commanded_duty_percent \in MIN_DUTY_PERCENT .. MAX_DUTY_PERCENT
    BY SlewTypes, Zenon
  <2>2. ASSUME target_duty_percent' = MAX_DUTY_PERCENT,
               commanded_duty_percent' = MAX_DUTY_PERCENT
        PROVE  Approaches
    BY <2>1, <2>2 DEF Approaches
  <2>3. ASSUME NEW t \in Temperatures, NEW elapsed \in Elapsed,
               UpdateNormal(t, elapsed)
        PROVE  Approaches
    <3> DEFINE desired == interpolate_curve(config.curve, smoothed_temperature')
    <3>1. smoothed_temperature' \in Smoothed(t) /\ Follow(desired, elapsed)
      BY <2>3, Zenon DEF UpdateNormal
    <3>2. smoothed_temperature' \in Temperatures
      BY <3>1, Zenon DEF Smoothed
    <3>3. desired \in Int
      BY <2>1, <3>2, TemperatureAssumption, InterpolateType
    <3> HIDE DEF desired
    <3>. QED
      BY <3>1, <3>3, FollowApproaches, Zenon
  <2>. QED
    BY <2>2, <2>3, Zenon DEF SlewNext, SlewUpdate, UpdateEmergency, New, slewVars
<1>2. SlewSpec => [][Approaches]_vars
  BY <1>1, SlewInvariant, PTL DEF SlewSpec
<1>. QED
  BY <1>2, Zenon DEF NeverOvershoots, Approaches
-----------------------------------------------------------------------------
\* And the whole span takes all of it.
LEMMA WholeSpan ==
  ASSUME NEW height \in Nat, NEW span \in Nat \ {0}
  PROVE  (span * height) \div span = height
<1> DEFINE area == span * height
           q == area \div span
<1>1. area \in Nat
  OBVIOUS
<1>2. q \in 0 .. height
  BY PartOfSpan DEF q
<1>3. area < q * span + span
  BY <1>1, WholeParts, Zenon
<1> HIDE DEF q
<1>4. ASSUME q < height PROVE FALSE
  <2>1. (q + 1) * span <= span * height
    BY <1>2, <1>4
  <2>2. (q + 1) * span = q * span + span
    BY <1>2
  <2>. QED
    BY <1>2, <1>3, <2>1, <2>2
<1>. QED
  BY <1>2, <1>4 DEF q

\* The temperatures of the points rise all along the curve: the first point
\* that did not lie above the j-th would have one before it that does.
LEMMA CurveRises ==
  ASSUME NEW c \in Candidates, validate(c),
         NEW j \in 1 .. Len(c.curve), NEW k \in 1 .. Len(c.curve), j < k
  PROVE  c.curve[j].temperature < c.curve[k].temperature
<1> DEFINE n == Len(c.curve)
           Low == {i \in j + 1 .. n : ~ (c.curve[j].temperature < c.curve[i].temperature)}
<1>1. n \in Nat /\ \A i \in 1 .. n : c.curve[i].temperature \in Int
  BY CurveType
<1>2. SUFFICES ASSUME k \in Low PROVE FALSE
  BY <1>1
<1>3. Low \subseteq Nat
  BY <1>1
<1>4. PICK i \in Low : \A l \in Low : ~ (<<l, i>> \in OpToRel(<, Nat))
  BY <1>2, <1>3, WFMin, NatLessThanWellFounded
<1>5. \A l \in Low : ~ (l < i)
  BY <1>3, <1>4 DEF OpToRel
<1>6. /\ i \in j + 1 .. n /\ i - 1 \in 1 .. n - 1 /\ i - 1 + 1 = i
      /\ i - 1 = j \/ i - 1 \in j + 1 .. n
  BY <1>1
<1>7. c.curve[i - 1].temperature < c.curve[i].temperature
  BY <1>6, CurveShape
<1>8. i - 1 \notin Low
  BY <1>5, <1>6
<1> DEFINE T(l) == c.curve[l].temperature
<1>9. T(j) \in Int /\ T(i - 1) \in Int /\ T(i) \in Int
  BY <1>1, <1>6
<1>10. i - 1 = j \/ T(j) < T(i - 1)
  BY <1>6, <1>8
<1>11. ~ (T(j) < T(i)) /\ T(i - 1) < T(i)
  BY <1>4, <1>7
<1> HIDE DEF T
<1>. QED
  BY <1>9, <1>10, <1>11

\* From the emergency temperature on the curve asks for full speed as well.
LEMMA InterpolateTop ==
  ASSUME NEW c \in Candidates, validate(c), NEW t \in Int,
         t >= c.emergency_temperature
  PROVE  interpolate_curve(c.curve, t) = SCALE * MAX_DUTY_PERCENT
<1> DEFINE n == Len(c.curve)
<1>1. n \in Nat /\ n >= 2 /\ \A j \in 1 .. n : c.curve[j].temperature \in Int
  BY CurveType
<1>2. 1 \in 1 .. n /\ n \in 1 .. n /\ 1 < n
  BY <1>1
<1>3. c.curve[1].temperature < c.curve[n].temperature
  BY <1>2, CurveRises, Zenon
<1>4. c.curve[n].temperature <= t
  BY <1>1, <1>2, ConfigType, CurveShape
<1>5. ~ (t <= c.curve[1].temperature)
  BY <1>1, <1>2, <1>3, <1>4
<1>6. CASE t > c.curve[n].temperature
  <2>1. interpolate_curve(c.curve, t) = SCALE * c.curve[n].duty
    BY <1>5, <1>6, Zenon DEF interpolate_curve
  <2>. QED
    BY <2>1, CurveShape, Zenon
<1>7. CASE ~ (t > c.curve[n].temperature)
  <2>1. t > c.curve[1].temperature /\ t = c.curve[n].temperature
    BY <1>1, <1>2, <1>4, <1>5, <1>7
  <2>2. t <= c.curve[n].temperature
    BY <1>1, <1>2, <2>1
  <2>3. PICK i \in 1 .. n - 1 :
          /\ c.curve[i].temperature < t /\ t <= c.curve[i + 1].temperature
          /\ interpolate_curve(c.curve, t) =
               SCALE * c.curve[i].duty
                 + (SCALE * (t - c.curve[i].temperature)
                          * (c.curve[i + 1].duty - c.curve[i].duty))
                   \div (c.curve[i + 1].temperature - c.curve[i].temperature)
    BY <2>1, <2>2, InterpolateSegment, Zenon
  <2>4. i \in 1 .. n /\ i + 1 \in 1 .. n
    BY <1>1
  <2>5. i + 1 = n
    <3>1. ASSUME i + 1 < n PROVE FALSE
      <4>1. c.curve[i + 1].temperature < c.curve[n].temperature
        BY <1>2, <2>4, <3>1, CurveRises, Zenon
      <4>. QED
        BY <1>1, <1>2, <2>1, <2>3, <2>4, <4>1
    <3>. QED
      BY <1>1, <2>4, <3>1
  <2> DEFINE span == t - c.curve[i].temperature
             lower == c.curve[i].duty
             upper == c.curve[i + 1].duty
             height == SCALE * (upper - lower)
  <2>6. lower \in MIN_DUTY_PERCENT .. MAX_DUTY_PERCENT
        /\ upper = MAX_DUTY_PERCENT
    <3>1. c.curve[n].duty = MAX_DUTY_PERCENT
      BY CurveShape, Zenon
    <3>2. lower \in MIN_DUTY_PERCENT .. MAX_DUTY_PERCENT
      BY <2>4, CurveShape, Zenon
    <3>. QED
      BY <2>5, <3>1, <3>2, Zenon
  <2>7. span \in Nat \ {0}
    <3>1. c.curve[i].temperature \in Int /\ c.curve[i].temperature < t
      BY <1>1, <2>3, <2>4, Zenon
    <3>. QED
      BY <3>1
  <2>8. interpolate_curve(c.curve, t)
          = SCALE * lower + (SCALE * span * (upper - lower)) \div span
    BY <2>1, <2>3, <2>5, Zenon
  <2> HIDE DEF span, lower, upper
  <2>9. SCALE * span * (upper - lower) = span * height
    BY <2>6, <2>7, TickAssumption
  <2>10. height \in Nat /\ SCALE * lower + height = SCALE * MAX_DUTY_PERCENT
    BY <2>6, TickAssumption
  <2> HIDE DEF height
  <2>11. (span * height) \div span = height
    BY <2>7, <2>10, WholeSpan
  <2>. QED
    BY <2>8, <2>9, <2>10, <2>11, Zenon
<1>. QED
  BY <1>6, <1>7, Zenon

\* What is rounded is no farther than half a step from the curve, and the
\* clamp only brings it nearer, as the curve keeps to the range.
LEMMA QuantizeNear ==
  ASSUME NEW s \in 1 .. 20,
         NEW d \in SCALE * MIN_DUTY_PERCENT .. SCALE * MAX_DUTY_PERCENT
  PROVE  2 * Distance(d, SCALE * quantize_duty(d, s)) <= SCALE * s
<1> DEFINE S == SCALE
           whole == 2 * s * S
           q == (2 * d + s * S) \div whole
           near == S * (q * s)
<1>1. S \in Nat \ {0} /\ d \in Nat /\ whole \in Nat \ {0} /\ 2 * d + s * S \in Nat
  BY TickAssumption
<1>2. /\ q \in Nat /\ q * whole <= 2 * d + s * S
      /\ 2 * d + s * S < q * whole + whole
  BY <1>1, WholeParts, Zenon
<1>3. quantize_duty(d, s)
        = AtLeast(MIN_DUTY_PERCENT, AtMost(MAX_DUTY_PERCENT, q * s))
  BY Zenon DEF quantize_duty
<1>4. S * 20 <= d /\ d <= S * 100
  BY TickAssumption
<1> HIDE DEF q, S
<1>5. q * s \in Nat /\ near \in Nat /\ q * whole = 2 * near
  BY <1>1, <1>2
<1>6. S * s \in Nat /\ s * S = S * s /\ whole = 2 * (S * s)
  BY <1>1
<1> HIDE DEF whole
<1>7. 2 * (near - d) <= S * s /\ 2 * (d - near) <= S * s
  BY <1>1, <1>2, <1>5, <1>6
<1>8. CASE q * s > 100
  <2>1. quantize_duty(d, s) = 100
    BY <1>3, <1>5, <1>8 DEF AtLeast, AtMost
  <2>2. S * 100 <= near
    BY <1>1, <1>5, <1>8
  <2> HIDE DEF near
  <2>3. 2 * Distance(d, S * 100) <= S * s
    BY <1>1, <1>4, <1>5, <1>6, <1>7, <2>2 DEF Distance
  <2>. QED
    BY <2>1, <2>3, Zenon DEF S
<1>9. CASE q * s < 20
  <2>1. quantize_duty(d, s) = 20
    BY <1>3, <1>5, <1>9 DEF AtLeast, AtMost
  <2>2. S * 20 >= near
    BY <1>1, <1>5, <1>9
  <2> HIDE DEF near
  <2>3. 2 * Distance(d, S * 20) <= S * s
    BY <1>1, <1>4, <1>5, <1>6, <1>7, <2>2 DEF Distance
  <2>. QED
    BY <2>1, <2>3, Zenon DEF S
<1>10. CASE ~ (q * s > 100) /\ ~ (q * s < 20)
  <2>1. quantize_duty(d, s) = q * s
    BY <1>3, <1>5, <1>10 DEF AtLeast, AtMost
  <2>2. SCALE * quantize_duty(d, s) = near
    BY <2>1, Zenon DEF S
  <2> HIDE DEF near
  <2>3. 2 * Distance(d, near) <= S * s
    BY <1>1, <1>5, <1>6, <1>7 DEF Distance
  <2>. QED
    BY <2>2, <2>3, Zenon DEF S
<1>. QED
  BY <1>8, <1>9, <1>10, Zenon

\* The target that one look at the curve leaves.
LEMMA TargetIsNear ==
  ASSUME validate(config), config \in Candidates,
         target_duty_percent \in MIN_DUTY_PERCENT .. MAX_DUTY_PERCENT,
         NEW desired \in SCALE * MIN_DUTY_PERCENT .. SCALE * MAX_DUTY_PERCENT
  PROVE  LET distance == Distance(desired, SCALE * TargetFor(desired))
         IN \/ distance < SCALE * config.duty_hysteresis_percent
            \/ 2 * distance <= SCALE * config.duty_step_percent
<1>1. /\ config.duty_step_percent \in 1 .. 20
      /\ config.duty_hysteresis_percent \in Nat
  BY ConfigType
<1>2. CASE Disagrees(desired)
  BY <1>1, <1>2, QuantizeNear, Zenon DEF TargetFor
<1>3. CASE ~ Disagrees(desired)
  <2>1. TargetFor(desired) = target_duty_percent
    BY <1>3, Zenon DEF TargetFor
  <2>2. Distance(desired, SCALE * target_duty_percent)
          < SCALE * config.duty_hysteresis_percent
    BY <1>1, <1>3, TickAssumption DEF Disagrees, Distance
  <2>. QED
    BY <2>1, <2>2, Zenon
<1>. QED
  BY <1>2, <1>3, Zenon

(***************************************************************************)
(* For every curve, hysteresis, step and course of the temperature the     *)
(* target is what TargetTracksCurve says: within the hysteresis of the     *)
(* curve, or its nearest multiple of the step, clamped or not.             *)
(***************************************************************************)
THEOREM TargetTracks == SlewSpec => []TargetTracksCurve
<1>1. SlewInit => TargetTracksCurve
  BY Zenon DEF SlewInit, Init, TargetTracksCurve
<1>2. SlewInv /\ TargetTracksCurve /\ [SlewNext]_slewVars => TargetTracksCurve'
  <2> SUFFICES ASSUME SlewInv, TargetTracksCurve, [SlewNext]_slewVars
               PROVE  TargetTracksCurve'
    OBVIOUS
  <2>1. /\ config \in Candidates /\ validate(config)
        /\ target_duty_percent \in MIN_DUTY_PERCENT .. MAX_DUTY_PERCENT
    BY SlewTypes, Zenon
  <2>2. ASSUME NEW t \in Temperatures, UpdateEmergency(t)
        PROVE  TargetTracksCurve'
    <3>1. /\ smoothed_temperature' = t /\ config' = config
          /\ target_duty_percent' = MAX_DUTY_PERCENT
          /\ t >= config.emergency_temperature
      BY <2>2, Zenon DEF UpdateEmergency
    <3>2. Desired' = SCALE * target_duty_percent'
      BY <2>1, <3>1, TemperatureAssumption, InterpolateTop, Zenon DEF Desired
    <3>3. SCALE * target_duty_percent' \in Int /\ config.duty_step_percent \in Nat
      BY <2>1, <3>1, ConfigType, TickAssumption
    <3>4. 2 * Distance(Desired', SCALE * target_duty_percent')
            <= SCALE * config'.duty_step_percent
      BY <3>1, <3>2, <3>3, TickAssumption DEF Distance
    <3>. QED
      BY <3>4, Zenon DEF TargetTracksCurve
  <2>3. ASSUME NEW t \in Temperatures, NEW elapsed \in Elapsed,
               UpdateNormal(t, elapsed)
        PROVE  TargetTracksCurve'
    <3> DEFINE desired == interpolate_curve(config.curve, smoothed_temperature')
    <3>1. /\ smoothed_temperature' \in Smoothed(t)
          /\ Follow(desired, elapsed) /\ config' = config
      BY <2>3, Zenon DEF UpdateNormal
    <3>2. smoothed_temperature' \in Temperatures
      BY <3>1, Zenon DEF Smoothed
    <3>3. desired \in SCALE * MIN_DUTY_PERCENT .. SCALE * MAX_DUTY_PERCENT
      BY <2>1, <3>2, TemperatureAssumption, InterpolateRange
    <3>4. Desired' = desired
      BY <3>1, Zenon DEF Desired
    <3> HIDE DEF desired
    <3>5. target_duty_percent' = TargetFor(desired)
      BY <3>1, Zenon DEF Follow, Move
    <3>. QED
      BY <2>1, <3>1, <3>3, <3>4, <3>5, TargetIsNear, Zenon DEF TargetTracksCurve
  <2>4. ASSUME NEW c \in Candidates, New(c) PROVE TargetTracksCurve'
    BY <2>4, Zenon DEF New, TargetTracksCurve
  <2>5. CASE UNCHANGED slewVars
    BY <2>5, Zenon DEF TargetTracksCurve, Desired, slewVars, vars
  <2>. QED
    BY <2>2, <2>3, <2>4, <2>5, Zenon DEF SlewNext, SlewUpdate
<1>. QED
  BY <1>1, <1>2, SlewInvariant, PTL DEF SlewSpec
-----------------------------------------------------------------------------
(***************************************************************************)
(* RampIsFollowed is not inductive: it does not say what the budget holds. *)
(* What does is that the ramp has still to earn the way to the target,     *)
(* less the budget, which is what the duty lags behind.                    *)
(***************************************************************************)
DueInv ==
  commanded_duty_percent # target_duty_percent =>
    due = Way(target_duty_percent) - slew_budget

\* One look at the curve and the movement it leads to: what the ramp earns goes
\* into the budget, and what the budget pays for shortens the way.
LEMMA FollowKeepsDue ==
  ASSUME SlewInv, SlewInv', DueInv, NEW desired \in Int, NEW elapsed \in Elapsed,
         Follow(desired, elapsed), Account(elapsed), config' = config
  PROVE  DueInv'
<1> DEFINE T == TICKS_PER_SECOND
           target == TargetFor(desired)
           kept == IF target = target_duty_percent THEN slew_budget ELSE 0
           earned == Rate(target) * elapsed
           change == Change(target, kept + earned)
           D == Distance(target, commanded_duty_percent)
<1>1. /\ config \in Candidates /\ validate(config)
      /\ target_duty_percent \in MIN_DUTY_PERCENT .. MAX_DUTY_PERCENT
      /\ commanded_duty_percent \in MIN_DUTY_PERCENT .. MAX_DUTY_PERCENT
      /\ slew_budget \in Nat
  BY SlewTypes, Zenon
<1>2. target \in MIN_DUTY_PERCENT .. MAX_DUTY_PERCENT
  BY <1>1, ConfigType, QuantizeType, Zenon DEF TargetFor
<1>3. CASE commanded_duty_percent = target
  BY <1>3, Zenon DEF Follow, DueInv
<1>4. CASE commanded_duty_percent # target
  <2>1. T \in Nat /\ elapsed \in Nat /\ Rate(target) \in Nat
    BY <1>1, ConfigType, TickAssumption DEF Rate
  <2>2. kept \in Nat /\ earned \in Nat
    <3> HIDE DEF target
    <3>. QED
      BY <1>1, <2>1
  <2>3. /\ target_duty_percent' = target
        /\ slew_budget' = (kept + earned) - change * T
        /\ commanded_duty_percent' =
             IF target > commanded_duty_percent
             THEN commanded_duty_percent + change
             ELSE commanded_duty_percent - change
    BY <1>4, Zenon DEF Follow, Move
  <2>4. kept + earned \in Nat
    <3> HIDE DEF kept, earned
    <3>. QED
      BY <2>2
  <2>5. change \in 0 .. D
    BY <1>1, <1>2, <2>4, ChangeIsPaid, Zenon
  <2>6. D = IF target > commanded_duty_percent
            THEN target - commanded_duty_percent
            ELSE commanded_duty_percent - target
    BY <1>1, <1>2 DEF Distance
  <2>7. commanded_duty_percent' # target_duty_percent' =>
          due' = AtLeast(-Step, (IF target = target_duty_percent THEN due ELSE D * T) - earned)
    BY <2>3, Zenon DEF Account, Remaining, Way
  <2>8. due = D * T - kept \/ target # target_duty_percent
    BY <1>4, Zenon DEF DueInv, Way
  <2>9. target # target_duty_percent => kept = 0
    OBVIOUS
  <2>10. Way(target_duty_percent)'
           = Distance(target_duty_percent', commanded_duty_percent') * T
    BY Zenon DEF Way
  <2> HIDE DEF target, kept, earned, change, D, T
  <2>11. D \in 0 .. 80
    BY <1>1, <1>2, <2>6
  <2>12. Distance(target_duty_percent', commanded_duty_percent') = D - change
    BY <1>1, <1>2, <1>4, <2>3, <2>5, <2>6, <2>11 DEF Distance
  <2>13. (D - change) * T = D * T - change * T /\ D * T \in Int /\ change * T \in Int
    BY <2>1, <2>5, <2>11
  <2>14. (IF target = target_duty_percent THEN due ELSE D * T) = D * T - kept
    BY <2>8, <2>9, <2>13
  <2>15. (D * T - kept) - earned
           = (D * T - change * T) - ((kept + earned) - change * T)
    BY <2>2, <2>13
  <2>16. Way(target_duty_percent)' = D * T - change * T
    BY <2>10, <2>12, <2>13, Zenon
  <2>17. commanded_duty_percent' # target_duty_percent' =>
           due' = AtLeast(-Step, Way(target_duty_percent)' - slew_budget')
    BY <2>3, <2>7, <2>14, <2>15, <2>16, Zenon
  <2>18. /\ commanded_duty_percent' # target_duty_percent' => slew_budget' < Step
         /\ slew_budget' \in Nat
    BY Zenon DEF SlewInv, PolicyTypeOK, Step
  <2>19. Way(target_duty_percent)' \in Nat
    <3>1. D - change \in Nat
      BY <2>5, <2>11
    <3>. QED
      BY <2>1, <2>10, <2>12, <3>1 DEF T
  <2>20. Step \in Nat
    BY SlewTypes
  <2>21. commanded_duty_percent' # target_duty_percent' =>
           AtLeast(-Step, Way(target_duty_percent)' - slew_budget')
             = Way(target_duty_percent)' - slew_budget'
    BY <2>18, <2>19, <2>20 DEF AtLeast
  <2>. QED
    BY <2>17, <2>21, Zenon DEF DueInv
<1>. QED
  BY <1>3, <1>4, Zenon

LEMMA DueStep == SlewInv /\ SlewInv' /\ DueInv /\ [SlewNext]_slewVars => DueInv'
<1> SUFFICES ASSUME SlewInv, SlewInv', DueInv, [SlewNext]_slewVars PROVE DueInv'
  OBVIOUS
<1>1. ASSUME NEW t \in Temperatures, NEW elapsed \in Elapsed,
             UpdateNormal(t, elapsed), Account(elapsed)
      PROVE  DueInv'
  <2> DEFINE desired == interpolate_curve(config.curve, smoothed_temperature')
  <2>1. smoothed_temperature' \in Smoothed(t) /\ Follow(desired, elapsed)
    BY <1>1, Zenon DEF UpdateNormal
  <2>2. smoothed_temperature' \in Temperatures
    BY <2>1, Zenon DEF Smoothed
  <2>3. config \in Candidates /\ validate(config)
    BY SlewTypes, Zenon
  <2>4. desired \in Int
    BY <2>2, <2>3, TemperatureAssumption, InterpolateType
  <2> HIDE DEF desired
  <2>5. config' = config
    BY <1>1, Zenon DEF UpdateNormal
  <2>. QED
    BY <1>1, <2>1, <2>4, <2>5, FollowKeepsDue, Zenon
<1>2. ASSUME target_duty_percent' = MAX_DUTY_PERCENT,
             commanded_duty_percent' = MAX_DUTY_PERCENT
      PROVE  DueInv'
  BY <1>2, Zenon DEF DueInv
<1>3. CASE UNCHANGED slewVars
  BY <1>3, Zenon DEF DueInv, Way, slewVars, vars, historyVars
<1>. QED
  BY <1>1, <1>2, <1>3, Zenon DEF SlewNext, SlewUpdate, UpdateEmergency, New

LEMMA DueKeepsUp == SlewInv /\ DueInv => RampIsFollowed
<1> SUFFICES ASSUME SlewInv, DueInv, commanded_duty_percent # target_duty_percent
             PROVE  Way(target_duty_percent) - due \in 0 .. Step - 1
  BY Zenon DEF RampIsFollowed
<1>1. due = Way(target_duty_percent) - slew_budget
  BY Zenon DEF DueInv
<1>2. slew_budget \in Nat /\ slew_budget < Step
  BY Zenon DEF SlewInv, PolicyTypeOK
<1>3. Step \in Nat
  BY SlewTypes
<1>4. Way(target_duty_percent) \in Int
  BY SlewTypes, TickAssumption DEF Way, Distance
<1>. QED
  BY <1>1, <1>2, <1>3, <1>4

(***************************************************************************)
(* A target that stays is approached at the ramp's own pace, less than one *)
(* step behind it, for every ramp, step and timing of the updates.  With   *)
(* the target's settling (NoTargetHunts) this is why the fan comes to      *)
(* rest, and by when.                                                      *)
(***************************************************************************)
THEOREM RampIsKept == SlewSpec => []RampIsFollowed
<1>1. SlewInit => DueInv
  BY Zenon DEF SlewInit, Init, DueInv
<1>2. SlewSpec => []DueInv
  BY <1>1, DueStep, SlewInvariant, PTL DEF SlewSpec
<1>. QED
  BY <1>2, DueKeepsUp, SlewInvariant, PTL
-----------------------------------------------------------------------------
(***************************************************************************)
(* Below the emergency the target is what the curve would choose again.    *)
(* An emergency may leave another target, as full speed need not be a      *)
(* multiple of the step.                                                   *)
(***************************************************************************)
Settled ==
  smoothed_temperature # None /\ smoothed_temperature < config.emergency_temperature
    => TargetFor(Desired) = target_duty_percent

LEMMA SettledStep == SlewInv /\ Settled /\ [SlewNext]_slewVars => Settled'
<1> SUFFICES ASSUME SlewInv, Settled, [SlewNext]_slewVars PROVE Settled'
  OBVIOUS
<1>1. ASSUME NEW t \in Temperatures, UpdateEmergency(t)
      PROVE  Settled'
  <2>1. /\ smoothed_temperature' = t /\ config' = config
        /\ t >= config.emergency_temperature
    BY <1>1, Zenon DEF UpdateEmergency
  <2>2. config.emergency_temperature \in Int
    BY SlewTypes, ConfigType, Zenon
  <2>3. ~ (t < config.emergency_temperature)
    BY <2>1, <2>2, TemperatureAssumption
  <2>. QED
    BY <2>1, <2>3, Zenon DEF Settled
<1>2. ASSUME NEW t \in Temperatures, NEW elapsed \in Elapsed,
             UpdateNormal(t, elapsed)
      PROVE  Settled'
  <2> DEFINE desired == interpolate_curve(config.curve, smoothed_temperature')
  <2>1. Follow(desired, elapsed) /\ config' = config
    BY <1>2, Zenon DEF UpdateNormal
  <2>2. Desired' = desired
    BY <2>1, Zenon DEF Desired
  <2> HIDE DEF desired
  <2>3. target_duty_percent' = TargetFor(desired)
    BY <2>1, Zenon DEF Follow, Move
  \* The second look at the same duty: quantized the same, or kept again.
  <2>4. TargetFor(Desired)' =
          IF Distance(desired, SCALE * target_duty_percent')
               >= SCALE * config.duty_hysteresis_percent
          THEN quantize_duty(desired, config.duty_step_percent)
          ELSE target_duty_percent'
    BY <2>1, <2>2, Zenon DEF TargetFor, Disagrees
  <2>5. TargetFor(Desired)' = target_duty_percent'
    <3>1. CASE Disagrees(desired)
      BY <2>3, <2>4, <3>1, Zenon DEF TargetFor
    <3>2. CASE ~ Disagrees(desired)
      BY <2>3, <2>4, <3>2, Zenon DEF TargetFor, Disagrees
    <3>. QED
      BY <3>1, <3>2, Zenon
  <2>. QED
    BY <2>5, Zenon DEF Settled
<1>3. ASSUME NEW c \in Candidates, New(c) PROVE Settled'
  BY <1>3, Zenon DEF New, Settled
<1>4. CASE UNCHANGED slewVars
  BY <1>4, Zenon DEF Settled, TargetFor, Disagrees, Desired, slewVars, vars
<1>. QED
  BY <1>1, <1>2, <1>3, <1>4, Zenon DEF SlewNext, SlewUpdate

(***************************************************************************)
(* The target does not hunt, for any curve, hysteresis, step and pace that *)
(* validate accepts: update is at rest as soon as the smoothing is.        *)
(***************************************************************************)
THEOREM NoTargetHunts == SlewSpec => NoHunting
<1> DEFINE Kept == /\ smoothed_temperature # None
                   /\ smoothed_temperature' = smoothed_temperature
                   /\ smoothed_temperature < config.emergency_temperature
                   => UNCHANGED target_duty_percent
<1>1. SlewInv /\ Settled /\ [SlewNext]_slewVars => [Kept]_vars
  <2> SUFFICES ASSUME SlewInv, Settled, [SlewNext]_slewVars,
                      smoothed_temperature # None,
                      smoothed_temperature' = smoothed_temperature,
                      smoothed_temperature < config.emergency_temperature
               PROVE  UNCHANGED target_duty_percent
    BY Zenon
  <2>1. TargetFor(Desired) = target_duty_percent
    BY Zenon DEF Settled
  <2>2. ASSUME NEW t \in Temperatures, UpdateEmergency(t)
        PROVE  FALSE
    <3>1. smoothed_temperature = t /\ t >= config.emergency_temperature
      BY <2>2, Zenon DEF UpdateEmergency
    <3>2. config.emergency_temperature \in Int
      BY SlewTypes, ConfigType, Zenon
    <3>. QED
      BY <3>1, <3>2, TemperatureAssumption
  <2>3. ASSUME NEW t \in Temperatures, NEW elapsed \in Elapsed,
               UpdateNormal(t, elapsed)
        PROVE  UNCHANGED target_duty_percent
    <3>1. Follow(Desired, elapsed)
      BY <2>3, Zenon DEF UpdateNormal, Desired
    <3>. QED
      BY <2>1, <3>1, Zenon DEF Follow, Move
  <2>4. ASSUME NEW c \in Candidates, New(c) PROVE FALSE
    BY <2>4, Zenon DEF New
  <2>5. CASE UNCHANGED slewVars
    BY <2>5, Zenon DEF slewVars, vars
  <2>. QED
    BY <2>2, <2>3, <2>4, <2>5, Zenon DEF SlewNext, SlewUpdate
<1>2. SlewInit => Settled
  BY Zenon DEF SlewInit, Init, Settled
<1>3. SlewSpec => [][Kept]_vars
  BY <1>1, <1>2, SettledStep, SlewInvariant, PTL DEF SlewSpec
<1>. QED
  BY <1>3, Zenon DEF NoHunting
=============================================================================
