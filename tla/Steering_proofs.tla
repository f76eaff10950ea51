---------------------------- MODULE Steering_proofs ----------------------------
(***************************************************************************)
(* The two limiters of lateral.h.                                          *)
(*                                                                         *)
(* Angle, for any limits, angles, measurements and speeds: where a command *)
(* starts from, that one refusal does not cause the next, and that the     *)
(* command is brought to the wheel. Three things are remembered from       *)
(* command to command: the last angle is the one that was sent or the      *)
(* wheel's at the last judgement (StartInv); after a refusal by limits that*)
(* start over at zero it is zero (RefusedInv); and it is no further from   *)
(* the wheel than the commands sent since the wheel stopped leave          *)
(* (FollowInv).                                                            *)
(*                                                                         *)
(* Torque, for any limits, torques, samples and times: types, the limit of *)
(* the rate at which the torque rises, how a fight with the motor ends,    *)
(* how rare cuts of the request bit stay, and how long a ramp takes. The   *)
(* keys are what the limiter remembers, the torque the car follows or zero *)
(* (IInv); the samples that show no motor (Freed); and where the window of *)
(* the real-time limit can have begun (Ramps).                             *)
(***************************************************************************)
EXTENDS MCSteering, TLAPS, WellFoundedInduction

---------------------------------------------------------------------------
(* The angle limiter: the samples of what is measured *)

USE SampleConstants

SamplesOf(S) == [1..MAX_SAMPLE_VALS -> S]

\* Of finitely many integers one is the largest.
LEMMA OneIsLargest ==
  ASSUME NEW s \in [1..MAX_SAMPLE_VALS -> Int]
  PROVE  \E j \in 1..MAX_SAMPLE_VALS : \A i \in 1..MAX_SAMPLE_VALS : s[i] <= s[j]
<1> DEFINE N == MAX_SAMPLE_VALS
           Has(k) == \E j \in 1..N : \A i \in 1..k : s[i] <= s[j]
           T == {k \in 1..N : ~Has(k)}
<1>1. CASE T = {}
  <2>1. N \in 1..N
    OBVIOUS
  <2> QED BY <1>1, <2>1
<1>2. CASE T # {}
  <2>1. T \subseteq Nat
    OBVIOUS
  <2>2. PICK x \in T : \A y \in T : ~(<<y, x>> \in OpToRel(<, Nat))
    BY <1>2, <2>1, NatLessThanWellFounded, WFMin
  <2>3. \A y \in T : ~(y < x)
    BY <2>1, <2>2 DEF OpToRel
  <2>4. x \in 1..N /\ ~Has(x)
    OBVIOUS
  <2>5. CASE x = 1
    <3>1. 1 \in 1..N /\ \A i \in 1..1 : s[i] <= s[1]
      OBVIOUS
    <3> QED BY <2>4, <2>5, <3>1
  <2>6. CASE x # 1
    <3>1. x - 1 \in 1..N /\ x - 1 < x
      BY <2>4, <2>6
    <3>2. Has(x - 1)
      BY <2>3, <3>1
    <3>3. PICK j \in 1..N : \A i \in 1..(x - 1) : s[i] <= s[j]
      BY <3>2
    <3>4. \A i \in 1..x : i \in 1..(x - 1) \/ i = x
      BY <2>4
    <3>5. s[x] \in Int /\ s[j] \in Int /\ \A i \in 1..x : s[i] \in Int
      BY <2>4
    <3>6. CASE s[x] <= s[j]
      <4>1. \A i \in 1..x : s[i] <= s[j]
        BY <3>3, <3>4, <3>6
      <4> QED BY <2>4, <4>1
    <3>7. CASE s[x] > s[j]
      <4>1. \A i \in 1..x : s[i] <= s[x]
        BY <3>3, <3>4, <3>5, <3>7
      <4> QED BY <2>4, <4>1
    <3> QED BY <3>5, <3>6, <3>7
  <2> QED BY <2>5, <2>6
<1> QED BY <1>1, <1>2

\* sample.max and sample.min are values of the sample, and its ends.
LEMMA SampleEnds ==
  ASSUME NEW S, S \subseteq Int, NEW s \in SamplesOf(S)
  PROVE  /\ A!Largest(s) \in S /\ A!Smallest(s) \in S
         /\ A!Largest(s) \in Int /\ A!Smallest(s) \in Int
         /\ \A i \in 1..MAX_SAMPLE_VALS : s[i] <= A!Largest(s) /\ A!Smallest(s) <= s[i]
<1> DEFINE N == MAX_SAMPLE_VALS
           neg == [i \in 1..N |-> -s[i]]
           V == {s[i] : i \in DOMAIN s}
<1>1. DOMAIN s = 1..N /\ \A i \in 1..N : s[i] \in S /\ s[i] \in Int
  BY DEF SamplesOf
<1>2. s \in [1..N -> Int] /\ neg \in [1..N -> Int]
  BY <1>1 DEF SamplesOf
<1>3. \E v \in V : \A i \in DOMAIN s : s[i] <= v
  BY <1>1, <1>2, OneIsLargest
<1>4. PICK j \in 1..N : \A i \in 1..N : neg[i] <= neg[j]
  <2> HIDE DEF neg
  <2> QED BY <1>2, OneIsLargest
<1>5. \A i \in 1..N : s[j] <= s[i]
  BY <1>1, <1>4
<1>6. \E v \in V : \A i \in DOMAIN s : s[i] >= v
  BY <1>1, <1>5
<1>7. A!Largest(s) \in V /\ \A i \in DOMAIN s : s[i] <= A!Largest(s)
  BY <1>3 DEF A!Largest
<1>8. A!Smallest(s) \in V /\ \A i \in DOMAIN s : s[i] >= A!Smallest(s)
  BY <1>6 DEF A!Smallest
<1>9. V \subseteq S
  BY <1>1
<1>10. A!Largest(s) \in S /\ A!Smallest(s) \in S
  BY <1>7, <1>8, <1>9
<1>11. A!Largest(s) \in Int /\ A!Smallest(s) \in Int
  BY <1>10
<1> HIDE DEF V, neg
<1>12. ASSUME NEW i \in 1..N
       PROVE  s[i] <= A!Largest(s) /\ A!Smallest(s) <= s[i]
  <2>1. s[i] <= A!Largest(s) /\ s[i] >= A!Smallest(s) /\ s[i] \in Int
    BY <1>1, <1>7, <1>8
  <2> QED BY <1>11, <2>1
<1> QED BY <1>10, <1>11, <1>12

\* update_sample keeps values of its range.
LEMMA SampleUpdates ==
  ASSUME NEW S, NEW s \in SamplesOf(S), NEW v \in S
  PROVE  A!update_sample(s, v) \in SamplesOf(S) /\ A!update_sample(s, v)[1] = v
  BY DEF SamplesOf, A!update_sample

LEMMA SampleStarts ==
  ASSUME NEW S, NEW v \in S
  PROVE  A!SampleOf(v) \in SamplesOf(S) /\ A!SampleOf(v)[1] = v
  BY DEF SamplesOf, A!SampleOf

\* A sample that is full of one value stays so when it is read once more.
LEMMA SampleRests ==
  ASSUME NEW S, S \subseteq Int, NEW s \in SamplesOf(S),
         A!Smallest(s) = A!Largest(s)
  PROVE  s[1] = A!Largest(s) /\ s[1] \in S /\ s[1] \in Int
<1>1. 1 \in 1..MAX_SAMPLE_VALS
  OBVIOUS
<1>2. s[1] \in S /\ s[1] \in Int
  BY <1>1 DEF SamplesOf
<1>3. /\ A!Largest(s) \in Int
      /\ \A i \in 1..MAX_SAMPLE_VALS : s[i] <= A!Largest(s) /\ A!Smallest(s) <= s[i]
  BY SampleEnds
<1>4. s[1] <= A!Largest(s) /\ A!Smallest(s) <= s[1]
  BY <1>1, <1>3
<1> QED BY <1>2, <1>3, <1>4

---------------------------------------------------------------------------
(* Numbers: what the range of angles allows *)

\* A mode's limits, field by field.
LEMMA AngleLimitFields ==
  ASSUME NEW l \in AngleModes
  PROVE  /\ l.max_angle \in Nat /\ l.max_angle_error \in Nat
         /\ l.angle_error_min_speed \in Int
         /\ l.enforce_angle_error \in BOOLEAN /\ l.inactive_angle_is_zero \in BOOLEAN
         /\ \A v \in Speeds : /\ l.up[v] \in Nat /\ l.down[v] \in Nat
                              /\ l.upRelaxed[v] \in Nat /\ l.downRelaxed[v] \in Nat
<1>1. l \in A!LimitsType
  BY AngleConstantsFit DEF A!AngleConstants
<1> QED BY <1>1 DEF A!LimitsType

\* CLAMP returns a value of its range and brings no two values apart.
LEMMA ClampBounds ==
  ASSUME NEW m \in Nat, NEW x \in Int, NEW y \in Int
  PROVE  /\ A!Clamp(x, -m, m) \in -m..m
         /\ x <= y => A!Clamp(x, -m, m) <= A!Clamp(y, -m, m)
                      /\ A!Clamp(y, -m, m) - A!Clamp(x, -m, m) <= y - x
  BY DEF A!Clamp

\* What is within r of a command, after both were cut to the maximum, is within r of
\* the command that was cut.
LEMMA CutStaysNear ==
  ASSUME NEW m \in Nat, NEW prev \in Int, NEW r \in Nat, NEW lo \in Int, NEW hi \in Int,
         prev - r <= lo, hi <= prev + r,
         NEW val \in A!Clamp(lo, -m, m)..A!Clamp(hi, -m, m)
  PROVE  A!Distance(val, A!Clamp(prev, -m, m)) <= r
  BY DEF A!Clamp, A!Distance, A!Max2

\* A step towards the wheel, one or more and no longer than the allowed error's span,
\* leaves the command within that error or one closer.
LEMMA StepDown ==
  ASSUME NEW m \in Nat, NEW e \in Nat, NEW wheel \in Int, NEW prev \in Int,
         NEW r \in Nat, r > 0, NEW u \in Nat, u <= 2 * e + 3, NEW far \in Int,
         prev > wheel + e + 1,
         A!Distance(prev, A!Clamp(wheel, -m, m)) <= A!Max2(e + 1, far),
         NEW val \in A!Clamp(prev - u, -m, m)..A!Clamp(A!Max2(prev - r, wheel + e + 1), -m, m)
  PROVE  A!Distance(val, A!Clamp(wheel, -m, m)) <= A!Max2(e + 1, far - 1)
  BY DEF A!Clamp, A!Distance, A!Max2

LEMMA StepUp ==
  ASSUME NEW m \in Nat, NEW e \in Nat, NEW wheel \in Int, NEW prev \in Int,
         NEW r \in Nat, r > 0, NEW u \in Nat, u <= 2 * e + 3, NEW far \in Int,
         prev < wheel - e - 1,
         A!Distance(prev, A!Clamp(wheel, -m, m)) <= A!Max2(e + 1, far),
         NEW val \in A!Clamp(A!Min2(prev + r, wheel - e - 1), -m, m)..A!Clamp(prev + u, -m, m)
  PROVE  A!Distance(val, A!Clamp(wheel, -m, m)) <= A!Max2(e + 1, far - 1)
  BY DEF A!Clamp, A!Distance, A!Max2, A!Min2

\* Inside the allowed error the command may not leave it.
LEMMA StepInside ==
  ASSUME NEW m \in Nat, NEW e \in Nat, NEW wheel \in Int, NEW lo \in Int, NEW hi \in Int,
         NEW far \in Int,
         NEW val \in A!Clamp(A!Max2(lo, wheel - e - 1), -m, m)
                     ..A!Clamp(A!Min2(hi, wheel + e + 1), -m, m)
  PROVE  A!Distance(val, A!Clamp(wheel, -m, m)) <= A!Max2(e + 1, far)
  BY DEF A!Clamp, A!Distance, A!Max2, A!Min2

---------------------------------------------------------------------------
(* Types *)

AngleType ==
  /\ aLim \in AngleModes /\ last \in A!Commanded
  /\ meas \in SamplesOf(Measured) /\ speed \in SamplesOf(Speeds)
  /\ aControls \in BOOLEAN /\ aSent \in [angle : Int, active : BOOLEAN]
  /\ at \in Int /\ refused \subseteq Int /\ steady \in 0..FAR

\* What the constants are.
LEMMA AngleConstantFields ==
  /\ Angles \subseteq Int /\ Measured \subseteq Int /\ Speeds \subseteq Int
  /\ 0 \in Speeds /\ 0 \in Measured /\ FAR \in Nat
  BY AngleConstantsFit DEF A!AngleConstants, A!FarConstant

\* Every angle a command or a reset may leave is an integer, no further than FAR from
\* any wheel.
LEMMA CommandedIsNear ==
  ASSUME NEW x \in A!Commanded
  PROVE  /\ x \in Int
         /\ \A v \in Measured, l \in AngleModes :
              A!Distance(x, A!Clamp(v, -l.max_angle, l.max_angle)) <= FAR
<1>1. ASSUME NEW v \in Measured, NEW l \in AngleModes
      PROVE  A!Clamp(v, -l.max_angle, l.max_angle) \in Int
  <2>1. l.max_angle \in Nat
    BY AngleLimitFields
  <2>2. v \in Int
    BY AngleConstantFields
  <2> QED BY <2>1, <2>2 DEF A!Clamp
<1>2. x \in Int
  BY <1>1, AngleConstantFields DEF A!Commanded
<1> QED BY <1>2, AngleConstantsFit DEF A!FarConstant

\* The angle a reset leaves is one of them: the wheel's, cut to the maximum, or zero.
LEMMA ResetIsCommanded ==
  ASSUME AngleType, NEW val
  PROVE  A!ResetAngle(val) \in A!Commanded /\ A!ToMax(meas[1]) \in Int
<1>1. meas[1] \in Measured
  BY DEF AngleType, SamplesOf
<1>2. A!ToMax(meas[1]) \in A!Commanded
  BY <1>1 DEF AngleType, A!ToMax, A!Commanded
<1>3. 0 \in A!Commanded
  BY DEF A!Commanded
<1> QED BY <1>2, <1>3, CommandedIsNear DEF A!ResetAngle

LEMMA AngleInitType == A!MCInit => AngleType
<1> SUFFICES ASSUME A!MCInit PROVE AngleType
  OBVIOUS
<1>1. meas \in SamplesOf(Measured) /\ speed \in SamplesOf(Speeds)
  BY AngleConstantFields, SampleStarts DEF A!MCInit, A!Init
<1>2. 0 \in A!Commanded
  BY DEF A!Commanded
<1>3. steady \in 0..FAR /\ at \in Int /\ refused \subseteq Int
  BY AngleConstantFields DEF A!MCInit
<1>4. aLim \in AngleModes /\ aControls \in BOOLEAN /\ last = 0
  BY DEF A!MCInit, A!Init
<1>5. aSent \in [angle : Int, active : BOOLEAN]
  BY DEF A!MCInit, A!Init
<1> QED BY <1>1, <1>2, <1>3, <1>4, <1>5 DEF AngleType

LEMMA AngleNextType == AngleType /\ A!MCNext => AngleType'
<1> SUFFICES ASSUME AngleType, A!MCNext PROVE AngleType'
  OBVIOUS
<1> USE DEF AngleType
<1>1. ASSUME NEW val \in Angles, NEW enabled \in BOOLEAN, A!Command(val, enabled),
             at' = A!ToMax(meas[1]),
             refused' = IF aControls /\ enabled /\ A!Violation(val, enabled) THEN {val} ELSE {},
             steady' = IF ~A!EnforcesError \/ ~enabled \/ aLim.inactive_angle_is_zero THEN 0
                       ELSE IF A!Violation(val, enabled) THEN steady
                       ELSE A!Min2(steady + 1, FAR)
      PROVE  AngleType'
  <2>1. val \in Int /\ val \in A!Commanded
    BY AngleConstantFields DEF A!Commanded
  <2>2. last' \in A!Commanded
    BY <1>1, <2>1, ResetIsCommanded DEF A!Command
  <2>3. aSent' \in [angle : Int, active : BOOLEAN]
    BY <1>1, <2>1 DEF A!Command
  <2>4. at' \in Int
    BY <1>1, ResetIsCommanded
  <2>5. refused' \subseteq Int
    BY <1>1, <2>1
  <2>6. steady' \in 0..FAR
    BY <1>1, AngleConstantFields DEF A!Min2
  <2>7. A!Commanded' = A!Commanded
    BY DEF A!Commanded
  <2> QED BY <1>1, <2>2, <2>3, <2>4, <2>5, <2>6, <2>7 DEF A!Command
<1>2. ASSUME NEW v \in Measured, A!MeasureAngle(v), steady' \in {steady, 0},
             UNCHANGED <<at, refused>>
      PROVE  AngleType'
  <2>1. meas' \in SamplesOf(Measured)
    BY <1>2, SampleUpdates DEF A!MeasureAngle
  <2>2. steady' \in 0..FAR
    BY <1>2, AngleConstantFields
  <2> QED BY <1>2, <2>1, <2>2 DEF A!MeasureAngle
<1>3. ASSUME NEW v \in Speeds, A!MeasureSpeed(v), steady' \in {steady, 0},
             UNCHANGED <<at, refused>>
      PROVE  AngleType'
  <2>1. speed' \in SamplesOf(Speeds)
    BY <1>3, SampleUpdates DEF A!MeasureSpeed
  <2>2. steady' \in 0..FAR
    BY <1>3, AngleConstantFields
  <2> QED BY <1>3, <2>1, <2>2 DEF A!MeasureSpeed
<1>4. ASSUME NEW l \in AngleModes, A!SetMode(l), at' = 0, refused' = {}, steady' = 0
      PROVE  AngleType'
  <2>1. meas' \in SamplesOf(Measured) /\ speed' \in SamplesOf(Speeds)
    BY <1>4, AngleConstantFields, SampleStarts DEF A!SetMode, A!Start
  <2>2. last' \in A!Commanded
    BY <1>4 DEF A!SetMode, A!Start, A!Commanded
  <2>3. steady' \in 0..FAR /\ at' \in Int /\ refused' \subseteq Int
    BY <1>4, AngleConstantFields
  <2>4. aLim' \in AngleModes /\ aControls' \in BOOLEAN
    BY <1>4 DEF A!SetMode, A!Start
  <2>5. aSent' \in [angle : Int, active : BOOLEAN]
    BY <1>4 DEF A!SetMode
  <2> QED BY <2>1, <2>2, <2>3, <2>4, <2>5
<1>5. ASSUME A!ControlsChange, UNCHANGED <<at, refused, steady>>
      PROVE  AngleType'
  BY <1>5 DEF A!ControlsChange
<1> QED BY <1>1, <1>2, <1>3, <1>4, <1>5 DEF A!MCNext

\* The rates and the ends of the allowed error are numbers; at rest the error is
\* allowed around the one angle measured.
LEMMA RangeType ==
  ASSUME AngleType
  PROVE  /\ A!Up \in Nat /\ A!Down \in Nat /\ A!UpRelaxed \in Nat /\ A!DownRelaxed \in Nat
         /\ A!HighestError \in Int /\ A!LowestError \in Int
         /\ last \in Int /\ aLim.max_angle \in Nat /\ aLim.max_angle_error \in Nat
<1>1. A!Smallest(speed) \in Speeds /\ A!Largest(speed) \in Speeds
  BY SampleEnds, AngleConstantFields DEF AngleType
<1>2. A!Smallest(meas) \in Int /\ A!Largest(meas) \in Int
  BY SampleEnds, AngleConstantFields DEF AngleType
<1>3. A!Up \in Nat /\ A!Down \in Nat /\ A!UpRelaxed \in Nat /\ A!DownRelaxed \in Nat
  BY <1>1, AngleLimitFields DEF AngleType, A!Up, A!Down, A!UpRelaxed, A!DownRelaxed
<1>4. aLim.max_angle \in Nat /\ aLim.max_angle_error \in Nat
  BY AngleLimitFields DEF AngleType
<1>5. last \in Int
  BY CommandedIsNear DEF AngleType
<1> QED BY <1>2, <1>3, <1>4, <1>5 DEF A!HighestError, A!LowestError

\* A command of the range is within the rate limit of the last angle, or of that angle
\* cut to the maximum.
LEMMA RangeIsNear ==
  ASSUME AngleType, NEW val \in Int, val \in A!AngleRange
  PROVE  A!Near(val, last)
<1> DEFINE r == A!RateLimit
<1>1. /\ A!Up \in Nat /\ A!Down \in Nat /\ A!UpRelaxed \in Nat /\ A!DownRelaxed \in Nat
      /\ A!HighestError \in Int /\ A!LowestError \in Int
      /\ last \in Int /\ aLim.max_angle \in Nat
  BY RangeType
<1>2. r \in Nat /\ A!Up <= r /\ A!Down <= r
  BY <1>1 DEF A!RateLimit, A!Max2
<1>3. /\ A!Lowest \in Int /\ last - r <= A!Lowest
      /\ A!Highest \in Int /\ A!Highest <= last + r
  BY <1>1, <1>2 DEF A!Lowest, A!Highest
<1> HIDE DEF r
<1>4. CASE ~A!EnforcesError
  <2>1. val \in A!Lowest..A!Highest
    BY <1>4 DEF A!AngleRange
  <2>2. A!Distance(val, last) <= r
    BY <1>1, <1>2, <1>3, <2>1 DEF A!Distance, A!Max2
  <2> QED BY <2>2 DEF r, A!Near
<1>5. CASE A!EnforcesError
  <2>1. val \in A!ToMax(A!LowestWithin)..A!ToMax(A!HighestWithin)
    BY <1>5 DEF A!AngleRange
  <2>2. A!LowestWithin \in Int /\ last - r <= A!LowestWithin
    BY <1>1, <1>2, <1>3 DEF A!LowestWithin, A!Min2, A!Max2
  <2>3. A!HighestWithin \in Int /\ A!HighestWithin <= last + r
    BY <1>1, <1>2, <1>3 DEF A!HighestWithin, A!Min2, A!Max2
  <2>4. A!Distance(val, A!ToMax(last)) <= r
    BY <1>1, <1>2, <2>1, <2>2, <2>3, CutStaysNear DEF A!ToMax
  <2> QED BY <2>4 DEF r, A!Near
<1> QED BY <1>4, <1>5

---------------------------------------------------------------------------
(* The invariants *)

StartInv   == ~aLim.inactive_angle_is_zero => last \in {aSent.angle, at}
RefusedInv == aLim.inactive_angle_is_zero /\ refused # {} => last = 0

Wheel == A!ToMax(meas[1])
FollowInv ==
  /\ ~A!EnforcesError => steady = 0
  /\ A!Returns(aLim) /\ A!Smallest(meas) = A!Largest(meas) =>
       A!Distance(last, Wheel) <= A!Max2(aLim.max_angle_error + 1, FAR - steady)

AngleInv == AngleType /\ StartInv /\ RefusedInv /\ FollowInv

LEMMA InitStarts == A!MCInit => StartInv /\ RefusedInv
  BY DEF A!MCInit, A!Init, StartInv, RefusedInv

LEMMA NextStarts == AngleType /\ StartInv /\ RefusedInv /\ A!MCNext => StartInv' /\ RefusedInv'
<1> SUFFICES ASSUME AngleType, StartInv, RefusedInv, A!MCNext
             PROVE  StartInv' /\ RefusedInv'
  OBVIOUS
<1>1. ASSUME NEW val \in Angles, NEW enabled \in BOOLEAN, A!Command(val, enabled),
             at' = A!ToMax(meas[1]),
             refused' = IF aControls /\ enabled /\ A!Violation(val, enabled) THEN {val} ELSE {}
      PROVE  StartInv' /\ RefusedInv'
  <2>1. CASE A!Violation(val, enabled) \/ ~aControls
    <3>1. last' = A!ResetAngle(val) /\ aLim' = aLim
      BY <1>1, <2>1 DEF A!Command
    <3>2. last' = IF aLim.inactive_angle_is_zero THEN 0 ELSE at'
      BY <1>1, <3>1 DEF A!ResetAngle
    <3> QED BY <3>1, <3>2 DEF StartInv, RefusedInv
  <2>2. CASE ~(A!Violation(val, enabled) \/ ~aControls)
    <3>1. last' = val /\ aSent' = [angle |-> val, active |-> enabled]
      BY <1>1, <2>2 DEF A!Command
    <3>2. aSent'.angle = val
      BY <3>1
    <3>3. refused' = {}
      BY <1>1, <2>2
    <3> QED BY <3>1, <3>2, <3>3 DEF StartInv, RefusedInv
  <2> QED BY <2>1, <2>2
<1>2. ASSUME NEW v \in Measured, A!MeasureAngle(v), UNCHANGED <<at, refused>>
      PROVE  StartInv' /\ RefusedInv'
  BY <1>2 DEF A!MeasureAngle, StartInv, RefusedInv
<1>3. ASSUME NEW v \in Speeds, A!MeasureSpeed(v), UNCHANGED <<at, refused>>
      PROVE  StartInv' /\ RefusedInv'
  BY <1>3 DEF A!MeasureSpeed, StartInv, RefusedInv
<1>4. ASSUME NEW l \in AngleModes, A!SetMode(l), at' = 0, refused' = {}
      PROVE  StartInv' /\ RefusedInv'
  BY <1>4 DEF A!SetMode, A!Start, StartInv, RefusedInv
<1>5. ASSUME A!ControlsChange, UNCHANGED <<at, refused, steady>>
      PROVE  StartInv' /\ RefusedInv'
  BY <1>5 DEF A!ControlsChange, StartInv, RefusedInv
<1> QED BY <1>1, <1>2, <1>3, <1>4, <1>5 DEF A!MCNext

---------------------------------------------------------------------------
(* The command is brought to the wheel *)

\* Whatever the command and the wheel are, they are no further apart than FAR.
LEMMA NeverFurther ==
  ASSUME NEW x \in A!Commanded, NEW v \in Measured, NEW l \in AngleModes
  PROVE  A!Distance(x, A!Clamp(v, -l.max_angle, l.max_angle))
           <= A!Max2(l.max_angle_error + 1, FAR - 0)
<1> DEFINE d == A!Distance(x, A!Clamp(v, -l.max_angle, l.max_angle))
<1>1. d <= FAR
  BY CommandedIsNear
<1>2. l.max_angle \in Nat /\ l.max_angle_error \in Nat /\ FAR \in Nat
  BY AngleLimitFields, AngleConstantFields
<1>3. x \in Int /\ v \in Int
  BY CommandedIsNear, AngleConstantFields
<1>4. d \in Int
  BY <1>2, <1>3 DEF A!Distance, A!Max2, A!Clamp
<1> HIDE DEF d
<1>5. d <= A!Max2(l.max_angle_error + 1, FAR - 0)
  BY <1>1, <1>2, <1>4 DEF A!Max2
<1> QED BY <1>5 DEF d

\* One command of the range brings the angle within the allowed error, or one closer.
LEMMA RangeReturns ==
  ASSUME AngleType, FollowInv, NEW val \in Int, val \in A!AngleRange,
         A!EnforcesError, A!Returns(aLim), A!Smallest(meas) = A!Largest(meas)
  PROVE  A!Distance(val, Wheel)
           <= A!Max2(aLim.max_angle_error + 1, FAR - A!Min2(steady + 1, FAR))
<1> DEFINE m == aLim.max_angle
           e == aLim.max_angle_error
           w == meas[1]
           far == FAR - steady
<1>1. /\ A!Up \in Nat /\ A!Down \in Nat /\ A!UpRelaxed \in Nat /\ A!DownRelaxed \in Nat
      /\ last \in Int /\ m \in Nat /\ e \in Nat
  BY RangeType
<1>2. w = A!Largest(meas) /\ w = A!Smallest(meas) /\ w \in Int
  <2>1. meas \in SamplesOf(Measured) /\ Measured \subseteq Int
    BY AngleConstantFields DEF AngleType
  <2> QED BY <2>1, SampleRests
<1>3. A!HighestError = w + e + 1 /\ A!LowestError = w - e - 1
  BY <1>2 DEF A!HighestError, A!LowestError
<1>4. A!UpRelaxed > 0 /\ A!DownRelaxed > 0 /\ A!Up <= 2 * e + 3 /\ A!Down <= 2 * e + 3
  <2>1. A!Smallest(speed) \in Speeds /\ A!Largest(speed) \in Speeds
    BY SampleEnds, AngleConstantFields DEF AngleType
  <2> QED BY <2>1 DEF A!Returns, A!UpRelaxed, A!DownRelaxed, A!Up, A!Down
<1>5. val \in A!ToMax(A!LowestWithin)..A!ToMax(A!HighestWithin)
  BY DEF A!AngleRange
<1>6. A!Distance(last, A!Clamp(w, -m, m)) <= A!Max2(e + 1, far)
  BY DEF FollowInv, Wheel, A!ToMax
<1>7. steady \in 0..FAR /\ FAR \in Nat /\ far \in Nat
  BY AngleConstantFields DEF AngleType
<1>8. A!Distance(val, A!Clamp(w, -m, m)) <= A!Max2(e + 1, far - 1)
  <2>1. CASE last > w + e + 1
    <3> DEFINE r == IF last >= 0 THEN A!DownRelaxed ELSE A!UpRelaxed
               u == IF last >= 0 THEN A!Down ELSE A!Up
    <3>1. r \in Nat /\ r > 0 /\ u \in Nat /\ u <= 2 * e + 3
      BY <1>1, <1>4
    <3>2. A!HighestWithin = A!Max2(last - r, w + e + 1) /\ A!LowestWithin = last - u
      BY <1>3, <2>1 DEF A!HighestWithin, A!LowestWithin, A!Lowest
    <3> HIDE DEF r, u, m, e, w, far
    <3>3. val \in A!Clamp(last - u, -m, m)..A!Clamp(A!Max2(last - r, w + e + 1), -m, m)
      BY <1>5, <3>2 DEF A!ToMax, m
    <3>4. /\ m \in Nat /\ e \in Nat /\ w \in Int /\ last \in Int /\ far \in Int
          /\ last > w + e + 1
      BY <1>1, <1>2, <1>7, <2>1
    <3> QED BY <1>6, <3>1, <3>3, <3>4, StepDown
  <2>2. CASE last < w - e - 1
    <3> DEFINE r == IF last <= 0 THEN A!DownRelaxed ELSE A!UpRelaxed
               u == IF last > 0 THEN A!Up ELSE A!Down
    <3>1. r \in Nat /\ r > 0 /\ u \in Nat /\ u <= 2 * e + 3
      BY <1>1, <1>4
    <3>2. ~(last > w + e + 1)
      BY <1>1, <1>2, <2>2
    <3>3. A!LowestWithin = A!Min2(last + r, w - e - 1) /\ A!HighestWithin = last + u
      BY <1>3, <2>2, <3>2 DEF A!HighestWithin, A!LowestWithin, A!Highest
    <3> HIDE DEF r, u, m, e, w, far
    <3>4. val \in A!Clamp(A!Min2(last + r, w - e - 1), -m, m)..A!Clamp(last + u, -m, m)
      BY <1>5, <3>3 DEF A!ToMax, m
    <3>5. /\ m \in Nat /\ e \in Nat /\ w \in Int /\ last \in Int /\ far \in Int
          /\ last < w - e - 1
      BY <1>1, <1>2, <1>7, <2>2
    <3> QED BY <1>6, <3>1, <3>4, <3>5, StepUp
  <2>3. CASE ~(last > w + e + 1) /\ ~(last < w - e - 1)
    <3>1. /\ A!LowestWithin = A!Max2(A!Lowest, w - e - 1)
          /\ A!HighestWithin = A!Min2(A!Highest, w + e + 1)
      BY <1>3, <2>3 DEF A!HighestWithin, A!LowestWithin
    <3>2. A!Lowest \in Int /\ A!Highest \in Int
      BY <1>1 DEF A!Lowest, A!Highest
    <3> HIDE DEF m, e, w, far
    <3>3. val \in A!Clamp(A!Max2(A!Lowest, w - e - 1), -m, m)
                  ..A!Clamp(A!Min2(A!Highest, w + e + 1), -m, m)
      BY <1>5, <3>1 DEF A!ToMax, m
    <3>4. far - 1 \in Int
      BY <1>7
    <3> QED BY <1>1, <1>2, <3>2, <3>3, <3>4, StepInside
  <2> QED BY <2>1, <2>2, <2>3
<1> DEFINE d == A!Distance(val, A!Clamp(w, -m, m))
<1>9. d \in Int
  BY <1>1, <1>2 DEF A!Distance, A!Max2, A!Clamp
<1>10. d <= A!Max2(e + 1, far - 1)
  BY <1>8
<1> HIDE DEF d, m, e, w
<1>11. d <= A!Max2(e + 1, FAR - A!Min2(steady + 1, FAR))
  BY <1>1, <1>7, <1>9, <1>10 DEF A!Max2, A!Min2
<1> QED BY <1>11 DEF d, m, e, w, Wheel, A!ToMax

LEMMA InitFollows == AngleType /\ A!MCInit => FollowInv
<1> SUFFICES ASSUME AngleType, A!MCInit PROVE FollowInv
  OBVIOUS
<1>1. steady = 0
  BY DEF A!MCInit
<1>2. meas[1] \in Measured
  BY DEF AngleType, SamplesOf
<1>3. A!Distance(last, Wheel) <= A!Max2(aLim.max_angle_error + 1, FAR - 0)
  BY <1>2, NeverFurther DEF AngleType, Wheel, A!ToMax
<1> QED BY <1>1, <1>3 DEF FollowInv

\* With steady at 0 the invariant says no more than that.
LEMMA FollowsFromZero ==
  ASSUME AngleType', steady' = 0
  PROVE  FollowInv'
<1>1. /\ last' \in A!Commanded' /\ aLim' \in AngleModes
      /\ meas' \in SamplesOf(Measured)
  BY DEF AngleType, SamplesOf
<1>2. A!Commanded' = A!Commanded
  BY DEF A!Commanded
<1>3. meas'[1] \in Measured
  BY <1>1 DEF SamplesOf
<1>4. A!Distance(last', Wheel') <= A!Max2(aLim'.max_angle_error + 1, FAR - 0)
  BY <1>1, <1>2, <1>3, NeverFurther DEF Wheel, A!ToMax
<1>5. A!Distance(last', Wheel') <= A!Max2(aLim'.max_angle_error + 1, FAR - steady')
  BY <1>4
<1> QED BY <1>5 DEF FollowInv, A!Distance, A!Max2

\* A command, refused or not, keeps the angle on its way to the wheel.
LEMMA CommandFollows ==
  ASSUME AngleType, AngleType', FollowInv, NEW val \in Angles, NEW enabled \in BOOLEAN,
         A!Command(val, enabled),
         steady' = IF ~A!EnforcesError \/ ~enabled \/ aLim.inactive_angle_is_zero THEN 0
                   ELSE IF A!Violation(val, enabled) THEN steady
                   ELSE A!Min2(steady + 1, FAR)
  PROVE  FollowInv'
<1>1. CASE steady' = 0
  BY <1>1, FollowsFromZero
<1>2. CASE steady' # 0
  <2>1. A!EnforcesError /\ enabled /\ ~aLim.inactive_angle_is_zero
    BY <1>2
  <2>2. UNCHANGED <<aLim, meas, speed>> /\ Wheel' = Wheel
    BY DEF A!Command, Wheel, A!ToMax, A!Clamp
  <2>3. A!Returns(aLim') = A!Returns(aLim)
    BY <2>2
  <2>4. A!EnforcesError'
    BY <2>1, <2>2 DEF A!EnforcesError
  <2> SUFFICES ASSUME A!Returns(aLim), A!Smallest(meas) = A!Largest(meas)
               PROVE  A!Distance(last', Wheel)
                        <= A!Max2(aLim.max_angle_error + 1, FAR - steady')
    BY <2>2, <2>3, <2>4 DEF FollowInv
  <2>5. CASE A!Violation(val, enabled)
    <3>1. last' = Wheel
      BY <2>1, <2>5 DEF A!Command, A!ResetAngle, Wheel
    <3>2. Wheel \in Int
      BY ResetIsCommanded DEF Wheel
    <3>3. A!Distance(last', Wheel) = 0
      BY <3>1, <3>2 DEF A!Distance, A!Max2
    <3>4. aLim.max_angle_error \in Nat /\ FAR \in Nat /\ steady' \in 0..FAR
      BY RangeType, AngleConstantFields DEF AngleType
    <3> QED BY <3>3, <3>4 DEF A!Max2
  <2>6. CASE ~A!Violation(val, enabled)
    <3>1. aControls /\ val \in A!AngleRange
      BY <2>1, <2>6 DEF A!Violation
    <3>2. last' = val /\ steady' = A!Min2(steady + 1, FAR)
      BY <2>1, <2>6, <3>1 DEF A!Command
    <3>3. val \in Int
      BY AngleConstantFields
    <3>4. A!Distance(val, Wheel)
            <= A!Max2(aLim.max_angle_error + 1, FAR - A!Min2(steady + 1, FAR))
      BY <2>1, <3>1, <3>3, RangeReturns
    <3> QED BY <3>2, <3>4
  <2> QED BY <2>5, <2>6
<1> QED BY <1>1, <1>2

LEMMA NextFollows == AngleType /\ AngleType' /\ FollowInv /\ A!MCNext => FollowInv'
<1> SUFFICES ASSUME AngleType, AngleType', FollowInv, A!MCNext PROVE FollowInv'
  OBVIOUS
<1>0. CASE steady' = 0
  BY <1>0, FollowsFromZero
<1>1. ASSUME NEW val \in Angles, NEW enabled \in BOOLEAN, A!Command(val, enabled),
             steady' = IF ~A!EnforcesError \/ ~enabled \/ aLim.inactive_angle_is_zero THEN 0
                       ELSE IF A!Violation(val, enabled) THEN steady
                       ELSE A!Min2(steady + 1, FAR)
      PROVE  FollowInv'
  BY <1>1, CommandFollows
<1>2. ASSUME NEW v \in Measured, A!MeasureAngle(v), steady' # 0,
             steady' = IF v = meas[1] /\ v = A!Smallest(meas) /\ v = A!Largest(meas)
                       THEN steady ELSE 0
      PROVE  FollowInv'
  <2>1. v = meas[1] /\ A!Smallest(meas) = A!Largest(meas) /\ steady' = steady
    BY <1>2
  <2>2. meas' = A!update_sample(meas, v) /\ UNCHANGED <<aLim, last, speed>>
    BY <1>2 DEF A!MeasureAngle
  <2>3. meas'[1] = meas[1]
    BY <2>1, <2>2, SampleUpdates DEF AngleType
  <2>4. Wheel' = Wheel
    BY <2>2, <2>3 DEF Wheel, A!ToMax, A!Clamp
  <2>5. A!EnforcesError' = A!EnforcesError
    BY <2>2 DEF A!EnforcesError
  <2>6. A!Returns(aLim') = A!Returns(aLim)
    BY <2>2
  <2>7. A!EnforcesError
    BY <1>2, <2>1 DEF FollowInv
  <2>8. A!Returns(aLim') =>
          A!Distance(last', Wheel') <= A!Max2(aLim'.max_angle_error + 1, FAR - steady')
    BY <2>1, <2>2, <2>4, <2>6 DEF FollowInv
  <2> QED BY <2>5, <2>7, <2>8 DEF FollowInv
<1>3. ASSUME NEW v \in Speeds, A!MeasureSpeed(v), steady' # 0,
             steady' = IF v <= aLim.angle_error_min_speed THEN 0 ELSE steady
      PROVE  FollowInv'
  <2>1. ~(v <= aLim.angle_error_min_speed) /\ steady' = steady
    BY <1>3
  <2>2. speed' = A!update_sample(speed, v) /\ UNCHANGED <<aLim, last, meas>>
    BY <1>3 DEF A!MeasureSpeed
  <2>3. speed'[1] = v
    BY <2>2, SampleUpdates DEF AngleType
  <2>4. v \in Int /\ aLim.angle_error_min_speed \in Int
    BY AngleConstantFields, AngleLimitFields DEF AngleType
  <2>5. v > aLim.angle_error_min_speed
    BY <2>1, <2>4
  <2>6. A!EnforcesError
    BY <1>3, <2>1 DEF FollowInv
  <2>7. A!EnforcesError'
    BY <2>2, <2>3, <2>5, <2>6 DEF A!EnforcesError
  <2>8. Wheel' = Wheel
    BY <2>2 DEF Wheel, A!ToMax, A!Clamp
  <2>9. A!Returns(aLim') = A!Returns(aLim)
    BY <2>2
  <2> QED BY <2>1, <2>2, <2>7, <2>8, <2>9 DEF FollowInv
<1>4. ASSUME NEW l \in AngleModes, A!SetMode(l), steady' = 0
      PROVE  FollowInv'
  BY <1>4, FollowsFromZero
<1>5. ASSUME A!ControlsChange, UNCHANGED <<at, refused, steady>>
      PROVE  FollowInv'
  <2>1. UNCHANGED <<aLim, last, meas, speed, steady>>
    BY <1>5 DEF A!ControlsChange
  <2>2. Wheel' = Wheel /\ A!EnforcesError' = A!EnforcesError
    BY <2>1 DEF Wheel, A!ToMax, A!Clamp, A!EnforcesError
  <2>3. A!Returns(aLim') = A!Returns(aLim)
    BY <2>1
  <2> QED BY <2>1, <2>2, <2>3 DEF FollowInv
<1> QED BY <1>0, <1>1, <1>2, <1>3, <1>4, <1>5 DEF A!MCNext

---------------------------------------------------------------------------
(* The theorems *)

LEMMA AngleRests == AngleInv /\ UNCHANGED avars => AngleInv'
<1> SUFFICES ASSUME AngleInv, UNCHANGED avars PROVE AngleInv'
  OBVIOUS
<1>1. UNCHANGED <<aLim, last, meas, speed, aControls, aSent, at, refused, steady>>
  BY DEF avars
<1>2. A!Commanded' = A!Commanded
  BY DEF A!Commanded
<1>3. AngleType' /\ StartInv' /\ RefusedInv'
  BY <1>1, <1>2 DEF AngleInv, AngleType, StartInv, RefusedInv
<1>4. Wheel' = Wheel /\ A!EnforcesError' = A!EnforcesError
  BY <1>1 DEF Wheel, A!ToMax, A!Clamp, A!EnforcesError
<1>5. A!Returns(aLim') = A!Returns(aLim)
  BY <1>1
<1>6. FollowInv'
  BY <1>1, <1>4, <1>5 DEF AngleInv, FollowInv
<1> QED BY <1>3, <1>6 DEF AngleInv

LEMMA AngleInvariant == SteeringSpec => []AngleInv
<1>1. SteeringInit => AngleInv
  BY AngleInitType, InitStarts, InitFollows DEF SteeringInit, AngleInv
<1>2. AngleInv /\ [SteeringNext]_steering => AngleInv'
  <2>1. AngleInv /\ A!MCNext => AngleInv'
    BY AngleNextType, NextStarts, NextFollows DEF AngleInv
  <2>2. [SteeringNext]_steering => A!MCNext \/ UNCHANGED avars
    BY DEF SteeringNext, steering
  <2> QED BY <2>1, <2>2, AngleRests
<1> QED BY <1>1, <1>2, PTL DEF SteeringSpec

\* With the angle error enforced (lateral.h:206) the command is brought to within the
\* allowed error of a wheel that stays where it is: by one step at least with every
\* command that is sent, whatever the limits, provided their relaxed rates are not
\* zero and a step is not longer than the allowed error's span.
THEOREM CommandFollowsWheel == SteeringSpec => []AngleFollowsWheel
<1>1. AngleInv => AngleFollowsWheel
  BY DEF AngleInv, FollowInv, Wheel, AngleFollowsWheel, A!AngleFollowsWheel
<1> QED BY <1>1, AngleInvariant, PTL

\* A command that steers starts from the last one or from where the wheel was when that
\* one was judged, across refusals, changes of controls and of the mode: the reset of
\* lateral.h:269 never lets the wheel be turned further than a rate limit from both.
THEOREM SteeringStartsAtWheel == SteeringSpec => SteersFromWhereItIs
<1> DEFINE N == ~aLim'.inactive_angle_is_zero => A!NearWheel
<1>1. AngleInv /\ [SteeringNext]_steering => N
  <2> SUFFICES ASSUME AngleInv, [SteeringNext]_steering,
                      ~aLim'.inactive_angle_is_zero, aSent' # aSent, aSent'.active
               PROVE  A!Near(aSent'.angle, aSent.angle) \/ A!Near(aSent'.angle, at)
    BY DEF A!NearWheel
  <2>1. AngleType /\ StartInv
    BY DEF AngleInv
  <2>2. A!MCNext
    BY DEF SteeringNext, steering, avars
  <2>3. PICK val \in Angles, enabled \in BOOLEAN : A!Command(val, enabled)
    BY <2>2 DEF A!MCNext, A!MeasureAngle, A!MeasureSpeed, A!SetMode, A!ControlsChange
  <2>4. ~A!Violation(val, enabled) /\ aSent' = [angle |-> val, active |-> enabled]
    BY <2>3 DEF A!Command
  <2>5. aSent'.angle = val /\ enabled
    BY <2>4
  <2>6. val \in A!AngleRange
    BY <2>4, <2>5 DEF A!Violation
  <2>7. val \in Int
    BY AngleConstantFields
  <2>8. A!Near(val, last)
    BY <2>1, <2>6, <2>7, RangeIsNear
  <2>9. last = aSent.angle \/ last = at
    BY <2>1, <2>3 DEF StartInv, A!Command
  <2> QED BY <2>5, <2>8, <2>9
<1>2. N => [ N ]_A!mcvars
  OBVIOUS
<1>3. AngleInv /\ [SteeringNext]_steering => [ N ]_A!mcvars
  BY <1>1, <1>2
<1> QED BY <1>3, AngleInvariant, PTL DEF SteeringSpec, SteersFromWhereItIs, A!SteersFromWhereItIs

\* With limits that start over at zero, and the error not enforced, a command that was
\* refused and is no further from zero than the rate limit goes out when the host
\* repeats it: one refusal does not become a burst (byd.h:127).
THEOREM RefusalEnds == SteeringSpec => RefusalDoesNotStick
<1> DEFINE N == \A val \in refused :
                  (/\ aLim.inactive_angle_is_zero /\ ~A!EnforcesError /\ aControls
                   /\ A!Distance(val, 0) <= A!Down
                   /\ A!Command(val, TRUE))
                  => aSent' = [angle |-> val, active |-> TRUE]
<1>1. AngleInv => N
  <2> SUFFICES ASSUME AngleInv, NEW val \in refused,
                      aLim.inactive_angle_is_zero, ~A!EnforcesError, aControls,
                      A!Distance(val, 0) <= A!Down, A!Command(val, TRUE)
               PROVE  aSent' = [angle |-> val, active |-> TRUE]
    OBVIOUS
  <2>1. AngleType /\ RefusedInv
    BY DEF AngleInv
  <2>2. last = 0 /\ val \in Int
    BY <2>1 DEF RefusedInv, AngleType
  <2>3. A!Down \in Nat
    BY <2>1, RangeType
  <2>4. A!Lowest = -A!Down /\ A!Highest = A!Down
    BY <2>2, <2>3 DEF A!Lowest, A!Highest
  <2>5. val \in A!Lowest..A!Highest
    BY <2>2, <2>3, <2>4 DEF A!Distance, A!Max2
  <2>6. ~A!Violation(val, TRUE)
    BY <2>5 DEF A!Violation, A!AngleRange
  <2> QED BY <2>6 DEF A!Command
<1>2. N => [ N ]_A!mcvars
  OBVIOUS
<1>3. AngleInv /\ [SteeringNext]_steering => [ N ]_A!mcvars
  BY <1>1, <1>2
<1> QED BY <1>3, AngleInvariant, PTL DEF SteeringSpec, RefusalDoesNotStick, A!RefusalDoesNotStick

---------------------------------------------------------------------------
(* The torque limiter *)

Limiter ==
  [last : -lim.max_torque..lim.max_torque, rtLast : -lim.max_torque..lim.max_torque,
   rtAge : 0..RT_AGE_CAP, cutAge : 0..lim.min_valid_request_rt_interval,
   validReq : 0..lim.min_valid_request_frames,
   invalidReq : 0..lim.max_invalid_request_frames, sample : Sample]

Remembers == t.last = sent \/ t.last = 0
IInv == TypeOK /\ Remembers

USE TorqueConstants

\* The limits a mode may have, field by field: a reader of lateral.h finds them in
\* TorqueSteeringLimits.
LEMMA LimitFields ==
  ASSUME NEW l \in Limits
  PROVE  /\ l.max_torque \in Nat /\ l.max_rate_up \in Nat
         /\ l.min_valid_request_frames \in Nat /\ l.max_invalid_request_frames \in Nat
         /\ l.min_valid_request_rt_interval \in Nat
  BY DEF LimitsType

\* update_sample keeps MAX_SAMPLE_VALS integers.
LEMMA SampleType ==
  ASSUME NEW s \in Sample, NEW v \in Int
  PROVE  update_sample(s, v) \in Sample
  BY DEF Sample, update_sample

LEMMA ZeroIsSample == SampleOf(0) \in Sample
  BY DEF Sample, SampleOf

\* A limiter that was just reset, by a mode or by a refused command.
LEMMA ResetType ==
  ASSUME NEW l \in Limits, NEW a \in 0..RT_AGE_CAP,
         NEW c \in 0..l.min_valid_request_rt_interval
  PROVE  NoCommandYet(a, c) \in
           [last : -l.max_torque..l.max_torque, rtLast : -l.max_torque..l.max_torque,
            rtAge : 0..RT_AGE_CAP, cutAge : 0..l.min_valid_request_rt_interval,
            validReq : 0..l.min_valid_request_frames,
            invalidReq : 0..l.max_invalid_request_frames, sample : Sample]
  BY LimitFields, ZeroIsSample DEF NoCommandYet

\* Init establishes the invariant.
LEMMA InitInv == Init => IInv
  <1> SUFFICES ASSUME Init PROVE IInv
    OBVIOUS
  <1>1. PICK a \in 0..RT_AGE_CAP, c \in 0..lim.min_valid_request_rt_interval :
          t = NoCommandYet(a, c)
    BY DEF Init
  <1>2. lim \in Limits /\ controls = FALSE /\ sent = 0
    BY DEF Init
  <1>3. TypeOK
    <2>1. t \in Limiter
      BY <1>1, <1>2, ResetType, Zenon DEF Limiter
    <2>2. sent \in Int
      BY <1>2
    <2>3. controls \in BOOLEAN
      BY <1>2, Zenon
    <2> QED BY <1>2, <2>1, <2>2, <2>3, Zenon DEF TypeOK, Limiter
  <1>4. Remembers
    BY <1>1 DEF Remembers, NoCommandYet
  <1> QED BY <1>3, <1>4 DEF IInv

\* Each part of steer_torque_cmd_checks keeps the limiter's type.
LEMMA RtUpdateType ==
  ASSUME lim \in Limits, NEW s \in Limiter, NEW val \in -lim.max_torque..lim.max_torque
  PROVE  RtUpdate(s, val) \in Limiter /\ RtUpdate(s, val).last = s.last
  <1>1. 0 \in 0..RT_AGE_CAP
    BY DEF RT_AGE_CAP
  <1>2. [s EXCEPT !.rtLast = val, !.rtAge = 0] \in Limiter
    BY <1>1 DEF Limiter
  <1>3. [s EXCEPT !.rtLast = val, !.rtAge = 0].last = s.last
    BY DEF Limiter
  <1> QED BY <1>2, <1>3, Zenon DEF RtUpdate

LEMMA CountType ==
  ASSUME lim \in Limits, NEW s \in Limiter, NEW cut \in BOOLEAN
  PROVE  CountRequests(s, cut) \in Limiter /\ CountRequests(s, cut).last = s.last
  <1> DEFINE v == Min2(s.validReq + 1, lim.min_valid_request_frames)
             i == Min2(s.invalidReq + 1, lim.max_invalid_request_frames)
  <1>1. v \in 0..lim.min_valid_request_frames /\ i \in 0..lim.max_invalid_request_frames
    BY LimitFields DEF Limiter, Min2
  <1>2. 0 \in 0..lim.min_valid_request_rt_interval /\ 0 \in 0..lim.min_valid_request_frames
        /\ 0 \in 0..lim.max_invalid_request_frames
    BY LimitFields
  <1>3. CountRequests(s, cut) =
          IF ~lim.has_steer_req_tolerance THEN s
          ELSE IF cut THEN [s EXCEPT !.validReq = 0, !.cutAge = 0, !.invalidReq = i]
                      ELSE [s EXCEPT !.invalidReq = 0, !.validReq = v]
    BY DEF CountRequests, Limiter
  <1> HIDE DEF v, i
  <1> DEFINE a == [s EXCEPT !.validReq = 0, !.cutAge = 0, !.invalidReq = i]
             b == [s EXCEPT !.invalidReq = 0, !.validReq = v]
  <1>4. a \in Limiter /\ a.last = s.last
    BY <1>1, <1>2 DEF Limiter
  <1>5. b \in Limiter /\ b.last = s.last
    BY <1>1, <1>2 DEF Limiter
  <1>6. CountRequests(s, cut) \in {s, a, b}
    BY <1>3, Zenon
  <1> HIDE DEF a, b
  <1> QED BY <1>4, <1>5, <1>6

LEMMA StartOverType ==
  ASSUME lim \in Limits, NEW s \in Limiter
  PROVE  StartOver(s) \in Limiter /\ StartOver(s).last = 0
  <1>1. /\ 0 \in 0..RT_AGE_CAP /\ 0 \in 0..lim.min_valid_request_rt_interval
        /\ 0 \in 0..lim.min_valid_request_frames /\ 0 \in 0..lim.max_invalid_request_frames
        /\ 0 \in -lim.max_torque..lim.max_torque
    BY LimitFields DEF RT_AGE_CAP
  <1> QED BY <1>1 DEF StartOver, Limiter

\* A command that is refused, or comes without controls, makes the limiter start over.
LEMMA CommandResets ==
  ASSUME NEW val \in Torques, NEW req \in BOOLEAN, t \in Limiter,
         Command(val, req), Violation(val, req) \/ ~controls
  PROVE  t'.last = 0 /\ t' = StartOver(t)
  <1> DEFINE s1 == IF controls THEN RtUpdate([t EXCEPT !.last = val], val) ELSE t
             s2 == CountRequests(s1, Cut(val, req))
  <1>1. t' = StartOver(s2)
    BY DEF Command, steer_torque_cmd_checks
  <1> QED BY <1>1 DEF StartOver, CountRequests, RtUpdate, Limiter

\* One that is sent is remembered, and what else it leaves behind it leaves in two steps.
LEMMA CommandSends ==
  ASSUME NEW val \in Torques, NEW req \in BOOLEAN, lim \in Limits, t \in Limiter,
         Command(val, req), ~Violation(val, req), controls
  PROVE  /\ val \in Int /\ val \in -lim.max_torque..lim.max_torque
         /\ sent' = val /\ t' \in Limiter /\ t'.last = val
         /\ t' = CountRequests(RtUpdate([t EXCEPT !.last = val], val), Cut(val, req))
         /\ [t EXCEPT !.last = val] \in Limiter
         /\ RtUpdate([t EXCEPT !.last = val], val) \in Limiter
  <1> DEFINE s0 == [t EXCEPT !.last = val]
             s1 == RtUpdate(s0, val)
  <1>0. val \in Int /\ Cut(val, req) \in BOOLEAN
    BY DEF Cut
  <1>1. t' = CountRequests(s1, Cut(val, req)) /\ sent' = val
    BY DEF Command, steer_torque_cmd_checks
  <1>2. val \in -lim.max_torque..lim.max_torque
    BY <1>0, LimitFields DEF Violation, TorqueViolation
  <1>3. s0 \in Limiter /\ s0.last = val
    BY <1>2 DEF Limiter
  <1>4. s1 \in Limiter /\ s1.last = val
    <2> HIDE DEF s0
    <2> QED BY <1>2, <1>3, RtUpdateType
  <1>5. t' \in Limiter /\ t'.last = val
    <2> HIDE DEF s1
    <2> QED BY <1>0, <1>1, <1>4, CountType
  <1> QED BY <1>0, <1>1, <1>2, <1>3, <1>4, <1>5

\* Every step keeps the invariant; a command keeps it because what it leaves in
\* `last` is what it sent, or zero.
LEMMA NextInv == IInv /\ [Next]_vars => IInv'
  <1> SUFFICES ASSUME IInv, [Next]_vars PROVE IInv'
    OBVIOUS
  <1>0. lim \in Limits /\ t \in Limiter /\ controls \in BOOLEAN /\ sent \in Int /\ Remembers
    BY DEF IInv, TypeOK, Limiter
  <1>1. ASSUME NEW val \in Torques, NEW req \in BOOLEAN, Command(val, req)
        PROVE  IInv'
    <2>1. CASE Violation(val, req) \/ ~controls
      \* What was refused may be out of range, but only until the limiter starts over.
      <3>1. t'.last = 0 /\ t' = StartOver(t)
        BY <1>0, <1>1, <2>1, CommandResets
      <3>2. t' \in Limiter
        BY <1>0, <3>1, StartOverType
      <3>3. sent' \in Int /\ lim' = lim /\ controls' = controls
        BY <1>0, <1>1 DEF Command
      <3> QED BY <1>0, <3>1, <3>2, <3>3 DEF IInv, TypeOK, Remembers, Limiter
    <2>2. CASE ~Violation(val, req) /\ controls
      <3>1. val \in Int /\ sent' = val /\ t' \in Limiter /\ t'.last = val
        BY <1>0, <1>1, <2>2, CommandSends
      <3>2. lim' = lim /\ controls' = controls
        BY <1>1 DEF Command
      <3> QED BY <1>0, <3>1, <3>2 DEF IInv, TypeOK, Remembers, Limiter
    <2> QED BY <2>1, <2>2
  <1>2. ASSUME NEW v \in Measured, Measure(v) PROVE IInv'
    <2>1. update_sample(t.sample, v) \in Sample
      BY <1>0, SampleType DEF Limiter
    <2>2. t' \in Limiter /\ t'.last = t.last
      BY <1>0, <1>2, <2>1 DEF Measure, Limiter
    <2> QED BY <1>0, <1>2, <2>2 DEF Measure, IInv, TypeOK, Remembers, Limiter
  <1>3. ASSUME NEW l \in Limits, SetMode(l) PROVE IInv'
    <2>1. PICK a \in 0..RT_AGE_CAP, c \in 0..l.min_valid_request_rt_interval :
            t' = NoCommandYet(a, c)
      BY <1>3 DEF SetMode
    <2>2. lim' = l /\ controls' = FALSE /\ sent' = sent
      BY <1>3 DEF SetMode
    <2>3. TypeOK'
      BY <1>0, <2>1, <2>2, ResetType DEF TypeOK
    <2>4. t'.last = 0
      BY <2>1 DEF NoCommandYet
    <2> QED BY <2>3, <2>4 DEF IInv, Remembers
  <1>4. CASE ControlsChange
    BY <1>0, <1>4 DEF ControlsChange, IInv, TypeOK, Remembers, Limiter
  <1>5. CASE Tick
    <2>1. /\ Min2(t.rtAge + 1, RT_AGE_CAP) \in 0..RT_AGE_CAP
          /\ Min2(t.cutAge + 1, lim.min_valid_request_rt_interval)
               \in 0..lim.min_valid_request_rt_interval
      BY <1>0, LimitFields DEF Limiter, Min2, RT_AGE_CAP
    <2>2. t' \in Limiter /\ t'.last = t.last
      BY <1>0, <1>5, <2>1 DEF Tick, Limiter
    <2> QED BY <1>0, <1>5, <2>2 DEF Tick, IInv, TypeOK, Remembers, Limiter
  <1>6. CASE UNCHANGED vars
    BY <1>0, <1>6 DEF vars, IInv, TypeOK, Remembers, Limiter
  <1> QED BY <1>1, <1>2, <1>3, <1>4, <1>5, <1>6 DEF Next

\* For any limits and commands: the limiter's counters stay within the limits they
\* are compared with, and it never remembers a torque beyond the maximum.
THEOREM TypeCorrect == Spec => []TypeOK
  <1>1. IInv => TypeOK
    BY DEF IInv
  <1> QED BY <1>1, InitInv, NextInv, PTL DEF Spec

\* For any limits, commands, measurements and times: the torque that goes out
\* moves away from zero by at most max_rate_up per command.
THEOREM TorqueRisesSlowly == Spec => RiseLimited
  <1> DEFINE Kept == lim' = lim =>
                       /\ sent' <= Max2(sent, 0) + lim.max_rate_up
                       /\ sent' >= Min2(sent, 0) - lim.max_rate_up
  <1>1. IInv /\ [Next]_vars => Kept
    <2> SUFFICES ASSUME IInv, [Next]_vars, lim' = lim PROVE Kept
      OBVIOUS
    <2>0. lim \in Limits /\ t.last \in Int /\ sent \in Int /\ Remembers
      BY LimitFields DEF IInv, TypeOK
    <2>1. lim.max_rate_up \in Nat
      BY <2>0, LimitFields
    <2>2. ASSUME NEW val \in Torques, NEW req \in BOOLEAN, Command(val, req) PROVE Kept
      <3>1. CASE Violation(val, req)
        BY <2>0, <2>1, <2>2, <3>1 DEF Command, Max2, Min2
      <3>2. CASE ~Violation(val, req) /\ controls
        <4>1. sent' = val /\ ~RateLimit(val, t.last)
          BY <2>2, <3>2 DEF Command, Violation, TorqueViolation
        <4>2. /\ val <= Max2(t.last, 0) + lim.max_rate_up
              /\ val >= Min2(t.last, 0) - lim.max_rate_up
          BY <2>0, <2>1, <4>1 DEF RateLimit, Max2, Min2
        <4>3. Max2(t.last, 0) <= Max2(sent, 0) /\ Min2(t.last, 0) >= Min2(sent, 0)
          BY <2>0 DEF Remembers, Max2, Min2
        <4> QED BY <2>0, <2>1, <4>1, <4>2, <4>3 DEF Max2, Min2
      <3>3. CASE ~Violation(val, req) /\ ~controls
        <4>1. sent' = 0
          BY <2>2, <3>3 DEF Command, Violation
        <4> QED BY <2>0, <2>1, <4>1 DEF Max2, Min2
      <3> QED BY <3>1, <3>2, <3>3
    <2>3. CASE UNCHANGED sent
      BY <2>0, <2>1, <2>3 DEF Max2, Min2
    <2> QED BY <2>2, <2>3 DEF Next, Measure, SetMode, ControlsChange, Tick, vars
  <1>2. IInv /\ [Next]_vars => [Kept]_vars
    BY <1>1
  <1> QED BY <1>2, InitInv, NextInv, PTL DEF Spec, RiseLimited

---------------------------------------------------------------------------
(* The commands over time, as MCTorqueLimits records them. Every step of   *)
(* it is one of the limiter, so that IInv holds along its behaviours.      *)

\* The recorder adds no step of its own.
LEMMA MCStep == [MCNext]_mcvars => [Next]_vars
  BY DEF MCNext, Next, mcvars, vars

\* The limiter's invariant, along the recorded behaviours.
LEMMA MCInv == MCSpec => []IInv
  <1>1. MCInit => Init
    BY DEF MCInit
  <1> QED BY <1>1, InitInv, MCStep, NextInv, PTL DEF MCSpec

---------------------------------------------------------------------------
(* FightIsGivenUp is inductive, given the types.                           *)

\* A command that is sent while no sample is above zero is below the error, or a
\* rate step below the one before.
LEMMA SentDescends ==
  ASSUME NEW val \in Int, NEW base \in Int, NEW s \in Sample, lim \in Limits,
         AllAtMostZero(s), ~dist_to_meas_check(val, base, s)
  PROVE  val <= lim.max_torque_error \/ val <= base - lim.max_rate_down
  <1> DEFINE e == lim.max_torque_error
             d == lim.max_rate_down
  <1>1. e \in Nat /\ d \in Nat
    BY DEF LimitsType
  <1>2. ~(/\ val > base - d /\ val > e
          /\ \A i \in DOMAIN s : val > s[i] + e)
    BY DEF dist_to_meas_check
  <1> HIDE DEF e, d
  <1>3. ASSUME val > e, NEW i \in DOMAIN s PROVE val > s[i] + e
    <2>1. s[i] \in Int /\ s[i] <= 0
      BY DEF AllAtMostZero, Sample
    <2> QED BY <1>1, <1>3, <2>1
  <1>4. val <= e \/ val <= base - d
    BY <1>1, <1>2, <1>3
  <1> QED BY <1>4 DEF e, d

\* One command more lowers the bound by a rate step at most.
LEMMA OneMoreFreed ==
  ASSUME NEW n \in Nat, NEW d \in Nat
  PROVE  LET m == Min2(n + 1, FREED_CAP)
         IN  m \in Nat /\ (n <= FREED_CAP => m <= FREED_CAP /\ m * d <= n * d + d)
  <1>1. FREED_CAP \in Nat
    BY WatchConstants
  <1> DEFINE m == Min2(n + 1, FREED_CAP)
  <1>2. m \in Nat /\ m <= n + 1 /\ m <= FREED_CAP
    BY <1>1 DEF Min2
  <1> HIDE DEF m
  <1>3. m * d <= (n + 1) * d /\ (n + 1) * d = n * d + d
    BY <1>2
  <1> QED BY <1>2, <1>3 DEF m

Freed == freed \in 0..FREED_CAP
FInv == Freed /\ FightIsGivenUp

\* Each step keeps it.
LEMMA FightStep == IInv /\ FInv /\ [MCNext]_mcvars => FInv'
  <1> SUFFICES ASSUME IInv, FInv, [MCNext]_mcvars PROVE FInv'
    OBVIOUS
  <1>0. /\ lim \in Limits /\ t \in Limiter /\ FREED_CAP \in Nat /\ freed \in 0..FREED_CAP
        /\ t.last \in Int /\ t.last <= lim.max_torque /\ t.sample \in Sample
    BY WatchConstants, LimitFields DEF IInv, TypeOK, FInv, Freed, Limiter
  <1>1. \A l \in Limits : /\ l.max_torque \in Nat /\ l.max_torque_error \in Nat
                          /\ l.max_rate_down \in Nat
    BY DEF LimitsType
  <1>2. \A n \in Nat, l \in Limits : n * l.max_rate_down \in Nat
    BY <1>1
  <1>3. ASSUME NEW val \in Torques, NEW req \in BOOLEAN,
               Command(val, req), AfterCommand(val, req)
        PROVE  FInv'
    <2>0. lim' = lim
      BY <1>3 DEF Command
    <2>1. freed' = IF Violation(val, req) THEN freed
                   ELSE IF AllAtMostZero(t.sample) THEN Min2(freed + 1, FREED_CAP) ELSE 0
      BY <1>3 DEF AfterCommand
    <2>2. freed' \in 0..FREED_CAP
      BY <1>0, <2>1 DEF Min2
    <2>3. CASE Violation(val, req) \/ ~controls
      <3>1. t'.last = 0
        BY <1>0, <1>3, <2>3, CommandResets
      <3>2. freed' * lim.max_rate_down \in Nat
        BY <1>0, <1>2, <2>2
      <3> QED BY <1>0, <1>1, <2>0, <2>2, <3>1, <3>2 DEF FInv, Freed, FightIsGivenUp, Max2
    <2>4. CASE ~Violation(val, req) /\ controls
      <3>1. t'.last = val /\ val \in Int /\ val <= lim.max_torque
        <4>1. t'.last = val /\ val \in Int /\ val \in -lim.max_torque..lim.max_torque
          BY <1>0, <1>3, <2>4, CommandSends
        <4> QED BY <1>0, <1>1, <4>1
      <3>2. CASE lim.type = "motor" /\ AllAtMostZero(t.sample)
        <4>1. ~dist_to_meas_check(val, t.last, t.sample)
          BY <2>4, <3>2 DEF Violation, TorqueViolation
        <4>2. val <= lim.max_torque_error \/ val <= t.last - lim.max_rate_down
          BY <1>0, <1>1, <3>1, <3>2, <4>1, SentDescends
        <4>3. freed' * lim.max_rate_down <= freed * lim.max_rate_down + lim.max_rate_down
          BY <1>0, <1>1, <2>1, <2>4, <3>2, OneMoreFreed
        <4>4. t.last <= Max2(lim.max_torque_error,
                             lim.max_torque - freed * lim.max_rate_down)
          BY <3>2 DEF FInv, FightIsGivenUp
        <4>5. freed * lim.max_rate_down \in Nat /\ freed' * lim.max_rate_down \in Nat
          BY <1>0, <1>2, <2>2
        <4> QED BY <1>0, <1>1, <2>0, <2>2, <3>1, <4>2, <4>3, <4>4, <4>5
                DEF FInv, Freed, FightIsGivenUp, Max2
      <3>3. CASE lim.type = "motor" /\ ~AllAtMostZero(t.sample)
        <4>1. freed' = 0 /\ freed' * lim.max_rate_down = 0
          BY <1>0, <1>1, <2>1, <2>4, <3>3
        <4> QED BY <1>0, <1>1, <2>0, <2>2, <3>1, <4>1 DEF FInv, Freed, FightIsGivenUp, Max2
      <3>4. CASE lim.type # "motor"
        BY <2>0, <2>2, <3>4 DEF FInv, Freed, FightIsGivenUp
      <3> QED BY <3>2, <3>3, <3>4
    <2> QED BY <2>3, <2>4
  <1>4. ASSUME NEW v \in Measured, Measure(v), freed' = IF v > 0 THEN 0 ELSE freed PROVE FInv'
    <2>1. t'.last = t.last /\ lim' = lim
      BY <1>0, <1>4 DEF Measure, Limiter
    <2>2. freed' \in {0, freed} /\ 0 * lim.max_rate_down = 0
      BY <1>0, <1>1, <1>4
    <2> QED BY <1>0, <1>1, <2>1, <2>2 DEF FInv, Freed, FightIsGivenUp, Max2
  <1>5. ASSUME NEW l \in Limits, SetMode(l), freed' = 0 PROVE FInv'
    <2>1. t'.last = 0 /\ lim' = l
      BY <1>5 DEF SetMode, NoCommandYet
    <2>2. 0 * l.max_rate_down = 0
      BY <1>1
    <2> QED BY <1>0, <1>1, <1>5, <2>1, <2>2 DEF FInv, Freed, FightIsGivenUp, Max2
  <1>6. CASE Tick /\ UNCHANGED freed
    BY <1>0, <1>6 DEF Tick, Limiter, FInv, Freed, FightIsGivenUp
  <1>7. CASE UNCHANGED <<lim, t, freed>>
    BY <1>7 DEF FInv, Freed, FightIsGivenUp
  <1> QED BY <1>3, <1>4, <1>5, <1>6, <1>7 DEF MCNext, ControlsChange, mcvars, vars

\* For any limits, commands and measurements: a motor that delivers nothing brings a
\* positive command down to the allowed error, one rate step per command that is sent.
THEOREM MotorFightEnds == MCSpec => []FightIsGivenUp
  <1>1. MCInit => FInv
    <2> SUFFICES ASSUME MCInit PROVE FInv
      OBVIOUS
    <2>1. t.last = 0 /\ freed = 0 /\ lim \in Limits
      BY DEF MCInit, Init, NoCommandYet
    <2>2. lim.max_torque \in Nat /\ lim.max_torque_error \in Nat /\ 0 * lim.max_rate_down = 0
      BY <2>1 DEF LimitsType
    <2> QED BY <2>1, <2>2, WatchConstants DEF FInv, Freed, FightIsGivenUp, Max2
  <1>2. FInv => FightIsGivenUp
    BY DEF FInv
  <1> QED BY <1>1, <1>2, FightStep, MCInv, PTL DEF MCSpec

---------------------------------------------------------------------------
(* CutsAreRare: the two counters of the code agree with what was sent.     *)

Counted ==
  /\ cuts = IF lim.has_steer_req_tolerance THEN t.invalidReq ELSE 0
  /\ matched \in Nat
  /\ lim.has_steer_req_tolerance => t.validReq <= matched

\* What a mode or a refused command leaves has no cuts counted.
LEMMA CountedAfresh ==
  ASSUME cuts = 0, matched \in Nat, t.invalidReq = 0, t.validReq = 0
  PROVE  Counted
  BY DEF Counted

\* RtUpdate and the remembering of the command leave the counters alone.
LEMMA RtKeepsCounters ==
  ASSUME NEW s \in Limiter, NEW val
  PROVE  LET s1 == RtUpdate([s EXCEPT !.last = val], val)
         IN  s1.invalidReq = s.invalidReq /\ s1.validReq = s.validReq
  BY DEF RtUpdate, Limiter

\* A command keeps the counters and the record in step, and begins a run of cuts only
\* after enough that matched.
LEMMA CommandCounts ==
  ASSUME NEW val \in Torques, NEW req \in BOOLEAN, IInv, Counted,
         Command(val, req), AfterCommand(val, req)
  PROVE  /\ Counted'
         /\ cuts' = 1 /\ cuts = 0 => matched >= lim.min_valid_request_frames
  <1>0. /\ lim \in Limits /\ t \in Limiter /\ lim' = lim
        /\ lim.min_valid_request_frames \in Nat /\ lim.max_invalid_request_frames \in Nat
        /\ t.validReq \in Nat /\ t.invalidReq \in 0..lim.max_invalid_request_frames
    BY LimitFields DEF IInv, TypeOK, Limiter, Command
  <1>1. /\ cuts' = IF Violation(val, req) \/ ~Cut(val, req) THEN 0 ELSE cuts + 1
        /\ matched' = IF Violation(val, req) \/ Cut(val, req) THEN 0
                      ELSE Min2(matched + 1, lim.min_valid_request_frames)
    BY DEF AfterCommand
  <1>2. matched' \in Nat
    BY <1>0, <1>1 DEF Counted, Min2
  <1>3. CASE Violation(val, req) \/ ~controls
    <2>1. t' = StartOver(t)
      BY <1>0, <1>3, CommandResets
    <2>2. t'.invalidReq = 0 /\ t'.validReq = 0
      BY <1>0, <2>1 DEF StartOver, Limiter
    <2>3. cuts' = 0
      \* Without controls a torque that could be cut is refused.
      BY <1>1, <1>3 DEF Violation, Cut
    <2> QED BY <1>0, <1>2, <2>2, <2>3 DEF Counted
  <1>4. CASE ~Violation(val, req) /\ controls
    <2> DEFINE s1 == RtUpdate([t EXCEPT !.last = val], val)
    <2>1. s1 \in Limiter /\ t' = CountRequests(s1, Cut(val, req))
      BY <1>0, <1>4, CommandSends
    <2>2. s1.invalidReq = t.invalidReq /\ s1.validReq = t.validReq
      BY <1>0, RtKeepsCounters
    <2> HIDE DEF s1
    <2>3. CASE ~lim.has_steer_req_tolerance
      <3>1. ~Cut(val, req)
        BY <1>4, <2>3 DEF Violation, CutViolation
      <3> QED BY <1>0, <1>1, <1>2, <2>3, <3>1 DEF Counted
    <2>4. CASE lim.has_steer_req_tolerance /\ Cut(val, req)
      <3>1. /\ t.invalidReq = 0 => t.validReq >= lim.min_valid_request_frames
            /\ t.invalidReq # 0 => t.invalidReq < lim.max_invalid_request_frames
        BY <1>0, <1>4, <2>4 DEF Violation, CutViolation
      <3>2. /\ t'.validReq = 0
            /\ t'.invalidReq = Min2(t.invalidReq + 1, lim.max_invalid_request_frames)
        BY <2>1, <2>2, <2>4 DEF CountRequests, Limiter
      <3>3. lim.max_invalid_request_frames > 0
        BY <1>0, <2>4, WatchConstants
      <3>4. t'.invalidReq = t.invalidReq + 1
        BY <1>0, <3>1, <3>2, <3>3 DEF Min2
      <3>5. cuts = t.invalidReq /\ t.validReq <= matched /\ cuts' = cuts + 1
        BY <1>1, <1>4, <2>4 DEF Counted
      <3> QED BY <1>0, <1>2, <2>4, <3>1, <3>2, <3>4, <3>5 DEF Counted
    <2>5. CASE lim.has_steer_req_tolerance /\ ~Cut(val, req)
      <3>1. /\ t'.invalidReq = 0
            /\ t'.validReq = Min2(t.validReq + 1, lim.min_valid_request_frames)
        BY <2>1, <2>2, <2>5 DEF CountRequests, Limiter
      <3>2. cuts' = 0 /\ matched' = Min2(matched + 1, lim.min_valid_request_frames)
        BY <1>1, <1>4, <2>5
      <3>3. t.validReq <= matched /\ matched \in Nat
        BY <2>5 DEF Counted
      <3> QED BY <1>0, <1>2, <3>1, <3>2, <3>3 DEF Counted, Min2
    <2> QED BY <2>3, <2>4, <2>5
  <1> QED BY <1>3, <1>4

\* No other step touches the counters without resetting the record.
LEMMA CountStep ==
  ASSUME IInv, Counted, [MCNext]_mcvars
  PROVE  /\ Counted'
         /\ cuts' = 1 /\ cuts = 0 => matched >= lim.min_valid_request_frames
  <1>0. t \in Limiter
    BY DEF IInv, TypeOK, Limiter
  <1>1. ASSUME NEW v \in Measured, Measure(v), UNCHANGED <<cuts, matched>>
        PROVE  Counted' /\ cuts' = cuts
    <2>1. t'.invalidReq = t.invalidReq /\ t'.validReq = t.validReq /\ lim' = lim
      BY <1>0, <1>1 DEF Measure, Limiter
    <2> QED BY <1>1, <2>1 DEF Counted
  <1>2. ASSUME NEW l \in Limits, SetMode(l), cuts' = 0, matched' = 0
        PROVE  Counted' /\ cuts' = 0
    <2>1. t'.invalidReq = 0 /\ t'.validReq = 0
      BY <1>2 DEF SetMode, NoCommandYet
    <2> QED BY <1>2, <2>1 DEF Counted
  <1>3. ASSUME Tick, UNCHANGED <<cuts, matched>> PROVE Counted' /\ cuts' = cuts
    <2>1. t'.invalidReq = t.invalidReq /\ t'.validReq = t.validReq /\ lim' = lim
      BY <1>0, <1>3 DEF Tick, Limiter
    <2> QED BY <1>3, <2>1 DEF Counted
  <1>4. ASSUME UNCHANGED <<lim, t, cuts, matched>> PROVE Counted' /\ cuts' = cuts
    BY <1>4 DEF Counted
  <1> QED BY <1>1, <1>2, <1>3, <1>4, CommandCounts DEF MCNext, ControlsChange, mcvars, vars

\* For any limits, commands and times: the request bit is cut for a tolerated number of
\* commands in a row only, and not again before enough commands that matched.
THEOREM CutsStayRare == MCSpec => CutsAreRare
  <1> DEFINE Kept == /\ cuts' <= lim'.max_invalid_request_frames
                     /\ cuts' = 1 /\ cuts = 0 => matched >= lim.min_valid_request_frames
  <1>1. MCInit => Counted
    BY DEF MCInit, Init, NoCommandYet, Counted
  <1>2. IInv /\ Counted /\ [MCNext]_mcvars => Counted'
    BY CountStep
  <1>3. IInv' /\ Counted' => cuts' <= lim'.max_invalid_request_frames
    <2>1. IInv /\ Counted => cuts <= lim.max_invalid_request_frames
      BY LimitFields DEF IInv, TypeOK, Counted
    <2>2. (IInv /\ Counted => cuts <= lim.max_invalid_request_frames)'
      BY <2>1, PTL
    <2> QED BY <2>2
  <1>4. IInv /\ IInv' /\ Counted /\ [MCNext]_mcvars => [Kept]_mcvars
    BY <1>3, CountStep
  <1> QED BY <1>1, <1>2, <1>4, MCInv, PTL DEF MCSpec, CutsAreRare

---------------------------------------------------------------------------
(* RampTakesTime. The base of the real-time check, rtLast, is as old as    *)
(* rtAge: what it can have reached is bounded by the whole intervals that  *)
(* had passed then, and the torque by one max_rt_delta more.               *)

Most(n) == lim.max_rt_delta * n
Within(x, most) == x <= most /\ x >= -most

Ramps ==
  since < SINCE_CAP =>
    /\ t.rtAge <= since
    /\ Within(t.rtLast, Most((since - t.rtAge) \div INTERVAL))
    /\ Within(t.last, Most(1 + since \div INTERVAL))
RInv == since \in Nat /\ Ramps

\* Multiples of max_rt_delta, and whole intervals, as far as they are needed.
LEMMA Multiples ==
  ASSUME lim \in Limits, NEW m \in Nat, NEW n \in Nat
  PROVE  /\ Most(n) \in Nat
         /\ m <= n => Most(m) <= Most(n)
         /\ Most(1 + n) = Most(n) + lim.max_rt_delta
         /\ lim.max_rt_delta \in Nat
  <1> DEFINE d == lim.max_rt_delta
  <1>1. d \in Nat
    BY DEF LimitsType
  <1> HIDE DEF d
  <1>2. d * n \in Nat /\ (m <= n => d * m <= d * n) /\ d * (1 + n) = d * n + d
    BY <1>1
  <1> QED BY <1>1, <1>2 DEF d, Most

LEMMA Intervals ==
  ASSUME NEW a \in Nat, NEW b \in Nat
  PROVE  /\ INTERVAL \in Nat \ {0} /\ INTERVAL = RT_AGE_CAP
         /\ a \div INTERVAL \in Nat
         /\ a <= b => a \div INTERVAL <= b \div INTERVAL
         /\ (a + INTERVAL) \div INTERVAL = 1 + a \div INTERVAL
  <1>1. INTERVAL \in Nat \ {0} /\ INTERVAL = RT_AGE_CAP
    BY DEF INTERVAL, RT_AGE_CAP
  <1> DEFINE i == INTERVAL
  <1> HIDE DEF i
  <1>2. i \in Nat \ {0}
    BY <1>1 DEF i
  <1>3. a \div i \in Nat /\ (a + i) \div i = 1 + a \div i
    BY <1>2
  <1>4. a <= b => a \div i <= b \div i
    BY <1>2
  <1> QED BY <1>1, <1>3, <1>4 DEF i

\* A limiter that started over less than the recorded time ago.
Afresh ==
  /\ lim \in Limits /\ t.last = 0 /\ t.rtLast = 0
  /\ t.rtAge \in 0..RT_AGE_CAP /\ since \in Nat /\ t.rtAge <= since

LEMMA RampsAfresh == Afresh => RInv
  <1> SUFFICES ASSUME Afresh PROVE RInv
    OBVIOUS
  <1>1. since - t.rtAge \in Nat /\ lim \in Limits
    BY DEF Afresh, RT_AGE_CAP
  <1>2. /\ (since - t.rtAge) \div INTERVAL \in Nat
        /\ 1 + since \div INTERVAL \in Nat
    BY <1>1, Intervals DEF Afresh
  <1>3. /\ Most((since - t.rtAge) \div INTERVAL) \in Nat
        /\ Most(1 + since \div INTERVAL) \in Nat
    BY <1>1, <1>2, Multiples
  <1> QED BY <1>3 DEF Afresh, RInv, Ramps, Within

LEMMA RampsAfreshNext == Afresh' => RInv'
  BY RampsAfresh, PTL

\* A command that closes an interval moves the base up by one max_rt_delta at most, and
\* no sooner than an interval after the last one.
LEMMA RampStep == IInv /\ RInv /\ [MCNext]_mcvars => RInv'
  <1> SUFFICES ASSUME IInv, RInv, [MCNext]_mcvars PROVE RInv'
    OBVIOUS
  <1>0. /\ lim \in Limits /\ t \in Limiter /\ since \in Nat /\ Ramps /\ SINCE_CAP \in Nat
        /\ t.last \in Int /\ t.rtLast \in Int /\ t.rtAge \in 0..RT_AGE_CAP /\ t.rtAge \in Nat
        /\ RT_AGE_CAP \in Nat
    BY LimitFields, WatchConstants DEF IInv, TypeOK, RInv, Limiter, RT_AGE_CAP
  <1>1. ASSUME NEW val \in Torques, NEW req \in BOOLEAN,
               Command(val, req), AfterCommand(val, req)
        PROVE  RInv'
    <2>0. lim' = lim
      BY <1>1 DEF Command
    <2>1. since' = IF Violation(val, req) \/ ~controls THEN 0 ELSE since
      BY <1>1 DEF AfterCommand
    <2>2. CASE Violation(val, req) \/ ~controls
      <3>1. t' = StartOver(t)
        BY <1>0, <1>1, <2>2, CommandResets
      <3>2. t'.last = 0 /\ t'.rtLast = 0 /\ t'.rtAge = 0 /\ since' = 0
        BY <1>0, <2>1, <2>2, <3>1 DEF StartOver, Limiter
      <3> QED BY <1>0, <2>0, <3>2, RampsAfreshNext DEF Afresh, RT_AGE_CAP
    <2>3. CASE ~Violation(val, req) /\ controls
      <3> DEFINE s0 == [t EXCEPT !.last = val]
                 s1 == RtUpdate(s0, val)
                 k == (since - t.rtAge) \div INTERVAL
                 n == since \div INTERVAL
      <3>1. /\ val \in Int /\ t'.last = val /\ t' = CountRequests(s1, Cut(val, req))
            /\ s1 \in Limiter
        BY <1>0, <1>1, <2>3, CommandSends
      <3>2. s1.rtAge = IF t.rtAge > MAX_RT_INTERVAL THEN 0 ELSE t.rtAge
        BY <1>0 DEF RtUpdate, Limiter
      <3>3. s1.rtLast = IF t.rtAge > MAX_RT_INTERVAL THEN val ELSE t.rtLast
        BY <1>0 DEF RtUpdate, Limiter
      <3> HIDE DEF s1
      <3>4. t'.rtAge = s1.rtAge /\ t'.rtLast = s1.rtLast
        BY <3>1 DEF CountRequests, Limiter
      <3>5. SUFFICES ASSUME since < SINCE_CAP
                     PROVE  /\ t'.rtAge <= since
                            /\ Within(t'.rtLast, Most((since - t'.rtAge) \div INTERVAL))
                            /\ Within(t'.last, Most(1 + since \div INTERVAL))
        BY <1>0, <2>0, <2>1, <2>3 DEF RInv, Ramps, Most, Within, INTERVAL
      <3>6. /\ t.rtAge <= since /\ since - t.rtAge \in Nat
            /\ Within(t.rtLast, Most(k))
        BY <1>0, <3>5 DEF Ramps
      <3>7. k \in Nat /\ n \in Nat /\ k <= n
        BY <1>0, <3>6, Intervals
      <3>8. /\ Most(k) \in Nat /\ Most(n) \in Nat /\ Most(1 + k) = Most(k) + lim.max_rt_delta
            /\ Most(1 + n) = Most(n) + lim.max_rt_delta /\ Most(k) <= Most(n)
            /\ lim.max_rt_delta \in Nat
        <4> HIDE DEF k, n
        <4>1. lim \in Limits
          BY <1>0
        <4>2. /\ Most(k) \in Nat /\ Most(1 + k) = Most(k) + lim.max_rt_delta
              /\ lim.max_rt_delta \in Nat
          BY <3>7, <4>1, Multiples
        <4>3. /\ Most(n) \in Nat /\ Most(1 + n) = Most(n) + lim.max_rt_delta
              /\ Most(k) <= Most(n)
          BY <3>7, <4>1, Multiples
        <4> QED BY <4>2, <4>3
      <3>9. Within(val, Most(1 + k))
        <4>1. ~rt_torque_rate_limit_check(val, t.rtLast)
          BY <2>3 DEF Violation, TorqueViolation
        <4> QED BY <1>0, <3>1, <3>6, <3>8, <4>1
                DEF rt_torque_rate_limit_check, Within, Max2, Min2
      <3>10. Within(val, Most(1 + n))
        BY <3>1, <3>8, <3>9 DEF Within
      <3>11. CASE t.rtAge > MAX_RT_INTERVAL
        \* The check that closes an interval.
        <4>1. t.rtAge = INTERVAL /\ t'.rtAge = 0 /\ t'.rtLast = val
          BY <1>0, <3>2, <3>3, <3>4, <3>11 DEF INTERVAL, RT_AGE_CAP
        <4>2. (since - t.rtAge) + INTERVAL = since
          BY <1>0, <3>6, <4>1
        <4>3. n = 1 + k
          BY <3>6, <4>2, Intervals
        <4>4. since - t'.rtAge = since
          BY <1>0, <4>1
        <4> QED BY <1>0, <3>1, <3>9, <3>10, <4>1, <4>3, <4>4
      <3>12. CASE ~(t.rtAge > MAX_RT_INTERVAL)
        <4>1. t'.rtAge = t.rtAge /\ t'.rtLast = t.rtLast
          BY <3>2, <3>3, <3>4, <3>12
        <4> QED BY <3>1, <3>6, <3>10, <4>1
      <3> QED BY <3>11, <3>12
    <2> QED BY <2>2, <2>3
  <1>2. ASSUME NEW l \in Limits, SetMode(l), since' = INTERVAL PROVE RInv'
    <2>1. PICK a \in 0..RT_AGE_CAP, c \in 0..l.min_valid_request_rt_interval :
            t' = NoCommandYet(a, c)
      BY <1>2 DEF SetMode
    <2>2. t'.last = 0 /\ t'.rtLast = 0 /\ t'.rtAge = a /\ lim' = l
      BY <1>2, <2>1 DEF SetMode, NoCommandYet
    <2>3. INTERVAL \in Nat /\ a <= INTERVAL
      BY <1>0, Intervals
    <2> QED BY <1>2, <2>2, <2>3, RampsAfreshNext DEF Afresh, RT_AGE_CAP
  <1>3. ASSUME Tick, since' = Min2(since + 1, SINCE_CAP) PROVE RInv'
    <2>0. since' \in Nat /\ lim' = lim
      BY <1>0, <1>3 DEF Tick, Min2
    <2>1. /\ t'.last = t.last /\ t'.rtLast = t.rtLast
          /\ t'.rtAge = Min2(t.rtAge + 1, RT_AGE_CAP)
      BY <1>0, <1>3 DEF Tick, Limiter
    <2> SUFFICES ASSUME since' < SINCE_CAP
                 PROVE  /\ t'.rtAge <= since'
                        /\ Within(t'.rtLast, Most((since' - t'.rtAge) \div INTERVAL))
                        /\ Within(t'.last, Most(1 + since' \div INTERVAL))
      BY <2>0 DEF RInv, Ramps, Most, Within, INTERVAL
    <2>2. since' = since + 1 /\ since < SINCE_CAP
      BY <1>0, <1>3 DEF Min2
    <2>3. /\ t.rtAge <= since /\ Within(t.rtLast, Most((since - t.rtAge) \div INTERVAL))
          /\ Within(t.last, Most(1 + since \div INTERVAL))
      BY <1>0, <2>2 DEF Ramps
    <2>4. /\ t'.rtAge <= since' /\ since - t.rtAge <= since' - t'.rtAge
          /\ since - t.rtAge \in Nat /\ since' - t'.rtAge \in Nat
      BY <1>0, <2>1, <2>2, <2>3 DEF Min2
    <2> DEFINE k == (since - t.rtAge) \div INTERVAL
               kk == (since' - t'.rtAge) \div INTERVAL
               n == since \div INTERVAL
               nn == since' \div INTERVAL
    <2>5. k \in Nat /\ kk \in Nat /\ n \in Nat /\ nn \in Nat /\ k <= kk /\ n <= nn
      BY <1>0, <2>0, <2>2, <2>4, Intervals
    <2> HIDE DEF k, kk, n, nn
    <2>6. /\ Most(k) \in Nat /\ Most(kk) \in Nat /\ Most(k) <= Most(kk)
          /\ Most(1 + n) \in Nat /\ Most(1 + nn) \in Nat /\ Most(1 + n) <= Most(1 + nn)
      BY <1>0, <2>5, Multiples
    <2>7. Within(t'.rtLast, Most(kk))
      BY <1>0, <2>1, <2>3, <2>6 DEF Within, k
    <2>8. Within(t'.last, Most(1 + nn))
      BY <1>0, <2>1, <2>3, <2>6 DEF Within, n
    <2> QED BY <2>4, <2>7, <2>8 DEF kk, nn
  <1>4. ASSUME NEW v \in Measured, Measure(v), UNCHANGED since PROVE RInv'
    <2>1. /\ t'.last = t.last /\ t'.rtLast = t.rtLast /\ t'.rtAge = t.rtAge /\ lim' = lim
      BY <1>0, <1>4 DEF Measure, Limiter
    <2> QED BY <1>0, <1>4, <2>1 DEF RInv, Ramps, Most, Within, INTERVAL
  <1>5. CASE UNCHANGED <<lim, t, since>>
    BY <1>0, <1>5 DEF RInv, Ramps, Most, Within, INTERVAL
  <1> QED BY <1>1, <1>2, <1>3, <1>4, <1>5 DEF MCNext, ControlsChange, mcvars, vars

\* For any limits, commands and times: a torque of n times max_rt_delta needs n - 1 whole
\* intervals, however many commands come in between.
THEOREM RampsSlowly == MCSpec => []RampTakesTime
  <1>1. MCInit => RInv
    <2> SUFFICES ASSUME MCInit PROVE RInv
      OBVIOUS
    <2>1. PICK a \in 0..RT_AGE_CAP, c \in 0..lim.min_valid_request_rt_interval :
            t = NoCommandYet(a, c)
      BY DEF MCInit, Init
    <2>2. t.last = 0 /\ t.rtLast = 0 /\ t.rtAge = a /\ lim \in Limits /\ since = INTERVAL
      BY <2>1 DEF NoCommandYet, MCInit, Init
    <2>3. INTERVAL \in Nat /\ a <= INTERVAL
      BY Intervals DEF RT_AGE_CAP
    <2> QED BY <2>2, <2>3, RampsAfresh DEF Afresh
  <1>2. RInv => RampTakesTime
    BY DEF RInv, Ramps, RampTakesTime, Most, Within
  <1> QED BY <1>1, <1>2, RampStep, MCInv, PTL DEF MCSpec
=============================================================================
