--------------------------- MODULE SpiDriver_proofs ---------------------------
(***************************************************************************)
(* Proofs about SpiDriver, for every gain, limit and servo frequency: type *)
(* correctness, RateLag, and how wide M must be for the spike filter to    *)
(* hide what it is meant to hide.                                          *)
(***************************************************************************)
EXTENDS SpiDriver, TLAPS

CONSTANT Step   \* counts the stepper moves in a servo period, at most

(* The stepper is slow, the filter wide, and glitches are wider.            *)
Plausible ==
  /\ Step \in Nat /\ PRU_base_freq <= Step * ServoFreq
  /\ Step * (MaxMissed + MaxCorrupt + 1) <= M
  /\ Glitch > 2 * M
  /\ MaxCorrupt <= n

(* Servo periods since the published count was the stepper's. *)
Age == missed + corrupt + (IF pc = "read" THEN 1 ELSE 0)

(* Each feedback held back was a corrupted one, and the stepper has had no  *)
(* more than Age periods to leave the published count.                      *)
FilterInv ==
  /\ filter_count = corrupt
  /\ Abs(count - jointFeedback) <= Step * Age

RateInv == TypeOK /\ RateLag
IInv    == TypeOK /\ FilterInv

-----------------------------------------------------------------------------
(* Limits of a rate. *)
LEMMA LimitedRate ==
  ASSUME TypeOK
  PROVE  /\ dv \in Nat /\ dv <= PRU_base_freq
         /\ AccelLimited(FreqLimited) \in Rates
         /\ Abs(AccelLimited(FreqLimited) - freq) <= dv
<1>1. dv \in Nat /\ dv <= PRU_base_freq
  BY RateAssumption DEF TypeOK, dv, max_freq, Least
<1>2. vel_cmd \in Int
  <2>1. pos_cmd \in Int /\ prev_cmd \in Int /\ Sign \in Int /\ count \in Int
    BY SignAssumption, ParamAssumption DEF TypeOK
  <2>2. pos_fb \in Int /\ deadband \in Int
    BY <2>1 DEF pos_fb, deadband
  <2>3. Deadbanded(pos_cmd - pos_fb) \in Int
    BY <2>1, <2>2 DEF Deadbanded
  <2>. QED
    BY <2>1, <2>3, RateAssumption DEF vel_cmd
<1>3. FreqLimited \in Rates
  BY <1>2, RateAssumption DEF FreqLimited, max_freq, Limit, Rates
<1>4. freq \in Rates
  BY DEF TypeOK
<1>. QED
  BY <1>1, <1>3, <1>4, RateAssumption DEF AccelLimited, Limit, Rates, Abs

LEMMA TypeStep ==
  ASSUME TypeOK, [Next]_vars
  PROVE  TypeOK'
<1>. USE RateAssumption, ParamAssumption, NoiseAssumption
<1>0. jointFeedback \in Int
  BY DEF TypeOK, jointFeedback
<1>1. CASE Period
  BY <1>1 DEF Period, TypeOK, pins, reading, stepgen, noise, Rates
<1>. DEFINE Unread == UNCHANGED <<pins, maxaccel, stepgen, firmware, calm, written, slack>>
<1>2. ASSUME NEW x \in Int, Publish(x), Unread, pc' = "update",
             missed' \in 0 .. MaxMissed, corrupt' \in 0 .. MaxCorrupt
      PROVE  TypeOK'
  <2>1. count' \in Int /\ filter_count' \in 0 .. n /\ SPIstatus' \in BOOLEAN
    BY <1>2 DEF Publish, Holds, TypeOK, n
  <2>. QED
    BY <2>1, <1>2 DEF TypeOK, pins, stepgen, firmware, Rates
<1>3. CASE ReadData
  BY <1>3, <1>2, <1>0 DEF ReadData
<1>4. CASE ReadCorrupt
  <2>1. PICK x \in {jointFeedback - Glitch, jointFeedback + Glitch} : Publish(x)
    BY <1>4 DEF ReadCorrupt
  <2>2. x \in Int
    BY <1>0
  <2>3. missed' \in 0 .. MaxMissed /\ corrupt' \in 0 .. MaxCorrupt /\ Unread /\ pc' = "update"
    BY <1>4 DEF ReadCorrupt, TypeOK
  <2>. QED
    BY <2>1, <2>2, <2>3, <1>2
<1>5. CASE ReadNothing
  <2>1. SPIstatus' \in BOOLEAN /\ pc' = "update"
    BY <1>5 DEF ReadNothing
  <2>3. missed' \in 0 .. MaxMissed
    BY <1>5 DEF ReadNothing, TypeOK
  <2>2. UNCHANGED <<count, filter_count, pins, maxaccel, stepgen, firmware, calm, corrupt, written, slack>>
    BY <1>5 DEF ReadNothing
  <2>. QED
    BY <2>1, <2>2, <2>3 DEF TypeOK, pins, stepgen, firmware
<1>6. CASE update_freq
  <2>1. freq' \in Rates
    BY <1>6, LimitedRate DEF update_freq, Disabled
  <2>2. maxaccel' \in Nat /\ slack' \in 0 .. 2 * PRU_base_freq
    BY <1>6, LimitedRate DEF update_freq, TypeOK, max_freq, Least
  <2>. QED
    BY <1>6, <2>1, <2>2 DEF update_freq, TypeOK, pins, reading, firmware, noise, Rates
<1>7. CASE spi_write
  BY <1>7 DEF spi_write, TypeOK, pins, reading, stepgen, Rates
<1>8. CASE NotWritten
  BY <1>8 DEF NotWritten, TypeOK, pins, reading, stepgen, firmware, Rates
<1>9. CASE Plan
  BY <1>9 DEF Plan, TypeOK, reading, stepgen, firmware, noise, Rates
<1>10. CASE SetEnable
  BY <1>10 DEF SetEnable, TypeOK, reading, stepgen, firmware, noise, Rates
<1>11. CASE SetMaxAccel
  BY <1>11 DEF SetMaxAccel, TypeOK, pins, reading, stepgen, firmware, noise, Rates
<1>12. CASE Calm
  BY <1>12 DEF Calm, TypeOK, pins, reading, stepgen, firmware, noise, Rates
<1>13. CASE UNCHANGED vars
  BY <1>13 DEF vars, TypeOK, pins, reading, stepgen, firmware, noise, Rates
<1>. QED
  BY <1>1, <1>3, <1>4, <1>5, <1>6, <1>7, <1>8, <1>9, <1>10, <1>11, <1>12, <1>13 DEF Next, Servo

LEMMA TypeInit == Init => TypeOK
<1>. SUFFICES ASSUME Init PROVE TypeOK
  OBVIOUS
<1>1. 0 \in Rates /\ 0 \in 0 .. n /\ 0 \in 0 .. 2 * PRU_base_freq
  BY RateAssumption DEF Rates, n
<1>2. maxaccel \in Nat /\ 0 \in Command /\ 0 \in 0 .. MaxMissed /\ 0 \in 0 .. MaxCorrupt
  BY ParamAssumption, NoiseAssumption DEF Init
<1>3. pc = "period" /\ {stepperEnable, SPIstatus, jointEnable, calm, written} \subseteq BOOLEAN
  BY DEF Init
<1>. QED
  BY <1>1, <1>2, <1>3 DEF Init, TypeOK

(* Every variable of driver and firmware keeps its type; in particular no   *)
(* rate is ever beyond what the base thread can step.                       *)
THEOREM TypeCorrect == Spec => []TypeOK
BY TypeInit, TypeStep, PTL DEF Spec

-----------------------------------------------------------------------------
LEMMA SlackArithmetic ==
  ASSUME NEW B \in Nat, NEW f \in -B .. B, NEW g \in -B .. B, NEW j \in -B .. B,
         NEW d \in Nat, NEW s \in Nat, Abs(g - f) <= d, Abs(f - j) <= s
  PROVE  Abs(g - j) <= Least(s + d, 2 * B)
BY DEF Abs, Least

LEMMA RateStep ==
  ASSUME RateInv, [Next]_vars
  PROVE  RateLag'
<1>. USE RateAssumption
<1>1. CASE update_freq
  <2>1. /\ freq \in Int /\ jointFreqCmd \in Rates /\ slack \in Nat /\ freq' \in Rates
        /\ Abs(freq' - freq) <= dv /\ dv \in Nat /\ slack' = Least(slack + dv, 2 * PRU_base_freq)
        /\ jointFreqCmd' = jointFreqCmd
    BY <1>1, LimitedRate DEF RateInv, TypeOK, Rates, update_freq, Disabled, firmware
  <2>2. Abs(freq - jointFreqCmd) <= slack /\ freq \in Rates
    BY DEF RateInv, RateLag, TypeOK
  <2>3. Abs(freq' - jointFreqCmd) <= Least(slack + dv, 2 * PRU_base_freq)
    BY <2>1, <2>2, SlackArithmetic DEF Rates
  <2>. QED
    BY <2>1, <2>3 DEF RateLag
<1>2. CASE spi_write
  BY <1>2 DEF spi_write, RateInv, TypeOK, RateLag, Abs, stepgen, Rates
<1>3. CASE UNCHANGED <<freq, jointFreqCmd, slack>>
  BY <1>3 DEF RateInv, RateLag
<1>. QED
  BY <1>1, <1>2, <1>3 DEF Next, Servo, Period, ReadData, ReadCorrupt, ReadNothing, NotWritten, Plan,
     SetEnable, SetMaxAccel, Calm, vars, stepgen, firmware

(* The firmware's rate is never behind the driver's by more than the        *)
(* acceleration limit times the periods since it was last written to.       *)
THEOREM RateTheorem == Spec => []RateLag
<1>1. Init => RateInv
  BY TypeInit DEF Init, RateInv, RateLag, Abs
<1>2. RateInv /\ [Next]_vars => RateInv'
  BY TypeStep, RateStep DEF RateInv
<1>3. RateInv => RateLag
  BY DEF RateInv
<1>. QED
  BY <1>1, <1>2, <1>3, PTL DEF Spec

-----------------------------------------------------------------------------
(* A rate that Step bounds moves the count by no more than Step. *)
LEMMA CountStep ==
  ASSUME NEW F \in Nat \ {0}, NEW S \in Nat, NEW a \in Int, NEW b \in Int,
         b <= S * F, -b <= S * F
  PROVE  Abs((a + b) \div F - a \div F) <= S
<1>. DEFINE p == a \div F
            q == (a + b) \div F
<1>1. p \in Int /\ p * F <= a /\ a < p * F + F
  OBVIOUS
<1>2. q \in Int /\ q * F <= a + b /\ a + b < q * F + F
  OBVIOUS
<1>. HIDE DEF p, q
<1>3. (q - p - S) * F < F
  BY <1>1, <1>2
<1>4. (p - q - S) * F < F
  BY <1>1, <1>2
<1>5. ASSUME NEW x \in Int, x * F < F PROVE x <= 0
  BY <1>5
<1>6. q - p - S <= 0 /\ p - q - S <= 0
  BY <1>1, <1>2, <1>3, <1>4, <1>5
<1>. QED
  BY <1>1, <1>2, <1>6 DEF Abs, p, q

LEMMA Triangle ==
  ASSUME NEW x \in Int, NEW y \in Int, NEW z \in Int, NEW d \in Nat, NEW e \in Nat,
         Abs(x - y) <= d, Abs(z - y) <= e
  PROVE  Abs(x - z) <= d + e
BY DEF Abs

(* How far the stepper can have gone is always within the filter's width. *)
LEMMA Reach ==
  ASSUME Plausible, IInv
  PROVE  /\ Age \in Nat /\ Step * Age \in Nat /\ Step * Age <= M
         /\ jointFeedback \in Int
<1>1. Age \in Nat /\ Age <= MaxMissed + MaxCorrupt + 1
  BY NoiseAssumption DEF IInv, TypeOK, Age
<1>2. Step * Age <= Step * (MaxMissed + MaxCorrupt + 1)
  <2>1. \A s, x, y \in Nat : x <= y => s * x <= s * y
    OBVIOUS
  <2>. QED
    BY <2>1, <1>1, NoiseAssumption DEF Plausible
<1>3. Step * Age \in Nat
  BY <1>1 DEF Plausible
<1>. QED
  BY <1>1, <1>2, <1>3, RateAssumption, NoiseAssumption DEF Plausible, IInv, TypeOK, jointFeedback

LEMMA FilterStep ==
  ASSUME Plausible, IInv, [Next]_vars
  PROVE  FilterInv'
<1>. USE RateAssumption, NoiseAssumption
<1>0. count \in Int /\ jointFeedback \in Int /\ Abs(count - jointFeedback) <= M
  BY Reach DEF IInv, FilterInv, TypeOK, Abs
<1>1. CASE Period
  <2>1. /\ filter_count' = corrupt' /\ count' = count
        /\ missed' = missed /\ corrupt' = corrupt /\ pc = "period" /\ pc' = "read"
    BY <1>1 DEF Period, IInv, FilterInv, reading, noise
  <2>2. Abs(jointFeedback' - jointFeedback) <= Step /\ jointFeedback' \in Int
    <3>1. PICK b \in Int : accum' = accum + b /\ b <= PRU_base_freq /\ -b <= PRU_base_freq
      BY <1>1 DEF Period, IInv, TypeOK, Rates
    <3>2. b <= Step * ServoFreq /\ -b <= Step * ServoFreq /\ Step \in Nat
      <4>1. Step * ServoFreq \in Nat
        BY DEF Plausible
      <4>. QED
        BY <3>1, <4>1 DEF Plausible
    <3>3. accum \in Int
      BY DEF IInv, TypeOK
    <3>4. Abs((accum + b) \div ServoFreq - accum \div ServoFreq) <= Step
      BY <3>2, <3>3, CountStep
    <3>. QED
      BY <3>1, <3>3, <3>4 DEF jointFeedback
  <2>3. Age' = Age + 1 /\ Age \in Nat
    BY <2>1, Reach DEF Age, IInv, TypeOK
  <2>4. Step * Age' = Step * Age + Step
    BY <2>3 DEF Plausible
  <2>5. Abs(count - jointFeedback) <= Step * Age
    BY DEF IInv, FilterInv
  <2>6. Abs(count - jointFeedback') <= Step * Age + Step
    BY <1>0, <2>2, <2>5, Reach, Triangle DEF Plausible
  <2>. QED
    BY <2>1, <2>4, <2>6 DEF FilterInv
<1>2. CASE ReadData
  <2>1. ~Holds(jointFeedback)
    BY <1>0 DEF Holds, Abs
  <2>2. /\ count' = jointFeedback /\ filter_count' = 0 /\ missed' = 0 /\ corrupt' = 0
        /\ pc' = "update" /\ jointFeedback' = jointFeedback
    BY <1>2, <2>1 DEF ReadData, Publish, firmware, jointFeedback
  <2>3. Age' = 0
    BY <2>2 DEF Age
  <2>. QED
    BY <2>2, <2>3, <1>0 DEF FilterInv, Abs, Plausible
<1>3. CASE ReadCorrupt
  <2>1. PICK x \in {jointFeedback - Glitch, jointFeedback + Glitch} : Publish(x)
    BY <1>3 DEF ReadCorrupt
  <2>2. Abs(x - count) > M
    BY <1>0 DEF Abs, Plausible
  <2>3. filter_count < n
    BY <1>3 DEF ReadCorrupt, IInv, TypeOK, FilterInv, Plausible, n
  <2>4. /\ count' = count /\ filter_count' = filter_count + 1
        /\ corrupt' = corrupt + 1 /\ missed' = missed
        /\ pc = "read" /\ pc' = "update" /\ jointFeedback' = jointFeedback
    BY <1>3, <2>1, <2>2, <2>3 DEF ReadCorrupt, Publish, Holds, firmware, jointFeedback
  <2>5. Age' = Age
    BY <2>4 DEF Age, IInv, TypeOK
  <2>. QED
    BY <2>4, <2>5 DEF FilterInv, IInv
<1>4. CASE ReadNothing
  <2>1. /\ count' = count /\ filter_count' = filter_count
        /\ corrupt' = corrupt /\ missed' = missed + 1
        /\ pc = "read" /\ pc' = "update" /\ jointFeedback' = jointFeedback
    BY <1>4 DEF ReadNothing, firmware, jointFeedback
  <2>2. Age' = Age
    BY <2>1 DEF Age, IInv, TypeOK
  <2>. QED
    BY <2>1, <2>2 DEF FilterInv, IInv
<1>5. CASE \/ UNCHANGED pc
           \/ pc # "read" /\ pc' # "read"
  <2>1. CASE UNCHANGED <<count, filter_count, corrupt, missed, accum>>
    <3>1. Age' = Age
      BY <1>5, <2>1 DEF Age
    <3>. QED
      BY <2>1, <3>1 DEF FilterInv, IInv, jointFeedback
  <2>2. CASE ~UNCHANGED <<count, filter_count, corrupt, missed, accum>>
    BY <2>2, <1>1, <1>2, <1>3, <1>4 DEF Next, Servo, update_freq, spi_write, NotWritten, Plan, SetEnable,
       SetMaxAccel, Calm, vars, reading, firmware, noise
  <2>. QED
    BY <2>1, <2>2
<1>. QED
  BY <1>1, <1>2, <1>3, <1>4, <1>5 DEF Next, Servo, update_freq, spi_write, NotWritten, Plan, SetEnable,
     SetMaxAccel, Calm, vars

(* If M is wider than the stepper moves while the filter holds its fill and *)
(* MaxMissed packets get lost, no corrupted feedback is ever published.     *)
THEOREM SpikeTheorem ==
  ASSUME Plausible
  PROVE  Spec => []SpikesHidden
<1>1. Init => IInv
  <2>. SUFFICES ASSUME Init PROVE FilterInv
    BY TypeInit DEF IInv
  <2>1. jointFeedback = 0 /\ Age = 0
    BY RateAssumption DEF Init, jointFeedback, Age
  <2>. QED
    BY <2>1 DEF Init, FilterInv, Abs, Plausible
<1>2. IInv /\ [Next]_vars => IInv'
  BY TypeStep, FilterStep DEF IInv
<1>3. IInv => SpikesHidden
  BY Reach, NoiseAssumption DEF IInv, FilterInv, TypeOK, SpikesHidden, Abs
<1>. QED
  BY <1>1, <1>2, <1>3, PTL DEF Spec
=============================================================================
