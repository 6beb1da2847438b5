------------------------------- MODULE SpiDriver -------------------------------
(***************************************************************************)
(* The realtime functions of the LinuxCNC driver remora-spi.c, for one     *)
(* joint in position mode: spi_read, update_freq and spi_write, called in  *)
(* this order by the servo thread, and the stepper they drive.             *)
(*                                                                         *)
(* Lengths are in counts (position units times |pos_scale|), rates in      *)
(* counts per second, and a second has ServoFreq servo periods, so that    *)
(* the driver's floating point becomes integer.  The step generator of the *)
(* firmware counts 1/ServoFreq of its rate per period.                     *)
(*                                                                         *)
(* remora-eth-3.0.c has the same update_freq, but for the sign of its      *)
(* default deadband (AbsDeadband), and the same spike filter.              *)
(***************************************************************************)
EXTENDS Integers

CONSTANTS
  ServoFreq,     \* recip_dt
  PRU_base_freq,
  Sign,          \* of pos_scale: -1 for an axis that is mounted reversed
  AbsDeadband,   \* TRUE: remora-eth, FALSE: remora-spi
  pgain,
  MaxAccel,      \* values maxaccel is set to, as rate per period, 0: no limit
  Command,       \* positions LinuxCNC asks for
  M,             \* a change of the feedback above this one is a spike
  Glitch,        \* how far a corrupted feedback is off
  MaxMissed,     \* bound: periods without a feedback, between good ones
  MaxCorrupt     \* bound: corrupted feedbacks between good ones

ASSUME RateAssumption ==
  /\ ServoFreq \in Nat \ {0} /\ PRU_base_freq \in Nat \ {0} /\ pgain \in Nat \ {0}
ASSUME SignAssumption == Sign \in {1, -1} /\ AbsDeadband \in BOOLEAN
ASSUME ParamAssumption ==
  /\ MaxAccel \subseteq Nat /\ Command \subseteq Int
  /\ 0 \in Command
ASSUME NoiseAssumption == M \in Nat /\ Glitch \in Nat /\ MaxMissed \in Nat /\ MaxCorrupt \in Nat

VARIABLES
  pc,                                   \* the servo thread
  stepperEnable, pos_cmd,               \* HAL pins
  maxaccel,                             \* HAL parameter
  SPIstatus, count, filter_count,       \* spi_read
  prev_cmd, freq,                       \* update_freq
  jointFreqCmd, jointEnable, accum,     \* the firmware
  calm, missed, corrupt, written, slack \* environment and history

pins     == <<stepperEnable, pos_cmd>>
reading  == <<SPIstatus, count, filter_count>>
stepgen  == <<prev_cmd, freq>>
firmware == <<jointFreqCmd, jointEnable, accum>>
noise    == <<missed, corrupt, written>>
vars     == <<pc, pins, maxaccel, reading, stepgen, firmware, calm, noise, slack>>

Abs(x)        == IF x < 0 THEN -x ELSE x
Least(x, y)   == IF x < y THEN x ELSE y
Limit(x, l, h) == IF x < l THEN l ELSE IF x > h THEN h ELSE x

n == 2                                  \* spikes in a row the filter holds back
jointFeedback == accum \div ServoFreq   \* what the firmware counts

Init ==
  /\ pc = "period" /\ stepperEnable = FALSE /\ pos_cmd = 0
  /\ maxaccel \in MaxAccel
  /\ SPIstatus = FALSE /\ count = 0 /\ filter_count = 0
  /\ prev_cmd = 0 /\ freq = 0
  /\ jointFreqCmd = 0 /\ jointEnable = FALSE /\ accum = 0
  /\ calm = FALSE /\ missed = 0 /\ corrupt = 0 /\ written = TRUE /\ slack = 0

-----------------------------------------------------------------------------
(* The firmware steps for one servo period. *)
Period ==
  /\ pc = "period" /\ pc' = "read"
  /\ accum' = IF jointEnable THEN accum + jointFreqCmd ELSE accum
  /\ UNCHANGED <<pins, maxaccel, reading, stepgen, jointFreqCmd, jointEnable, calm, noise, slack>>

-----------------------------------------------------------------------------
(* spi_read() *)

HoldsOnce(x) == Abs(x - count) > M /\ filter_count < n - 1    \* mutant
Holds(x) == Abs(x - count) > M /\ filter_count < n

Publish(x) ==
  /\ SPIstatus' = TRUE
  /\ IF Holds(x)
       THEN filter_count' = filter_count + 1 /\ UNCHANGED count
       ELSE filter_count' = 0 /\ count' = x

ReadData ==
  /\ pc = "read" /\ pc' = "update"
  /\ Publish(jointFeedback)
  /\ missed' = 0 /\ corrupt' = 0
  /\ UNCHANGED <<pins, maxaccel, stepgen, firmware, calm, written, slack>>

ReadCorrupt ==
  /\ pc = "read" /\ pc' = "update"
  /\ ~calm /\ corrupt < MaxCorrupt
  /\ \E x \in {jointFeedback - Glitch, jointFeedback + Glitch} : Publish(x)
  /\ corrupt' = corrupt + 1
  /\ UNCHANGED <<pins, maxaccel, stepgen, firmware, calm, missed, written, slack>>

(* SPIenable is off, or the header is PRU_ESTOP or unknown. *)
ReadNothing ==
  /\ pc = "read" /\ pc' = "update"
  /\ ~calm /\ missed < MaxMissed
  /\ SPIstatus' = FALSE /\ UNCHANGED <<count, filter_count>>
  /\ missed' = missed + 1
  /\ UNCHANGED <<pins, maxaccel, stepgen, firmware, calm, corrupt, written, slack>>

-----------------------------------------------------------------------------
(* update_freq() *)

(* maxvel is not exported as a parameter and stays zero. *)
max_freq == PRU_base_freq
dv       == IF maxaccel = 0 THEN max_freq ELSE Least(maxaccel, max_freq)

pos_fb == Sign * count
SignedDeadband == Sign                                        \* mutant
deadband == IF AbsDeadband THEN 1 ELSE Sign

Deadbanded(e) ==
  IF e > deadband THEN e - deadband ELSE IF e < -deadband THEN e + deadband ELSE 0

vel_cmd == Sign * (pgain * Deadbanded(pos_cmd - pos_fb) + (pos_cmd - prev_cmd) * ServoFreq)

NoFreqLimit == vel_cmd                                        \* mutant
FreqLimited == Limit(vel_cmd, -max_freq, max_freq)

BrakesAtOnce(v) == IF v > freq + dv THEN freq + dv ELSE v     \* mutant
AccelLimited(v) == Limit(v, freq - dv, freq + dv)

(* The driver tests the address of joint 0's pin, which is never null.      *)
Disabled == FALSE

update_freq ==
  /\ pc = "update" /\ pc' = "write"
  /\ maxaccel' = Least(maxaccel, max_freq)
  /\ prev_cmd' = pos_cmd
  /\ freq' = IF Disabled THEN 0 ELSE AccelLimited(FreqLimited)
  /\ slack' = Least(slack + dv, 2 * PRU_base_freq)
  /\ UNCHANGED <<pins, reading, firmware, calm, noise>>

-----------------------------------------------------------------------------
(* spi_write(): only after a good read, and the packet may arrive corrupted,  *)
(* though never two in a row.                                                *)

spi_write ==
  /\ pc = "write" /\ pc' = "period"
  /\ SPIstatus
  /\ jointFreqCmd' = freq /\ jointEnable' = stepperEnable /\ slack' = 0
  /\ written' = TRUE
  /\ UNCHANGED <<pins, maxaccel, reading, stepgen, accum, calm, missed, corrupt>>

NotWritten ==
  /\ pc = "write" /\ pc' = "period"
  /\ SPIstatus => ~calm /\ written
  /\ written' = FALSE
  /\ UNCHANGED <<pins, maxaccel, reading, stepgen, firmware, calm, missed, corrupt, slack>>

-----------------------------------------------------------------------------
(* LinuxCNC: pins change before spi_read, the command and the parameters    *)
(* after it.                                                                *)

Plan ==
  /\ pc = "update" /\ ~calm
  /\ \E c \in Command :
       /\ c # pos_cmd /\ Abs(c - prev_cmd) * ServoFreq <= PRU_base_freq
       /\ pos_cmd' = c
  /\ UNCHANGED <<pc, stepperEnable, maxaccel, reading, stepgen, firmware, calm, noise, slack>>

SetEnable ==
  /\ pc = "read" /\ ~calm
  /\ stepperEnable' = ~stepperEnable
  /\ UNCHANGED <<pc, pos_cmd, maxaccel, reading, stepgen, firmware, calm, noise, slack>>

SetMaxAccel ==
  /\ pc = "update" /\ ~calm
  /\ maxaccel' \in MaxAccel
  /\ UNCHANGED <<pc, pins, reading, stepgen, firmware, calm, noise, slack>>

(* From now on nothing changes, everything is enabled, nothing is corrupted. *)
Calm ==
  /\ pc = "update" /\ ~calm /\ stepperEnable /\ calm' = TRUE
  /\ UNCHANGED <<pc, pins, maxaccel, reading, stepgen, firmware, noise, slack>>

Servo == Period \/ ReadData \/ update_freq \/ spi_write

Next ==
  \/ Servo \/ ReadCorrupt \/ ReadNothing \/ NotWritten
  \/ Plan \/ SetEnable \/ SetMaxAccel \/ Calm

Spec == Init /\ [][Next]_vars /\ WF_vars(Servo) /\ WF_vars(NotWritten)

-----------------------------------------------------------------------------
Rates == -PRU_base_freq .. PRU_base_freq

TypeOK ==
  /\ pc \in {"period", "read", "update", "write"}
  /\ stepperEnable \in BOOLEAN /\ pos_cmd \in Command
  /\ maxaccel \in Nat
  /\ SPIstatus \in BOOLEAN /\ count \in Int /\ filter_count \in 0 .. n
  /\ prev_cmd \in Command /\ freq \in Rates
  /\ jointFreqCmd \in Rates /\ jointEnable \in BOOLEAN /\ accum \in Int
  /\ calm \in BOOLEAN /\ missed \in 0 .. MaxMissed /\ corrupt \in 0 .. MaxCorrupt /\ written \in BOOLEAN
  /\ slack \in 0 .. 2 * PRU_base_freq

(* "Spike filter": as long as no more corrupted feedbacks come in a row     *)
(* than it holds back, none is published: the count LinuxCNC sees is never  *)
(* further than a plausible change from where the stepper is.               *)
SpikesHidden == Abs(count - jointFeedback) <= M

(* The firmware is never told to change its rate by more than the           *)
(* acceleration limit allows for the periods since it was last told,        *)
(* however many packets got lost.                                           *)
RateLag == Abs(freq - jointFreqCmd) <= slack

(* "apply the deadband": when LinuxCNC asks for no further motion and the   *)
(* link is good, the stepper comes to rest on the commanded count, give or  *)
(* take one.                                                                *)
AtRest  == freq = 0 /\ Abs(pos_cmd - Sign * jointFeedback) <= 1
Settles == calm ~> []AtRest
=============================================================================
