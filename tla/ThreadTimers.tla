------------------------------ MODULE ThreadTimers ------------------------------
(***************************************************************************)
(* The timers of the three threads of core 0.  Each is a repeating alarm   *)
(* in an alarm pool of the SDK; a pool has one hardware alarm, whose       *)
(* interrupt runs the callbacks of the pool that are due, one after the    *)
(* other.  Base and servo thread share the default pool, the serial thread *)
(* gets one of its own, on the next alarm of the same timer block.         *)
(*                                                                         *)
(* Time passes in ticks: a callback that runs uses up the tick, and so     *)
(* does a flash operation of the other core, which parks this one with its *)
(* interrupts masked.                                                      *)
(***************************************************************************)
EXTENDS Integers, Sequences, FiniteSetsExt, SequencesExt

CONSTANTS
  Second,           \* ticks of a second, 1000000 in the code
  baseFreq, servoFreq, serialFreq,
  MaxWork,          \* bound: ticks one run of a thread takes
  MaxPark,          \* bound: ticks of a flash operation
  MaxParks,         \* bound: flash operations
  MaxPools          \* bound: pools made for the serial timer
CONSTANTS
  baseLate, servoLate, serialLate   \* ticks a run may be outstanding

Thread == {"base", "servo", "serial"}
ByThread(b, v, s) == [t \in Thread |-> CASE t = "base" -> b [] t = "servo" -> v [] t = "serial" -> s]

frequency == ByThread(baseFreq, servoFreq, serialFreq)
MaxLate   == ByThread(baseLate, servoLate, serialLate)

ASSUME FrequencyAssumption ==
  Second \in Nat /\ {baseFreq, servoFreq, serialFreq} \subseteq 1 .. Second
ASSUME TimerBoundsAssumption ==
  MaxWork \in Nat \ {0} /\ {MaxPark, MaxParks} \subseteq Nat /\ MaxPools \in 0 .. 3

VARIABLES
  priority,         \* of the interrupt lines
  configured,       \* the timers configTimer() was called for
  pool,             \* per timer, the alarm its pool is on
  claimed,          \* alarms of the serial timer's pools
  armed,            \* the timers that run: those with an alarm in their pool
  timerRunning,
  due,              \* ticks until the alarm, negative when it is late
  stack,            \* the callbacks under way; the last one runs
  parked,           \* ticks core 0 stays in the lockout handler
  parks,            \* history: flash operations
  phase, owed       \* history: ticks since a multiple of the period; runs not done

setup      == <<priority, configured, pool, claimed>>
running    == <<armed, timerRunning>>
grid       == <<phase, owed>>
timersVars == <<setup, running, due, stack, parked, parks, grid>>

DefaultPool == 3    \* the SDK's default pool is on the last alarm
SdkPriority == 128  \* of a line nobody configured
Lines       == 0 .. 8

(* The constructor calls of main().                                         *)
alarmNum    == ByThread(0, 1, 0)
useTimer1   == ByThread(FALSE, FALSE, TRUE)
irqPriority == ByThread(0, 64, 128)

irqNumOffByOne(t) == IF useTimer1[t] THEN 8 ELSE alarmNum[t] + 1      \* mutant
irqNum(t) == IF useTimer1[t] THEN 8 + alarmNum[t] ELSE alarmNum[t]

period_us(t) == Second \div frequency[t]

TimersInit ==
  /\ priority = [i \in Lines |-> SdkPriority] /\ configured = {}
  /\ pool = [t \in Thread |-> DefaultPool] /\ claimed = {}
  /\ armed = {} /\ timerRunning = [t \in Thread |-> FALSE]
  /\ due = [t \in Thread |-> 0] /\ stack = <<>> /\ parked = 0 /\ parks = 0
  /\ phase = [t \in Thread |-> 0] /\ owed = [t \in Thread |-> 0]

-----------------------------------------------------------------------------
Priority(t) == priority[pool[t]]

(* The interrupt of t's pool can be taken and takes t's alarm: the handler  *)
(* of a pool is not entered twice, nor by one of the same priority.         *)
Pending(t) ==
  /\ t \in armed /\ due[t] <= 0 /\ parked = 0
  /\ \A i \in DOMAIN stack : pool[stack[i].thread] # pool[t]
  /\ stack # <<>> => Priority(t) < Priority(Last(stack).thread)
  /\ \A u \in armed : pool[u] = pool[t] => due[t] <= due[u]

(* The code outside interrupts runs.                                        *)
Idle == stack = <<>> /\ parked = 0 /\ \A t \in Thread : ~Pending(t)

configTimer(t) ==
  /\ Idle /\ ~timerRunning[t] /\ t \notin configured
  /\ configured' = configured \cup {t}
  /\ priority' = [priority EXCEPT ![irqNum(t)] = irqPriority[t]]
  /\ UNCHANGED <<pool, claimed, running, due, stack, parked, parks, grid>>

(* A timer that does not use the default pool gets a new one at each start. *)
PoolOf(t) == IF useTimer1[t] THEN Min((0 .. 2) \ claimed) ELSE DefaultPool

startTimer(t) ==
  /\ Idle /\ ~timerRunning[t] /\ t \in configured
  /\ useTimer1[t] => Cardinality(claimed) < MaxPools
  /\ pool' = [pool EXCEPT ![t] = PoolOf(t)]
  /\ claimed' = IF useTimer1[t] THEN claimed \cup {PoolOf(t)} ELSE claimed
  /\ armed' = armed \cup {t} /\ timerRunning' = [timerRunning EXCEPT ![t] = TRUE]
  /\ due' = [due EXCEPT ![t] = period_us(t)]
  /\ phase' = [phase EXCEPT ![t] = 0] /\ owed' = [owed EXCEPT ![t] = 0]
  /\ UNCHANGED <<priority, configured, stack, parked, parks>>

(* The alarm is cancelled, its pool stays.                                  *)
stopTimer(t) ==
  /\ Idle /\ timerRunning[t]
  /\ armed' = armed \ {t} /\ timerRunning' = [timerRunning EXCEPT ![t] = FALSE]
  /\ due' = [due EXCEPT ![t] = 0]
  /\ phase' = [phase EXCEPT ![t] = 0] /\ owed' = [owed EXCEPT ![t] = 0]
  /\ UNCHANGED <<setup, stack, parked, parks>>

-----------------------------------------------------------------------------
(* The pool's interrupt handler calls timerCallback(), which runs the       *)
(* thread's modules.                                                        *)
timerCallback(t) ==
  /\ Pending(t)
  /\ \E w \in 1 .. MaxWork : stack' = Append(stack, [thread |-> t, left |-> w])
  /\ UNCHANGED <<setup, running, due, parked, parks, grid>>

RearmFromNow(t) == due' = [due EXCEPT ![t] = period_us(t)] /\ UNCHANGED armed   \* mutant
RearmNever(t)   == armed' = armed \ {t} /\ UNCHANGED due                        \* mutant
(* The callback returned true and the period is negative: the next target   *)
(* is a period after the last target, be that in the past.                  *)
Rearm(t) == due' = [due EXCEPT ![t] = @ + period_us(t)] /\ UNCHANGED armed

callbackReturned ==
  LET t == Last(stack).thread IN
    /\ stack # <<>> /\ parked = 0 /\ Last(stack).left = 0
    /\ stack' = Front(stack) /\ Rearm(t)
    /\ owed' = [owed EXCEPT ![t] = @ - 1]
    /\ UNCHANGED <<setup, timerRunning, parked, parks, phase>>

(* The other core programs or erases flash.                                 *)
Park ==
  /\ Idle /\ parks < MaxParks /\ parks' = parks + 1
  /\ \E n \in 1 .. MaxPark : parked' = n
  /\ UNCHANGED <<setup, running, due, stack, grid>>

Tick ==
  /\ \A t \in Thread : ~Pending(t)
  /\ IF parked > 0
       THEN parked' = parked - 1 /\ UNCHANGED stack
       ELSE /\ UNCHANGED parked
            /\ \/ stack = <<>> /\ UNCHANGED stack
               \/ /\ stack # <<>> /\ Last(stack).left > 0
                  /\ stack' = [stack EXCEPT ![Len(stack)].left = @ - 1]
  /\ due'   = [t \in Thread |-> IF t \in armed THEN due[t] - 1 ELSE due[t]]
  /\ phase' = [t \in Thread |-> IF t \in armed THEN (phase[t] + 1) % period_us(t) ELSE 0]
  /\ owed'  = [t \in Thread |-> IF t \in armed /\ phase'[t] = 0 THEN owed[t] + 1 ELSE owed[t]]
  /\ UNCHANGED <<setup, running, parks>>

-----------------------------------------------------------------------------
TimersNext ==
  \/ \E t \in Thread : configTimer(t) \/ startTimer(t) \/ stopTimer(t) \/ timerCallback(t)
  \/ callbackReturned \/ Park \/ Tick

(* Time passes, interrupts are taken, and callbacks return.                 *)
TimersFairness ==
  /\ WF_timersVars(Tick) /\ WF_timersVars(callbackReturned)
  /\ \A t \in Thread : WF_timersVars(timerCallback(t))

TimersSpec == TimersInit /\ [][TimersNext]_timersVars /\ TimersFairness

-----------------------------------------------------------------------------
(* Every multiple of a thread's period since its start gets its run, none   *)
(* is merged with another or drifts, however late the runs are: the next    *)
(* target is kept on the grid.                                              *)
NoRunLost ==
  \A t \in armed : due[t] = (1 - owed[t]) * period_us(t) - phase[t]

(* No run is outstanding for longer than one run of the other thread of its *)
(* pool, those of the thread that interrupts it, and a flash operation take.*)
RunsInTime == \A t \in armed : due[t] >= -MaxLate[t]

(* A started thread keeps running, and catches up with its period again and *)
(* again.                                                                   *)
KeepsUp == \A t \in Thread : []<>(~timerRunning[t] \/ (t \in armed /\ due[t] > 0))

(* "Base thread ... IRQ priority 0 (highest)": no other thread runs while   *)
(* the base thread is due.                                                  *)
BaseFirst == owed["base"] > 0 /\ stack # <<>> => Last(stack).thread = "base"
=============================================================================
