------------------------------ MODULE Core0_proofs ------------------------------
(***************************************************************************)
(* Proofs about the two components that live on the interrupts of core 0.  *)
(*                                                                         *)
(* QuadratureEncoder, for a FIFO of any depth, a counter of any width and  *)
(* any number of interruptions: get() never returns an old count, and the  *)
(* count follows the shaft.                                                *)
(*                                                                         *)
(* ThreadTimers, for any frequencies, run times and flash operations: a    *)
(* thread's runs stay on the grid of its period, and, unless the core is   *)
(* overloaded, none waits for longer than the longest busy period.         *)
(***************************************************************************)
EXTENDS QuadratureEncoder, ThreadTimers, TLAPS

Step == {"idle", "level", "take", "done"}

GetType ==
  /\ fifo \in Seq(SUBSET Reader)
  /\ call \in [Reader -> Step] /\ left \in [Reader -> Int] /\ ret \in [Reader -> SUBSET Reader]
  /\ indexDetected \in BOOLEAN

(* The counts older than a call are at the front of the FIFO, and it takes  *)
(* at least one more than there are: an interruption only takes some too.   *)
TakesMore ==
  \A r \in Reader : call[r] = "take" =>
    \A i \in 1 .. Len(fifo) : r \in fifo[i] => i < left[r]

FreshInv == GetType /\ TakesMore /\ FreshCount

-----------------------------------------------------------------------------
LEMMA QueueItems ==
  ASSUME NEW S, NEW s \in Seq(S)
  PROVE  /\ \A x \in S : Append(s, x) \in Seq(S) /\ Len(Append(s, x)) = Len(s) + 1
         /\ \A x \in S, i \in 1 .. Len(s) + 1 : Append(s, x)[i] = IF i <= Len(s) THEN s[i] ELSE x
         /\ s # <<>> => /\ Head(s) = s[1] /\ Head(s) \in S
                        /\ Tail(s) \in Seq(S) /\ Len(Tail(s)) = Len(s) - 1 /\ Len(s) > 0
                        /\ \A i \in 1 .. Len(s) - 1 : Tail(s)[i] = s[i + 1]
         /\ Len(s) \in Nat
OBVIOUS

LEMMA FreshInit == Init => FreshInv
<1>. SUFFICES ASSUME Init PROVE FreshInv
  OBVIOUS
<1>1. GetType
  <2>1. fifo = <<>> /\ indexDetected = FALSE
    BY DEF Init
  <2>2. <<>> \in Seq(SUBSET Reader)
    OBVIOUS
  <2>3. call \in [Reader -> Step] /\ left \in [Reader -> Int] /\ ret \in [Reader -> SUBSET Reader]
    BY DEF Init, Step
  <2>. QED
    BY <2>1, <2>2, <2>3 DEF GetType
<1>2. TakesMore /\ FreshCount
  BY DEF Init, TakesMore, FreshCount
<1>. QED
  BY <1>1, <1>2 DEF FreshInv

(* A step that leaves the FIFO alone and where the calls are.               *)
LEMMA FreshSame ==
  ASSUME FreshInv, UNCHANGED <<fifo, call, left, ret>>,
         indexDetected' \in BOOLEAN
  PROVE  FreshInv'
BY DEF FreshInv, GetType, TakesMore, FreshCount

(* The program adds a count at the back.                                    *)
LEMMA FreshPush ==
  ASSUME FreshInv, Push
  PROVE  FreshInv'
<1>1. UNCHANGED <<call, left, ret, indexDetected>>
  BY DEF Push, index
<1>2. CASE fifo' = fifo
  BY <1>1, <1>2, FreshSame DEF FreshInv, GetType
<1>3. CASE fifo' = Append(fifo, {})
  <2>1. {} \in SUBSET Reader /\ fifo \in Seq(SUBSET Reader)
    BY DEF FreshInv, GetType
  <2>2. GetType'
    BY <1>1, <1>3, <2>1, QueueItems DEF FreshInv, GetType
  <2>3. ASSUME NEW r \in Reader, call[r] = "take", NEW i \in 1 .. Len(fifo'), r \in fifo'[i]
        PROVE  i < left[r]
    <3>1. i \in 1 .. Len(fifo) + 1 /\ Len(fifo) \in Nat
      BY <1>3, <2>1, QueueItems
    <3>2. fifo'[i] = IF i <= Len(fifo) THEN fifo[i] ELSE {}
      BY <1>3, <2>1, <3>1, QueueItems
    <3>3. i \in 1 .. Len(fifo) /\ r \in fifo[i]
      BY <2>3, <3>1, <3>2
    <3>. QED
      BY <2>3, <3>3 DEF FreshInv, TakesMore
  <2>4. TakesMore' /\ FreshCount'
    BY <1>1, <2>3 DEF FreshInv, TakesMore, FreshCount
  <2>. QED
    BY <2>2, <2>4 DEF FreshInv
<1>. QED
  BY <1>2, <1>3 DEF Push, PushNoblock

LEMMA FreshBegin ==
  ASSUME FreshInv, NEW r \in Reader, Begin(r), indexDetected' \in BOOLEAN
  PROVE  FreshInv'
<1>1. call' = [call EXCEPT ![r] = "level"] /\ UNCHANGED <<fifo, left, ret>>
  BY DEF Begin, Goto
<1>2. GetType'
  BY <1>1 DEF FreshInv, GetType, Step
<1>3. TakesMore' /\ FreshCount'
  BY <1>1 DEF FreshInv, GetType, TakesMore, FreshCount
<1>. QED
  BY <1>2, <1>3 DEF FreshInv

(* All counts are older than this call now, and it takes one more.          *)
LEMMA FreshLevel ==
  ASSUME FreshInv, NEW r \in Reader, Level(r)
  PROVE  FreshInv'
<1>1. /\ call[r] = "level" /\ UNCHANGED <<ret, indexDetected>>
      /\ left' = [left EXCEPT ![r] = Len(fifo) + 1]
      /\ fifo' = [i \in DOMAIN fifo |-> fifo[i] \cup {r}]
  BY DEF Level, ToTake, index
<1>2. fifo \in Seq(SUBSET Reader) /\ Len(fifo) \in Nat /\ DOMAIN fifo = 1 .. Len(fifo)
  BY DEF FreshInv, GetType
<1>3. call' = [call EXCEPT ![r] = "take"]
  <2>1. ToTake > 0
    BY <1>2 DEF ToTake
  <2>. QED
    BY <2>1 DEF Level, Goto
<1>4. fifo' \in Seq(SUBSET Reader) /\ Len(fifo') = Len(fifo)
  BY <1>1, <1>2
<1>5. GetType'
  BY <1>1, <1>2, <1>3, <1>4 DEF FreshInv, GetType, Step
<1>6. ASSUME NEW q \in Reader, call'[q] = "take", NEW i \in 1 .. Len(fifo'), q \in fifo'[i]
      PROVE  i < left'[q]
  <2>1. CASE q = r
    BY <1>1, <1>2, <1>4, <2>1 DEF FreshInv, GetType
  <2>2. CASE q # r
    <3>1. call[q] = "take" /\ left'[q] = left[q]
      BY <1>1, <1>3, <1>6, <2>2 DEF FreshInv, GetType
    <3>2. i \in 1 .. Len(fifo) /\ q \in fifo[i]
      BY <1>1, <1>2, <1>4, <1>6, <2>2
    <3>. QED
      BY <3>1, <3>2 DEF FreshInv, TakesMore
  <2>. QED
    BY <2>1, <2>2
<1>7. TakesMore' /\ FreshCount'
  BY <1>1, <1>3, <1>6 DEF FreshInv, GetType, TakesMore, FreshCount
<1>. QED
  BY <1>5, <1>7 DEF FreshInv

(* Every count moves one forward; the last one taken is not an old one.     *)
LEMMA FreshTake ==
  ASSUME FreshInv, NEW r \in Reader, Take(r)
  PROVE  FreshInv'
<1>1. /\ call[r] = "take" /\ fifo # <<>> /\ fifo' = Tail(fifo)
      /\ ret' = [ret EXCEPT ![r] = Head(fifo)] /\ left' = [left EXCEPT ![r] = left[r] - 1]
      /\ UNCHANGED <<indexDetected>>
      /\ call' = IF left[r] = 1 THEN [call EXCEPT ![r] = "done"] ELSE call
  BY DEF Take, Goto, index
<1>2. /\ fifo \in Seq(SUBSET Reader) /\ left \in [Reader -> Int] /\ call \in [Reader -> Step]
      /\ Len(fifo) \in Nat /\ Len(fifo) > 0 /\ Head(fifo) = fifo[1] /\ Head(fifo) \in SUBSET Reader
      /\ fifo' \in Seq(SUBSET Reader) /\ Len(fifo') = Len(fifo) - 1
      /\ \A i \in 1 .. Len(fifo) - 1 : fifo'[i] = fifo[i + 1]
  BY <1>1, QueueItems DEF FreshInv, GetType
<1>3. GetType'
  BY <1>1, <1>2 DEF FreshInv, GetType, Step
<1>4. ASSUME NEW q \in Reader, call'[q] = "take", NEW i \in 1 .. Len(fifo'), q \in fifo'[i]
      PROVE  i < left'[q]
  <2>1. call[q] = "take"
    BY <1>1, <1>2, <1>4
  <2>2. i + 1 \in 1 .. Len(fifo) /\ q \in fifo[i + 1]
    BY <1>2, <1>4
  <2>3. i + 1 < left[q]
    BY <2>1, <2>2 DEF FreshInv, TakesMore
  <2>4. left'[q] >= left[q] - 1 /\ left[q] \in Int /\ left'[q] \in Int
    BY <1>1, <1>2
  <2>. QED
    BY <1>2, <2>2, <2>3, <2>4
<1>5. ASSUME NEW q \in Reader, call'[q] = "done"
      PROVE  q \notin ret'[q]
  <2>1. CASE q = r
    <3>1. left[r] = 1
      BY <1>1, <1>2, <1>5, <2>1
    <3>2. r \notin fifo[1]
      BY <1>1, <1>2, <3>1 DEF FreshInv, TakesMore
    <3>. QED
      BY <1>1, <1>2, <2>1, <3>2 DEF FreshInv, GetType
  <2>2. CASE q # r
    BY <1>1, <1>2, <1>5, <2>2 DEF FreshInv, GetType, FreshCount
  <2>. QED
    BY <2>1, <2>2
<1>6. TakesMore' /\ FreshCount'
  BY <1>4, <1>5 DEF TakesMore, FreshCount
<1>. QED
  BY <1>3, <1>6 DEF FreshInv

LEMMA FreshReturn ==
  ASSUME FreshInv, NEW r \in Reader, Return(r)
  PROVE  FreshInv'
<1>1. /\ call' = [call EXCEPT ![r] = "idle"] /\ ret' = [ret EXCEPT ![r] = {}]
      /\ UNCHANGED <<fifo, left>> /\ indexDetected' \in BOOLEAN
  BY DEF Return, Goto, FreshInv, GetType
<1>2. GetType'
  BY <1>1 DEF FreshInv, GetType, Step
<1>3. TakesMore' /\ FreshCount'
  BY <1>1 DEF FreshInv, GetType, TakesMore, FreshCount
<1>. QED
  BY <1>2, <1>3 DEF FreshInv

LEMMA FreshStep == FreshInv /\ [Next]_vars => FreshInv'
<1>. SUFFICES ASSUME FreshInv, [Next]_vars PROVE FreshInv'
  OBVIOUS
<1>. USE DEF FreshInv, GetType
<1>1. CASE (\E d \in {-1, 1} : Turn(d)) \/ Sample \/ IndexPulse \/ UNCHANGED vars
  <2>1. UNCHANGED <<fifo, call, left, ret, indexDetected>>
    BY <1>1 DEF Turn, Sample, IndexPulse, vars, index
  <2>. QED
    BY <2>1, FreshSame
<1>2. CASE Push
  BY <1>2, FreshPush
<1>3. CASE ServoTick \/ handleIndexInterrupt
  <2>1. indexDetected' \in BOOLEAN /\ \E r \in Reader : Begin(r)
    BY <1>3 DEF ServoTick, handleIndexInterrupt, index, Reader
  <2>. QED
    BY <2>1, FreshBegin
<1>4. CASE \E r \in Reader : get(r)
  BY <1>4, FreshLevel, FreshTake, FreshReturn DEF get
<1>. QED
  BY <1>1, <1>2, <1>3, <1>4 DEF Next

(* get() never returns a count from before it was called, in a FIFO of any  *)
(* depth, however often the index interrupt and the servo thread drain it   *)
(* in each other's calls.                                                   *)
THEOREM FreshCountTheorem == Spec => []FreshCount
<1>1. FreshInv => FreshCount
  BY DEF FreshInv
<1>. QED
  BY <1>1, FreshInit, FreshStep, PTL DEF Spec

-----------------------------------------------------------------------------
(* Sums modulo W.                                                           *)
LEMMA Division ==
  ASSUME NEW M \in Nat \ {0}, NEW z \in Int
  PROVE  z = M * (z \div M) + (z % M) /\ z % M \in 0 .. M - 1 /\ z \div M \in Int
<1>. DEFINE d == z \div M
            r == z % M
<1>1. z = M * d + r /\ r \in 0 .. M - 1 /\ d \in Int
  OBVIOUS
<1>. QED
  BY <1>1

(* Two numbers below M apart by a multiple of M are the same.               *)
LEMMA MultipleBelow ==
  ASSUME NEW M \in Nat \ {0}, NEW k \in Int, NEW r \in 0 .. M - 1, NEW s \in 0 .. M - 1,
         s - r = M * k
  PROVE  s = r
<1>1. CASE k >= 1
  <2>1. M * k >= M
    BY <1>1
  <2>. QED
    BY <2>1
<1>2. CASE k <= -1
  <2>1. M * k <= -M
    BY <1>2
  <2>. QED
    BY <2>1
<1>3. CASE k = 0
  BY <1>3
<1>. QED
  BY <1>1, <1>2, <1>3

LEMMA ModUnique ==
  ASSUME NEW M \in Nat \ {0}, NEW q \in Int, NEW r \in 0 .. M - 1
  PROVE  (M * q + r) % M = r
<1>. DEFINE z == M * q + r
            d == z \div M
            s == z % M
<1>1. z \in Int
  OBVIOUS
<1>. HIDE DEF z
<1>2. z = M * d + s /\ s \in 0 .. M - 1 /\ d \in Int
  BY <1>1, Division
<1>. HIDE DEF d, s
<1>3. M * (q - d) = M * q - M * d /\ q - d \in Int
  BY <1>2
<1>4. s - r = M * (q - d)
  BY <1>1, <1>2, <1>3 DEF z
<1>5. s = r
  BY <1>2, <1>3, <1>4, MultipleBelow
<1>. QED
  BY <1>5 DEF s, z

LEMMA ModRange == ASSUME NEW M \in Nat \ {0}, NEW a \in Int PROVE a % M \in 0 .. M - 1
OBVIOUS

LEMMA ModAdd ==
  ASSUME NEW M \in Nat \ {0}, NEW a \in Int, NEW b \in Int
  PROVE  ((a % M) + b) % M = (a + b) % M
<1>. DEFINE k == a \div M
            r == a % M
            c == r + b
            l == c \div M
            s == c % M
<1>1. a = M * k + r /\ r \in 0 .. M - 1 /\ k \in Int
  BY Division
<1>. HIDE DEF k, r
<1>2. c \in Int
  BY <1>1
<1>. HIDE DEF c
<1>3. c = M * l + s /\ s \in 0 .. M - 1 /\ l \in Int
  BY <1>2, Division
<1>. HIDE DEF l, s
<1>4. M * (k + l) = M * k + M * l /\ k + l \in Int
  BY <1>1, <1>3
<1>5. a + b = M * (k + l) + s
  BY <1>1, <1>3, <1>4 DEF c
<1>6. (M * (k + l) + s) % M = s
  BY <1>3, <1>4, ModUnique
<1>. QED
  BY <1>5, <1>6 DEF s, c, r

LEMMA ModSmall == ASSUME NEW M \in Nat \ {0}, NEW a \in 0 .. M - 1 PROVE a % M = a
OBVIOUS

(* A shift by W leaves the pins alone.                                      *)
LEMMA PinsShift ==
  ASSUME NEW p \in Int
  PROVE  (p + W) % 4 = p % 4 /\ (p - W) % 4 = p % 4
<1>1. W = 4 * (W \div 4) /\ W \div 4 \in Int
  BY WidthAssumption
<1>. DEFINE k == W \div 4
<1>. HIDE DEF k
<1>2. k \in Int /\ W = 4 * k
  BY <1>1 DEF k
<1>. QED
  BY <1>2

(* One pass of the program counts one edge, in either direction.            *)
LEMMA CountedEdge ==
  ASSUME NEW p \in Int, NEW m \in {-1, 0, 1}
  PROVE  Counted(Pins(p - m), Pins(p)) = m
<1>1. p % 4 \in {0, 1, 2, 3}
  OBVIOUS
<1>2. /\ p % 4 = 0 => Pins(p) = 0
      /\ p % 4 = 1 => Pins(p) = 2
      /\ p % 4 = 2 => Pins(p) = 3
      /\ p % 4 = 3 => Pins(p) = 1
  BY DEF Pins
<1>3. /\ (p - m) % 4 = 0 => Pins(p - m) = 0
      /\ (p - m) % 4 = 1 => Pins(p - m) = 2
      /\ (p - m) % 4 = 2 => Pins(p - m) = 3
      /\ (p - m) % 4 = 3 => Pins(p - m) = 1
  BY DEF Pins
<1>4. CASE m = 0
  BY <1>1, <1>2, <1>3, <1>4 DEF Counted, Increment, Decrement
<1>5. CASE m = 1
  <2>1. (p - m) % 4 = IF p % 4 = 0 THEN 3 ELSE (p % 4) - 1
    BY <1>5
  <2>. QED
    BY <1>1, <1>2, <1>3, <1>5, <2>1 DEF Counted, Increment, Decrement
<1>6. CASE m = -1
  <2>1. (p - m) % 4 = IF p % 4 = 3 THEN 0 ELSE (p % 4) + 1
    BY <1>6
  <2>. QED
    BY <1>1, <1>2, <1>3, <1>6, <2>1 DEF Counted, Increment, Decrement
<1>. QED
  BY <1>4, <1>5, <1>6

LEMMA CountedRange == \A old, new : Counted(old, new) \in {-1, 0, 1}
BY DEF Counted

CountType == position \in Count /\ y \in Count /\ moved \in Int /\ origin \in 0 .. W

(* The program last saw the pins of where the shaft was then.               *)
SampleInv == origin # Unknown => osr = Pins(position - moved)

CountInv == CountType /\ SampleInv /\ CountFollows

LEMMA CountTurn ==
  ASSUME CountInv, NEW d \in {-1, 1}, Turn(d)
  PROVE  CountInv'
<1>1. /\ position' = (position + d) % W /\ moved' = moved + d
      /\ UNCHANGED <<y, osr, origin>>
  BY DEF Turn, program
<1>2. W \in Nat \ {0} /\ position \in 0 .. W - 1 /\ moved \in Int /\ y \in 0 .. W - 1 /\ origin \in 0 .. W
  BY WidthAssumption DEF CountInv, CountType, Count
<1>3. CountType'
  BY <1>1, <1>2, ModRange DEF CountType, Count
<1>4. position' \in {position + d, position + d - W, position + d + W}
  <2>1. CASE position + d \in 0 .. W - 1
    BY <1>1, <1>2, <2>1
  <2>2. CASE position + d = W
    <3>1. position' = 0
      BY <1>1, <1>2, <2>2
    <3>. QED
      BY <1>2, <2>2, <3>1
  <2>3. CASE position + d = -1
    <3>1. W * (-1) + (W - 1) = -1 /\ W - 1 \in 0 .. W - 1 /\ -1 \in Int
      BY <1>2
    <3>2. (W * (-1) + (W - 1)) % W = W - 1
      BY <1>2, <3>1, ModUnique
    <3>3. position' = W - 1
      BY <1>1, <2>3, <3>1, <3>2
    <3>. QED
      BY <1>2, <2>3, <3>3
  <2>. QED
    BY <1>2, <2>1, <2>2, <2>3
<1>5. (position' - moved') % 4 = (position - moved) % 4
  <2>. DEFINE p == position - moved
  <2>1. position' - moved' \in {p, p - W, p + W} /\ p \in Int
    BY <1>1, <1>2, <1>4
  <2>. HIDE DEF p
  <2>2. (position' - moved') % 4 = p % 4
    BY <2>1, PinsShift
  <2>. QED
    BY <2>2 DEF p
<1>6. SampleInv'
  BY <1>1, <1>5 DEF CountInv, SampleInv, Pins
<1>7. CountFollows'
  <2>. SUFFICES ASSUME origin # Unknown PROVE (y + origin + (moved + d)) % W = (position + d) % W
    BY <1>1 DEF CountFollows
  <2>1. (y + origin + moved) % W = position
    BY DEF CountInv, CountFollows
  <2>2. (((y + origin + moved) % W) + d) % W = (y + origin + moved + d) % W
    <3>. DEFINE a == y + origin + moved
    <3>1. a \in Int /\ d \in Int
      BY <1>2
    <3>. HIDE DEF a
    <3>2. ((a % W) + d) % W = (a + d) % W
      BY <1>2, <3>1, ModAdd
    <3>. QED
      BY <3>2 DEF a
  <2>3. y + origin + (moved + d) = y + origin + moved + d
    BY <1>2
  <2>. QED
    BY <2>1, <2>2, <2>3
<1>. QED
  BY <1>3, <1>6, <1>7 DEF CountInv

LEMMA CountSample ==
  ASSUME CountInv, Sample
  PROVE  CountInv'
<1>. DEFINE c  == Counted(osr, Pins(position))
            y1 == (y + c) % W
<1>1. /\ y' = y1 /\ osr' = Pins(position) /\ moved' = 0 /\ position' = position
      /\ origin' = IF origin = Unknown \/ moved \notin {-1, 0, 1} THEN (position - y1) % W ELSE origin
  BY DEF Sample
<1>2. W \in Nat \ {0} /\ position \in 0 .. W - 1 /\ moved \in Int /\ y \in 0 .. W - 1 /\ origin \in 0 .. W
  BY WidthAssumption DEF CountInv, CountType, Count
<1>3. c \in {-1, 0, 1}
  BY CountedRange
<1>4. origin # Unknown /\ moved \in {-1, 0, 1} => c = moved
  BY <1>2, CountedEdge DEF CountInv, SampleInv
<1>. HIDE DEF c
<1>5. y1 \in 0 .. W - 1 /\ y + c \in Int
  BY <1>2, <1>3, ModRange
<1>6. CASE origin = Unknown \/ moved \notin {-1, 0, 1}
  <2>1. origin' = (position - y1) % W
    BY <1>1, <1>6
  <2>. HIDE DEF y1
  <2>2. position - y1 \in Int /\ origin' \in 0 .. W - 1
    BY <1>2, <1>5, <2>1, ModRange
  <2>3. (origin' + y1) % W = ((position - y1) + y1) % W
    <3>. DEFINE a == position - y1
    <3>1. a \in Int /\ y1 \in Int
      BY <1>2, <1>5
    <3>. HIDE DEF a
    <3>2. ((a % W) + y1) % W = (a + y1) % W
      BY <1>2, <3>1, ModAdd
    <3>. QED
      BY <2>1, <3>2 DEF a
  <2>4. (position - y1) + y1 = position /\ origin' + y1 = y1 + origin' + 0
    BY <1>2, <1>5, <2>2
  <2>5. position % W = position
    BY <1>2, ModSmall
  <2>6. (y1 + origin' + 0) % W = position
    BY <2>3, <2>4, <2>5
  <2>7. CountFollows'
    BY <1>1, <2>6 DEF CountFollows
  <2>8. position - 0 = position
    BY <1>2
  <2>9. SampleInv'
    BY <1>1, <2>8 DEF SampleInv
  <2>10. CountType'
    BY <1>1, <1>2, <1>5, <2>2 DEF CountType, Count
  <2>. QED
    BY <2>7, <2>9, <2>10 DEF CountInv
<1>7. CASE origin # Unknown /\ moved \in {-1, 0, 1}
  <2>1. origin' = origin /\ c = moved
    BY <1>1, <1>4, <1>7
  <2>2. (y1 + origin) % W = (y + c + origin) % W
    <3>. DEFINE a == y + c
    <3>1. a \in Int /\ origin \in Int
      BY <1>2, <1>5
    <3>. HIDE DEF a
    <3>2. ((a % W) + origin) % W = (a + origin) % W
      BY <1>2, <3>1, ModAdd
    <3>. QED
      BY <3>2 DEF a
  <2>. HIDE DEF y1
  <2>3. y + c + origin = y + origin + moved /\ y1 + origin = y1 + origin + 0
    BY <1>2, <1>5, <2>1
  <2>4. (y + origin + moved) % W = position
    BY <1>7 DEF CountInv, CountFollows
  <2>5. (y1 + origin + 0) % W = position
    BY <2>2, <2>3, <2>4
  <2>6. CountFollows'
    BY <1>1, <2>1, <2>5 DEF CountFollows
  <2>7. position - 0 = position
    BY <1>2
  <2>8. SampleInv'
    BY <1>1, <2>7 DEF SampleInv
  <2>9. CountType'
    BY <1>1, <1>2, <1>5, <2>1 DEF CountType, Count
  <2>. QED
    BY <2>6, <2>8, <2>9 DEF CountInv
<1>. QED
  BY <1>6, <1>7

LEMMA CountStep == CountInv /\ [Next]_vars => CountInv'
<1>. SUFFICES ASSUME CountInv, [Next]_vars PROVE CountInv'
  OBVIOUS
<1>1. CASE \E d \in {-1, 1} : Turn(d)
  BY <1>1, CountTurn
<1>2. CASE Sample
  BY <1>2, CountSample
<1>3. CASE \/ Push \/ ServoTick \/ IndexPulse \/ handleIndexInterrupt
           \/ \E r \in Reader : get(r)
           \/ UNCHANGED vars
  <2>1. UNCHANGED <<position, moved, y, osr, origin>>
    BY <1>3 DEF Push, ServoTick, IndexPulse, handleIndexInterrupt, Begin, get, Level, Take, Return,
                vars, shaft, program
  <2>. QED
    BY <2>1 DEF CountInv, CountType, SampleInv, CountFollows
<1>. QED
  BY <1>1, <1>2, <1>3 DEF Next

(* The count follows the shaft through the wrap of the counter and every    *)
(* reversal, for a counter of any width that is a multiple of four: only a  *)
(* shaft that is two edges or more further after one pass of the program    *)
(* changes what it counts from.                                             *)
THEOREM CountTheorem == Spec => []CountFollows
<1>1. Init => CountInv
  <2>. SUFFICES ASSUME Init PROVE CountInv
    OBVIOUS
  <2>1. position \in 0 .. 3 /\ moved = 0 /\ y = 0 /\ origin = W
    BY DEF Init, Unknown
  <2>2. W \in Nat /\ W > 4
    BY WidthAssumption
  <2>3. CountType
    BY <2>1, <2>2 DEF CountType, Count
  <2>4. SampleInv /\ CountFollows
    BY <2>1 DEF SampleInv, CountFollows, Unknown
  <2>. QED
    BY <2>3, <2>4 DEF CountInv
<1>2. CountInv => CountFollows
  BY DEF CountInv
<1>. QED
  BY <1>1, <1>2, CountStep, PTL DEF Spec

-----------------------------------------------------------------------------
LEMMA DivUnique ==
  ASSUME NEW M \in Nat \ {0}, NEW q \in Int, NEW r \in 0 .. M - 1
  PROVE  (M * q + r) \div M = q
<1>. DEFINE z == M * q + r
            d == z \div M
            s == z % M
<1>1. z \in Int
  OBVIOUS
<1>. HIDE DEF z
<1>2. z = M * d + s /\ s \in 0 .. M - 1 /\ d \in Int
  BY <1>1, Division
<1>. HIDE DEF d, s
<1>3. M * (q - d) = M * q - M * d /\ q - d \in Int
  BY <1>2
<1>4. s = r
  BY ModUnique DEF s, z
<1>5. z = M * q + r
  BY DEF z
<1>6. M * (q - d) = 0
  BY <1>1, <1>2, <1>3, <1>4, <1>5
<1>7. q - d >= 1 => M * (q - d) >= M
  BY <1>3
<1>8. q - d <= -1 => M * (q - d) <= -M
  BY <1>3
<1>9. q = d
  BY <1>2, <1>3, <1>6, <1>7, <1>8
<1>. QED
  BY <1>9 DEF d, z

LEMMA DivShift ==
  ASSUME NEW M \in Nat \ {0}, NEW a \in Int
  PROVE  (a + M) \div M = (a \div M) + 1
<1>. DEFINE d == a \div M
            r == a % M
<1>1. a = M * d + r /\ r \in 0 .. M - 1 /\ d \in Int
  BY Division
<1>. HIDE DEF d, r
<1>2. M * (d + 1) = M * d + M
  BY <1>1
<1>3. (M * (d + 1) + r) \div M = d + 1
  BY <1>1, DivUnique
<1>4. M * (d + 1) + r = a + M
  BY <1>1, <1>2
<1>. QED
  BY <1>3, <1>4 DEF d

LEMMA DivMonotone ==
  ASSUME NEW M \in Nat \ {0}, NEW a \in Int, NEW b \in Int, a <= b
  PROVE  a \div M <= b \div M
<1>. DEFINE d == a \div M
            e == b \div M
<1>1. a = M * d + (a % M) /\ a % M \in 0 .. M - 1 /\ d \in Int
  BY Division
<1>2. b = M * e + (b % M) /\ b % M \in 0 .. M - 1 /\ e \in Int
  BY Division
<1>. HIDE DEF d, e
<1>3. d <= e
  <2>. SUFFICES ASSUME d >= e + 1 PROVE FALSE
    BY <1>1, <1>2
  <2>1. M * (d - e) >= M
    BY <1>1, <1>2
  <2>2. M * (d - e) = M * d - M * e
    BY <1>1, <1>2
  <2>. QED
    BY <1>1, <1>2, <2>1, <2>2
<1>. QED
  BY <1>3 DEF d, e

(* The multiples of a period that the next k ticks bring: one tick later,   *)
(* and at most.                                                             *)
LEMMA NextTicks ==
  ASSUME NEW P \in Nat \ {0}, NEW p \in 0 .. P - 1, NEW k \in Nat
  PROVE  /\ (p + k) \div P \in Nat /\ k \div P \in Nat
         /\ (p + k) \div P <= (k \div P) + 1 /\ (p + (k + 1)) \div P <= (k \div P) + 1
         /\ p \div P = 0
         /\ k > 0 => /\ (p + 1) % P = 0 => (p + k) \div P = ((k - 1) \div P) + 1
                     /\ (p + 1) % P # 0 => (p + k) \div P = (((p + 1) % P) + (k - 1)) \div P
<1>0. \A a \in Int : (a + P) \div P = (a \div P) + 1
  BY DivShift
<1>1. 0 \div P = 0
  <2>1. P * 0 + 0 = 0 /\ 0 \in 0 .. P - 1 /\ 0 \in Int
    OBVIOUS
  <2>. QED
    BY <2>1, DivUnique
<1>2. k \div P \in Nat /\ (p + k) \div P \in Nat
  <2>1. \A a \in Nat : a \div P \in Nat
    <3>. SUFFICES ASSUME NEW a \in Nat PROVE a \div P \in Nat
      OBVIOUS
    <3>1. 0 \div P <= a \div P /\ a \div P \in Int
      BY DivMonotone, Division
    <3>. QED
      BY <1>1, <3>1
  <2>. QED
    BY <2>1
<1>3. (p + k) \div P <= (k \div P) + 1 /\ (p + (k + 1)) \div P <= (k \div P) + 1
  <2>1. (p + k) \div P <= (k + P) \div P /\ (p + (k + 1)) \div P <= (k + P) \div P
    BY DivMonotone
  <2>2. (k + P) \div P = (k \div P) + 1
    <3>1. k \in Int
      OBVIOUS
    <3>. QED
      BY <1>0, <3>1, Zenon
  <2>. QED
    BY <2>1, <2>2
<1>4. p \div P = 0
  <2>1. P * 0 + p = p /\ 0 \in Int
    OBVIOUS
  <2>2. (P * 0 + p) \div P = 0
    BY DivUnique
  <2>. QED
    BY <2>1, <2>2
<1>5. ASSUME k > 0, (p + 1) % P = 0
      PROVE  (p + k) \div P = ((k - 1) \div P) + 1
  <2>1. p + 1 = P
    <3>1. p + 1 < P => (p + 1) % P = p + 1
      OBVIOUS
    <3>. QED
      BY <1>5, <3>1
  <2>2. ((k - 1) + P) \div P = ((k - 1) \div P) + 1
    <3>1. k - 1 \in Int
      OBVIOUS
    <3>. QED
      BY <1>0, <3>1, Zenon
  <2>3. (k - 1) + P = p + k
    BY <2>1
  <2>. QED
    BY <2>2, <2>3
<1>6. ASSUME k > 0, (p + 1) % P # 0
      PROVE  (p + k) \div P = (((p + 1) % P) + (k - 1)) \div P
  <2>1. p + 1 < P
    <3>1. p + 1 = P => (p + 1) % P = 0
      OBVIOUS
    <3>. QED
      BY <1>6, <3>1
  <2>2. (p + 1) % P = p + 1
    BY <2>1
  <2>3. ((p + 1) % P) + (k - 1) = p + k
    BY <2>2
  <2>. QED
    BY <2>3
<1>. QED
  BY <1>2, <1>3, <1>4, <1>5, <1>6

-----------------------------------------------------------------------------
Frame == [thread : Thread, left : Nat]

TimerType ==
  /\ armed \subseteq Thread /\ stack \in Seq(Frame)
  /\ due \in [Thread -> Int] /\ owed \in [Thread -> Int]
  /\ \A t \in Thread : phase[t] \in 0 .. period_us(t) - 1
  /\ DOMAIN phase = Thread

TimerInv == TimerType /\ NoRunLost

-----------------------------------------------------------------------------
LEMMA PeriodPositive == \A t \in Thread : period_us(t) \in Nat \ {0}
<1>. SUFFICES ASSUME NEW t \in Thread PROVE period_us(t) \in Nat \ {0}
  OBVIOUS
<1>1. frequency[t] \in 1 .. Second /\ Second \in Nat
  BY FrequencyAssumption DEF frequency, ByThread, Thread
<1>2. \A f \in 1 .. Second : Second \div f \in Nat \ {0}
  BY <1>1
<1>. QED
  BY <1>1, <1>2 DEF period_us

(* The target that is due lies owed - 1 periods before the last multiple of *)
(* the period, and that one lies phase ticks back.                          *)
OnGrid(d, o, p, P) == d = (1 - o) * P - p

LEMMA GridTick ==
  ASSUME NEW P \in Nat \ {0}, NEW d \in Int, NEW o \in Int, NEW p \in 0 .. P - 1, OnGrid(d, o, p, P)
  PROVE  /\ (p + 1) % P \in 0 .. P - 1
         /\ OnGrid(d - 1, IF (p + 1) % P = 0 THEN o + 1 ELSE o, (p + 1) % P, P)
<1>1. CASE p + 1 = P
  <2>1. (p + 1) % P = 0
    BY <1>1
  <2>2. (1 - (o + 1)) * P = (1 - o) * P - P
    OBVIOUS
  <2>. QED
    BY <1>1, <2>1, <2>2 DEF OnGrid
<1>2. CASE p + 1 < P
  <2>1. (p + 1) % P = p + 1
    BY <1>2
  <2>. QED
    BY <2>1, <1>2 DEF OnGrid
<1>. QED
  BY <1>1, <1>2

LEMMA GridRun ==
  ASSUME NEW P \in Nat \ {0}, NEW d \in Int, NEW o \in Int, NEW p \in 0 .. P - 1, OnGrid(d, o, p, P)
  PROVE  OnGrid(d + P, o - 1, p, P)
<1>1. (1 - (o - 1)) * P = (1 - o) * P + P
  OBVIOUS
<1>. QED
  BY <1>1 DEF OnGrid

LEMMA TimerInit == TimersInit => TimerInv
BY PeriodPositive DEF TimersInit, TimerInv, TimerType, NoRunLost

(* A timer that is started or stopped is on the grid of its new start.      *)
LEMMA SetStep ==
  ASSUME TimerInv, NEW t \in Thread, startTimer(t) \/ stopTimer(t)
  PROVE  TimerInv'
<1>1. UNCHANGED stack /\ phase' = [phase EXCEPT ![t] = 0] /\ owed' = [owed EXCEPT ![t] = 0]
  BY DEF startTimer, stopTimer
<1>2. \/ due' = [due EXCEPT ![t] = period_us(t)] /\ armed' = armed \cup {t}
      \/ due' = [due EXCEPT ![t] = 0] /\ armed' = armed \ {t}
  BY DEF startTimer, stopTimer
<1>3. TimerType'
  BY <1>1, <1>2, PeriodPositive DEF TimerInv, TimerType
<1>4. ASSUME NEW u \in armed'
      PROVE  due'[u] = (1 - owed'[u]) * period_us(u) - phase'[u]
  <2>1. CASE u = t
    <3>1. due'[t] = period_us(t) /\ owed'[t] = 0 /\ phase'[t] = 0
      BY <1>1, <1>2, <1>4, <2>1 DEF TimerInv, TimerType
    <3>. QED
      BY <2>1, <3>1, PeriodPositive
  <2>2. CASE u # t
    BY <1>1, <1>2, <1>4, <2>2 DEF TimerInv, TimerType, NoRunLost
  <2>. QED
    BY <2>1, <2>2
<1>. QED
  BY <1>3, <1>4 DEF TimerInv, NoRunLost

(* A callback that returns has served one period.                           *)
LEMMA ReturnStep ==
  ASSUME TimerInv, callbackReturned
  PROVE  TimerInv'
<1>. DEFINE t == Last(stack).thread
<1>1. t \in Thread /\ stack' \in Seq(Frame)
  <2>1. stack # <<>> /\ stack \in Seq(Frame)
    BY DEF callbackReturned, TimerInv, TimerType
  <2>2. Last(stack) \in Frame
    BY <2>1 DEF Last
  <2>3. Front(stack) \in Seq(Frame)
    BY <2>1 DEF Front
  <2>. QED
    BY <2>2, <2>3 DEF callbackReturned, Frame
<1>. HIDE DEF t
<1>2. /\ due' = [due EXCEPT ![t] = due[t] + period_us(t)] /\ owed' = [owed EXCEPT ![t] = owed[t] - 1]
      /\ UNCHANGED <<armed, phase>>
  BY DEF callbackReturned, Rearm, t
<1>3. TimerType'
  BY <1>1, <1>2, PeriodPositive DEF TimerInv, TimerType
<1>4. ASSUME NEW u \in armed'
      PROVE  OnGrid(due'[u], owed'[u], phase'[u], period_us(u))
  <2>1. OnGrid(due[u], owed[u], phase[u], period_us(u)) /\ u \in Thread
    BY <1>2, <1>4 DEF TimerInv, TimerType, NoRunLost, OnGrid
  <2>2. CASE u = t
    BY <1>1, <1>2, <2>1, <2>2, GridRun, PeriodPositive DEF TimerInv, TimerType
  <2>3. CASE u # t
    BY <1>1, <1>2, <2>1, <2>3 DEF TimerInv, TimerType
  <2>. QED
    BY <2>2, <2>3
<1>. QED
  BY <1>3, <1>4 DEF TimerInv, NoRunLost, OnGrid

LEMMA TickStep ==
  ASSUME TimerInv, Tick
  PROVE  TimerInv'
<1>1. /\ due'   = [t \in Thread |-> IF t \in armed THEN due[t] - 1 ELSE due[t]]
      /\ phase' = [t \in Thread |-> IF t \in armed THEN (phase[t] + 1) % period_us(t) ELSE 0]
      /\ owed'  = [t \in Thread |-> IF t \in armed /\ phase'[t] = 0 THEN owed[t] + 1 ELSE owed[t]]
      /\ UNCHANGED armed
  BY DEF Tick, running
<1>2. stack' \in Seq(Frame)
  <2>1. CASE UNCHANGED stack
    BY <2>1 DEF TimerInv, TimerType
  <2>2. CASE /\ stack # <<>> /\ Last(stack).left > 0
             /\ stack' = [stack EXCEPT ![Len(stack)].left = @ - 1]
    <3>1. stack \in Seq(Frame) /\ Len(stack) \in DOMAIN stack /\ stack[Len(stack)] \in Frame
      BY <2>2 DEF TimerInv, TimerType
    <3>2. [stack[Len(stack)] EXCEPT !.left = @ - 1] \in Frame
      <4>1. \A f \in Frame : f.left > 0 => [f EXCEPT !.left = f.left - 1] \in Frame
        BY DEF Frame
      <4>. QED
        BY <2>2, <3>1, <4>1 DEF Last
    <3>. QED
      BY <2>2, <3>1, <3>2
  <2>. QED
    BY <2>1, <2>2 DEF Tick
<1>3. ASSUME NEW t \in armed
      PROVE  phase'[t] \in 0 .. period_us(t) - 1 /\ OnGrid(due'[t], owed'[t], phase'[t], period_us(t))
  <2>1. t \in Thread /\ due[t] \in Int /\ owed[t] \in Int /\ phase[t] \in 0 .. period_us(t) - 1
    BY <1>3 DEF TimerInv, TimerType
  <2>2. OnGrid(due[t], owed[t], phase[t], period_us(t))
    BY <1>3 DEF TimerInv, NoRunLost, OnGrid
  <2>3. /\ due'[t] = due[t] - 1 /\ phase'[t] = (phase[t] + 1) % period_us(t)
        /\ owed'[t] = IF (phase[t] + 1) % period_us(t) = 0 THEN owed[t] + 1 ELSE owed[t]
    BY <1>1, <1>3, <2>1
  <2>. QED
    BY <2>1, <2>2, <2>3, GridTick, PeriodPositive
<1>4. ASSUME NEW t \in Thread
      PROVE  phase'[t] \in 0 .. period_us(t) - 1
  <2>1. CASE t \in armed
    BY <1>3, <2>1
  <2>2. CASE t \notin armed
    <3>1. phase'[t] = 0
      BY <1>1, <2>2
    <3>. QED
      BY <3>1, PeriodPositive
  <2>. QED
    BY <2>1, <2>2
<1>5. TimerType'
  BY <1>1, <1>2, <1>4 DEF TimerInv, TimerType
<1>. QED
  BY <1>1, <1>3, <1>5 DEF TimerInv, NoRunLost, OnGrid

LEMMA TimerStep ==
  ASSUME TimerInv, [TimersNext]_timersVars
  PROVE  TimerInv'
<1>1. ASSUME NEW t \in Thread, timerCallback(t)
      PROVE  TimerInv'
  <2>1. PICK w \in 1 .. MaxWork : stack' = Append(stack, [thread |-> t, left |-> w])
    BY <1>1 DEF timerCallback
  <2>2. w \in Nat
    BY <2>1, TimerBoundsAssumption
  <2>3. stack' \in Seq(Frame)
    BY <2>1, <2>2 DEF TimerInv, TimerType, Frame
  <2>. QED
    BY <1>1, <2>3 DEF timerCallback, TimerInv, TimerType, NoRunLost, running, grid
<1>2. CASE UNCHANGED <<armed, stack, due, phase, owed>>
  BY <1>2 DEF TimerInv, TimerType, NoRunLost
<1>. QED
  BY <1>1, <1>2, SetStep, ReturnStep, TickStep DEF TimersNext, configTimer, Park, timersVars, running, grid

(* However long the runs and the flash operations are, no thread loses or   *)
(* gains a run, nor does its period drift.                                  *)
THEOREM NoRunLostTheorem == TimersSpec => []NoRunLost
<1>1. TimerInv => NoRunLost
  BY DEF TimerInv
<1>. QED
  BY <1>1, TimerInit, TimerStep, PTL DEF TimersSpec

-----------------------------------------------------------------------------
(* What a run has had of MaxWork ticks, if it is under way.                 *)
RanIn(s, t) ==
  IF \E i \in DOMAIN s : s[i].thread = t
    THEN MaxWork - s[CHOOSE i \in DOMAIN s : s[i].thread = t].left ELSE 0

Distinct(s) == \A i, j \in DOMAIN s : s[i].thread = s[j].thread => i = j

(* The multiples of its period that the next k ticks bring to a thread, and *)
(* the ticks that it may ask for until then.                                *)
Coming(t, k) == IF t \in armed THEN (phase[t] + k) \div period_us(t) ELSE 0
Demand(t, k) == MaxWork * (owed[t] + Coming(t, k)) - RanIn(stack, t)
Load(k)      == parked + Demand("base", k) + Demand("servo", k) + Demand("serial", k)

(* K ticks are enough for a flash operation and all the runs that fall due  *)
(* in K ticks.                                                              *)
Fits(K) ==
  MaxPark + MaxWork * ((K \div period_us("base")) + 1) + MaxWork * ((K \div period_us("servo")) + 1)
          + MaxWork * ((K \div period_us("serial")) + 1) <= K

(* The runs under way are of different threads, each with a run owed.       *)
StackInv ==
  /\ Distinct(stack)
  /\ \A i \in DOMAIN stack : /\ stack[i].thread \in armed /\ owed[stack[i].thread] >= 1
                             /\ stack[i].left <= MaxWork
  /\ \A t \in Thread : owed[t] >= 0 /\ (t \notin armed => owed[t] = 0)
  /\ parked \in Nat

(* In at most K ticks all that is asked for by then is done, and no run has *)
(* waited for longer than what is left of the K ticks.                      *)
BusyInv(K) ==
  \E k \in 0 .. K : Load(k) <= k /\ \A t \in armed : k <= K + due[t]

LEMMA RanAt ==
  ASSUME NEW s, Distinct(s), NEW i \in DOMAIN s
  PROVE  RanIn(s, s[i].thread) = MaxWork - s[i].left
<1>. DEFINE t == s[i].thread
            c == CHOOSE j \in DOMAIN s : s[j].thread = t
<1>1. c \in DOMAIN s /\ s[c].thread = t
  OBVIOUS
<1>2. c = i
  BY <1>1 DEF Distinct
<1>. QED
  BY <1>2 DEF RanIn

LEMMA RanNone ==
  ASSUME NEW s, NEW t, \A i \in DOMAIN s : s[i].thread # t
  PROVE  RanIn(s, t) = 0
BY DEF RanIn

(* Nothing was done to the run of t.                                        *)
LEMMA RanSame ==
  ASSUME NEW r, NEW s, Distinct(r), Distinct(s), NEW t,
         \A i \in DOMAIN r : r[i].thread = t => i \in DOMAIN s /\ s[i] = r[i],
         \A i \in DOMAIN s : s[i].thread = t => i \in DOMAIN r /\ r[i].thread = t
  PROVE  RanIn(s, t) = RanIn(r, t)
<1>1. CASE \E i \in DOMAIN r : r[i].thread = t
  <2>1. PICK i \in DOMAIN r : r[i].thread = t
    BY <1>1
  <2>2. i \in DOMAIN s /\ s[i] = r[i]
    BY <2>1
  <2>3. RanIn(r, t) = MaxWork - r[i].left
    BY <2>1, RanAt
  <2>4. RanIn(s, t) = MaxWork - s[i].left
    BY <2>1, <2>2, RanAt
  <2>. QED
    BY <2>2, <2>3, <2>4
<1>2. CASE \A i \in DOMAIN r : r[i].thread # t
  <2>1. \A i \in DOMAIN s : s[i].thread # t
    BY <1>2
  <2>2. RanIn(r, t) = 0
    BY <1>2, RanNone
  <2>3. RanIn(s, t) = 0
    BY <2>1, RanNone
  <2>. QED
    BY <2>2, <2>3
<1>. QED
  BY <1>1, <1>2

LEMMA RanRange ==
  ASSUME TimerInv, StackInv, NEW t \in Thread
  PROVE  RanIn(stack, t) \in 0 .. MaxWork /\ (RanIn(stack, t) > 0 => owed[t] >= 1)
<1>1. CASE \A i \in DOMAIN stack : stack[i].thread # t
  BY <1>1, RanNone, TimerBoundsAssumption
<1>2. ASSUME NEW i \in DOMAIN stack, stack[i].thread = t
      PROVE  RanIn(stack, t) \in 0 .. MaxWork /\ owed[t] >= 1
  <2>1. RanIn(stack, t) = MaxWork - stack[i].left
    BY <1>2, RanAt DEF StackInv
  <2>2. stack[i].left \in Nat
    <3>1. stack \in Seq(Frame)
      BY DEF TimerInv, TimerType
    <3>2. stack[i] \in Frame
      BY <1>2, <3>1
    <3>. QED
      BY <3>2 DEF Frame
  <2>3. stack[i].left <= MaxWork /\ owed[t] >= 1
    BY <1>2 DEF StackInv
  <2>. QED
    BY <2>1, <2>2, <2>3, TimerBoundsAssumption
<1>. QED
  BY <1>1, <1>2

(* A thread owes a run when its alarm is due.                               *)
LEMMA DueOwed ==
  ASSUME TimerInv, NEW t \in armed
  PROVE  (due[t] <= 0 => owed[t] >= 1) /\ (owed[t] >= 1 => due[t] <= 0)
<1>. DEFINE P == period_us(t)
<1>1. t \in Thread /\ P \in Nat \ {0} /\ owed[t] \in Int /\ phase[t] \in 0 .. P - 1
      /\ due[t] = (1 - owed[t]) * P - phase[t]
  BY PeriodPositive DEF TimerInv, TimerType, NoRunLost
<1>. HIDE DEF P
<1>2. owed[t] >= 1 => (1 - owed[t]) * P <= 0
  BY <1>1
<1>3. owed[t] <= 0 => (1 - owed[t]) * P >= P
  BY <1>1
<1>. QED
  BY <1>1, <1>2, <1>3

(* A due alarm can be served when nothing runs.                             *)
LEMMA IdleNone ==
  ASSUME TimerInv, StackInv, stack = <<>>, parked = 0, \A t \in Thread : ~Pending(t)
  PROVE  (\A t \in armed : due[t] > 0) /\ (\A t \in Thread : owed[t] = 0)
<1>1. ASSUME NEW t \in armed, due[t] <= 0
      PROVE  FALSE
  <2>1. armed \subseteq Thread /\ due \in [Thread -> Int]
    BY DEF TimerInv, TimerType
  <2>2. \E u \in armed : pool[u] = pool[t] /\ due[u] <= due[t]
                        /\ \A v \in armed : pool[v] = pool[u] => due[u] <= due[v]
    BY <1>1, <2>1 DEF Thread
  <2>3. PICK u \in armed : pool[u] = pool[t] /\ due[u] <= due[t]
                        /\ \A v \in armed : pool[v] = pool[u] => due[u] <= due[v]
    BY <2>2
  <2>4. due[u] <= 0
    BY <1>1, <2>1, <2>3
  <2>5. Pending(u)
    BY <2>3, <2>4 DEF Pending
  <2>. QED
    BY <2>1, <2>5
<1>2. \A t \in armed : due[t] \in Int /\ owed[t] \in Int
  BY DEF TimerInv, TimerType
<1>3. \A t \in armed : due[t] > 0
  BY <1>1, <1>2
<1>4. \A t \in armed : owed[t] = 0
  BY <1>2, <1>3, DueOwed DEF StackInv, TimerInv, TimerType
<1>. QED
  BY <1>3, <1>4 DEF StackInv

(* The multiples of the period that are still to come, one tick later.      *)
LEMMA ComingRange ==
  ASSUME TimerInv, NEW t \in Thread, NEW k \in Nat
  PROVE  /\ Coming(t, k) \in Nat /\ Coming(t, 0) = 0
         /\ k \div period_us(t) \in Nat
         /\ Coming(t, k) <= (k \div period_us(t)) + 1
         /\ Coming(t, k + 1) <= (k \div period_us(t)) + 1
<1>. DEFINE P == period_us(t)
<1>1. P \in Nat \ {0} /\ phase[t] \in 0 .. P - 1
  BY PeriodPositive DEF TimerInv, TimerType
<1>. HIDE DEF P
<1>2. /\ (phase[t] + k) \div P \in Nat /\ k \div P \in Nat
      /\ (phase[t] + k) \div P <= (k \div P) + 1
      /\ (phase[t] + (k + 1)) \div P <= (k \div P) + 1
      /\ phase[t] \div P = 0
  BY <1>1, NextTicks
<1>3. phase[t] + 0 = phase[t]
  BY <1>1
<1>4. Coming(t, k) = IF t \in armed THEN (phase[t] + k) \div P ELSE 0
  BY DEF Coming, P
<1>5. Coming(t, 0) = 0
  BY <1>2, <1>3 DEF Coming, P
<1>6. Coming(t, k) \in Nat /\ Coming(t, k) <= (k \div P) + 1
  BY <1>2, <1>4
<1>7. Coming(t, k + 1) <= (k \div P) + 1
  <2>1. Coming(t, k + 1) = IF t \in armed THEN (phase[t] + (k + 1)) \div P ELSE 0
    BY DEF Coming, P
  <2>. QED
    BY <1>2, <2>1
<1>. QED
  BY <1>2, <1>5, <1>6, <1>7 DEF P

LEMMA ComingTick ==
  ASSUME TimerInv, Tick, NEW t \in Thread, NEW k \in Nat \ {0}
  PROVE  owed'[t] + Coming(t, k - 1)' = owed[t] + Coming(t, k)
<1>. DEFINE P == period_us(t)
            p == phase[t]
<1>1. P \in Nat \ {0} /\ p \in 0 .. P - 1 /\ owed[t] \in Int
  BY PeriodPositive DEF TimerInv, TimerType
<1>2. /\ phase'[t] = (IF t \in armed THEN (p + 1) % P ELSE 0)
      /\ owed'[t] = (IF t \in armed /\ phase'[t] = 0 THEN owed[t] + 1 ELSE owed[t])
      /\ armed' = armed
  BY DEF Tick, running
<1>3. /\ Coming(t, k) = (IF t \in armed THEN (p + k) \div P ELSE 0)
      /\ Coming(t, k - 1)' = (IF t \in armed' THEN (phase'[t] + (k - 1)) \div P ELSE 0)
  BY DEF Coming, period_us, frequency
<1>. HIDE DEF P, p
<1>4. /\ (p + 1) % P = 0 => (p + k) \div P = ((k - 1) \div P) + 1
      /\ (p + 1) % P # 0 => (p + k) \div P = (((p + 1) % P) + (k - 1)) \div P
      /\ (k - 1) \div P \in Nat
  <2>1. k \in Nat /\ k > 0 /\ k - 1 \in Nat
    OBVIOUS
  <2>. QED
    BY <1>1, <2>1, NextTicks
<1>5. CASE t \notin armed
  BY <1>2, <1>3, <1>5
<1>6. CASE t \in armed /\ (p + 1) % P = 0
  <2>1. owed'[t] = owed[t] + 1 /\ Coming(t, k) = ((k - 1) \div P) + 1
    BY <1>2, <1>3, <1>4, <1>6
  <2>2. phase'[t] + (k - 1) = k - 1
    BY <1>2, <1>6
  <2>3. Coming(t, k - 1)' = (k - 1) \div P
    BY <1>2, <1>3, <1>6, <2>2
  <2>. QED
    BY <1>1, <1>4, <2>1, <2>3
<1>7. CASE t \in armed /\ (p + 1) % P # 0
  BY <1>2, <1>3, <1>4, <1>7
<1>. QED
  BY <1>5, <1>6, <1>7

LEMMA DemandRange ==
  ASSUME TimerInv, StackInv, NEW t \in Thread, NEW k \in Nat
  PROVE  /\ Demand(t, k) \in Nat /\ Demand(t, k) >= MaxWork * owed[t] - RanIn(stack, t)
         /\ Demand(t, k) = MaxWork * (owed[t] + Coming(t, k)) - RanIn(stack, t)
<1>. DEFINE o == owed[t]
            c == Coming(t, k)
            r == RanIn(stack, t)
<1>1. o \in Nat /\ c \in Nat /\ r \in 0 .. MaxWork /\ (r > 0 => o >= 1) /\ MaxWork \in Nat
  <2>1. owed[t] \in Int /\ owed[t] >= 0 /\ MaxWork \in Nat
    BY TimerBoundsAssumption DEF StackInv, TimerInv, TimerType
  <2>2. Coming(t, k) \in Nat
    BY ComingRange
  <2>3. r \in 0 .. MaxWork /\ (r > 0 => o >= 1)
    BY RanRange
  <2>. QED
    BY <2>1, <2>2, <2>3
<1>2. Demand(t, k) = MaxWork * (o + c) - r
  BY DEF Demand
<1>. HIDE DEF o, c, r
<1>3. MaxWork * (o + c) = MaxWork * o + MaxWork * c
  BY <1>1
<1>4. MaxWork * c >= 0 /\ MaxWork * o >= 0 /\ MaxWork * c \in Int /\ MaxWork * o \in Int
  BY <1>1
<1>5. o >= 1 => MaxWork * o >= MaxWork
  BY <1>1
<1>. QED
  BY <1>1, <1>2, <1>3, <1>4, <1>5 DEF o, r, c

-----------------------------------------------------------------------------
(* The stack of callbacks: taken, returned from, and run for a tick.        *)
Others(r, s, t) == \A u \in Thread \ {t} : RanIn(s, u) = RanIn(r, u)

LEMMA TakenRuns ==
  ASSUME NEW s \in Seq(Frame), Distinct(s), NEW f \in Frame,
         \A i \in DOMAIN s : s[i].thread # f.thread
  PROVE  /\ Distinct(Append(s, f)) /\ RanIn(s, f.thread) = 0
         /\ RanIn(Append(s, f), f.thread) = MaxWork - f.left
         /\ Others(s, Append(s, f), f.thread)
<1>. DEFINE r == Append(s, f)
<1>1. /\ DOMAIN s = 1 .. Len(s) /\ DOMAIN r = 1 .. Len(s) + 1 /\ Len(s) \in Nat
      /\ r[Len(s) + 1] = f /\ \A i \in 1 .. Len(s) : r[i] = s[i]
  OBVIOUS
<1>. HIDE DEF r
<1>2. Distinct(r)
  BY <1>1 DEF Distinct
<1>3. RanIn(r, f.thread) = MaxWork - f.left
  <2>1. Len(s) + 1 \in DOMAIN r
    BY <1>1
  <2>2. RanIn(r, r[Len(s) + 1].thread) = MaxWork - r[Len(s) + 1].left
    BY <1>2, <2>1, RanAt
  <2>. QED
    BY <1>1, <2>2
<1>4. ASSUME NEW u \in Thread \ {f.thread}
      PROVE  RanIn(r, u) = RanIn(s, u)
  <2>1. \A i \in DOMAIN s : i \in DOMAIN r /\ r[i] = s[i]
    BY <1>1
  <2>2. \A i \in DOMAIN r : r[i].thread = u => i \in DOMAIN s /\ s[i].thread = u
    BY <1>1, <1>4
  <2>. QED
    BY <1>2, <2>1, <2>2, RanSame
<1>5. RanIn(s, f.thread) = 0
  BY RanNone
<1>. QED
  BY <1>2, <1>3, <1>4, <1>5 DEF r, Others

LEMMA ReturnedRuns ==
  ASSUME NEW s \in Seq(Frame), s # <<>>, Distinct(s)
  PROVE  LET t == Last(s).thread r == Front(s) IN
           /\ Distinct(r) /\ RanIn(s, t) = MaxWork - Last(s).left /\ RanIn(r, t) = 0
           /\ Others(s, r, t)
           /\ \A i \in DOMAIN r : i \in DOMAIN s /\ r[i] = s[i] /\ r[i].thread # t
<1>. DEFINE n == Len(s)
            r == Front(s)
            t == Last(s).thread
<1>1. /\ DOMAIN s = 1 .. n /\ n \in Nat \ {0} /\ n \in DOMAIN s
      /\ DOMAIN r = 1 .. n - 1 /\ \A i \in 1 .. n - 1 : r[i] = s[i]
      /\ Last(s) = s[n] /\ t = s[n].thread
  BY DEF Front, Last
<1>. HIDE DEF n, r, t
<1>2. \A i \in DOMAIN r : i \in DOMAIN s /\ i # n /\ r[i] = s[i]
  BY <1>1
<1>3. \A i \in DOMAIN r : r[i].thread # t
  BY <1>1, <1>2 DEF Distinct
<1>4. Distinct(r)
  BY <1>2 DEF Distinct
<1>5. RanIn(r, t) = 0
  BY <1>3, RanNone
<1>6. RanIn(s, t) = MaxWork - Last(s).left
  <2>1. RanIn(s, s[n].thread) = MaxWork - s[n].left
    BY <1>1, RanAt
  <2>. QED
    BY <1>1, <2>1
<1>7. ASSUME NEW u \in Thread \ {t}
      PROVE  RanIn(r, u) = RanIn(s, u)
  <2>1. \A i \in DOMAIN s : i # n => i \in DOMAIN r
    BY <1>1
  <2>2. \A i \in DOMAIN s : s[i].thread = u => i \in DOMAIN r /\ s[i] = r[i]
    BY <1>1, <1>2, <1>7, <2>1
  <2>3. \A i \in DOMAIN r : r[i].thread = u => i \in DOMAIN s /\ s[i].thread = u
    BY <1>2
  <2>. QED
    BY <1>4, <2>2, <2>3, RanSame
<1>. QED
  BY <1>2, <1>3, <1>4, <1>5, <1>6, <1>7 DEF r, t, Others

LEMMA TickedRuns ==
  ASSUME NEW s \in Seq(Frame), s # <<>>, Distinct(s), NEW t, t = Last(s).thread, NEW r, DOMAIN r = DOMAIN s,
         r[Len(s)].thread = Last(s).thread, r[Len(s)].left = Last(s).left - 1,
         \A i \in DOMAIN s : i # Len(s) => r[i] = s[i]
  PROVE  /\ Distinct(r) /\ RanIn(s, t) = MaxWork - Last(s).left
         /\ RanIn(r, t) = MaxWork - (Last(s).left - 1)
         /\ Others(s, r, t)
         /\ \A i \in DOMAIN r : /\ i \in DOMAIN s /\ r[i].thread = s[i].thread
                                /\ r[i].left = s[i].left \/ r[i].left = s[i].left - 1
<1>. DEFINE n == Len(s)
<1>1. /\ DOMAIN s = 1 .. n /\ n \in DOMAIN s /\ s[n] \in Frame /\ Last(s) = s[n] /\ t = s[n].thread
  BY DEF Last
<1>2. DOMAIN r = DOMAIN s /\ \A i \in DOMAIN s : i # n => r[i] = s[i]
  OBVIOUS
<1>3. r[n].thread = s[n].thread /\ r[n].left = s[n].left - 1
  BY <1>1
<1>. HIDE DEF n
<1>4. \A i \in DOMAIN r : r[i].thread = s[i].thread /\ (r[i].left = s[i].left \/ r[i].left = s[i].left - 1)
  BY <1>1, <1>2, <1>3
<1>5. Distinct(r)
  BY <1>2, <1>4 DEF Distinct
<1>6. RanIn(s, t) = MaxWork - Last(s).left
  <2>1. RanIn(s, s[n].thread) = MaxWork - s[n].left
    BY <1>1, RanAt
  <2>. QED
    BY <1>1, <2>1
<1>7. RanIn(r, t) = MaxWork - (Last(s).left - 1)
  <2>1. RanIn(r, r[n].thread) = MaxWork - r[n].left
    BY <1>1, <1>2, <1>5, RanAt
  <2>. QED
    BY <1>1, <1>3, <2>1
<1>8. ASSUME NEW u \in Thread \ {t}
      PROVE  RanIn(r, u) = RanIn(s, u)
  <2>1. \A i \in DOMAIN s : s[i].thread = u => i \in DOMAIN r /\ s[i] = r[i]
    BY <1>1, <1>2, <1>8
  <2>2. \A i \in DOMAIN r : r[i].thread = u => i \in DOMAIN s /\ s[i].thread = u
    BY <1>2, <1>4
  <2>. QED
    BY <1>5, <2>1, <2>2, RanSame
<1>. QED
  BY <1>2, <1>4, <1>5, <1>6, <1>7, <1>8 DEF Others

-----------------------------------------------------------------------------
(* Nothing is owed while the code outside interrupts runs.                  *)
LEMMA IdleDemand ==
  ASSUME TimerInv, StackInv, Idle, NEW t \in Thread, NEW k \in Nat
  PROVE  /\ owed[t] = 0 /\ (t \in armed => due[t] > 0)
         /\ Demand(t, k) <= MaxWork * ((k \div period_us(t)) + 1)
<1>1. stack = <<>> /\ parked = 0 /\ owed[t] = 0 /\ (t \in armed => due[t] > 0)
  BY IdleNone DEF Idle
<1>2. RanIn(stack, t) = 0
  BY <1>1, RanNone
<1>. DEFINE c == Coming(t, k)
            d == (k \div period_us(t)) + 1
<1>3. c \in Nat /\ d \in Nat /\ c <= d /\ MaxWork \in Nat
  BY ComingRange, TimerBoundsAssumption
<1>4. Demand(t, k) = MaxWork * (0 + c) - 0
  BY <1>1, <1>2 DEF Demand
<1>. HIDE DEF c, d
<1>5. MaxWork * (d - c) >= 0
  BY <1>3
<1>6. MaxWork * d = MaxWork * c + MaxWork * (d - c)
  BY <1>3
<1>7. Demand(t, k) <= MaxWork * d
  BY <1>3, <1>4, <1>5, <1>6
<1>. QED
  BY <1>1, <1>7 DEF d

LEMMA IdleStack ==
  ASSUME TimerInv, StackInv, NEW t \in Thread, startTimer(t) \/ stopTimer(t) \/ Park
  PROVE  StackInv'
<1>1. Idle /\ stack' = stack
  BY DEF startTimer, stopTimer, Park
<1>2. stack = <<>> /\ parked = 0
  BY <1>1 DEF Idle
<1>3. parked' \in Nat
  <2>1. parked' = parked \/ parked' \in 1 .. MaxPark
    BY DEF startTimer, stopTimer, Park
  <2>. QED
    BY <1>2, <2>1, TimerBoundsAssumption
<1>4. \A u \in Thread : owed'[u] = 0
  <2>1. \A u \in Thread : owed[u] = 0
    BY <1>1, IdleDemand
  <2>2. owed' = owed \/ owed' = [owed EXCEPT ![t] = 0]
    BY DEF startTimer, stopTimer, Park, grid
  <2>. QED
    BY <2>1, <2>2 DEF TimerInv, TimerType
<1>5. DOMAIN stack' = {}
  BY <1>1, <1>2
<1>. QED
  BY <1>3, <1>4, <1>5 DEF StackInv, Distinct

(* A busy period begins with a flash operation, or when time passes with    *)
(* nothing to do.                                                           *)
LEMMA ParkBusy ==
  ASSUME TimerInv, StackInv, NEW K \in Nat, Fits(K), Park
  PROVE  BusyInv(K)'
<1>1. Idle /\ UNCHANGED <<stack, owed, phase, armed, due>> /\ parked' \in 1 .. MaxPark
  BY DEF Park, running, grid
<1>. DEFINE b(t) == MaxWork * ((K \div period_us(t)) + 1)
<1>2. \A t \in Thread : Demand(t, K)' = Demand(t, K)
  BY <1>1 DEF Demand, Coming, period_us, frequency
<1>3. \A t \in Thread : Demand(t, K) <= b(t) /\ Demand(t, K) \in Int /\ b(t) \in Int
  <2>. SUFFICES ASSUME NEW t \in Thread
                PROVE  Demand(t, K) <= b(t) /\ Demand(t, K) \in Int /\ b(t) \in Int
    OBVIOUS
  <2>1. Demand(t, K) <= b(t)
    BY <1>1, IdleDemand
  <2>2. Demand(t, K) \in Int
    BY DemandRange
  <2>3. b(t) \in Int
    BY ComingRange, TimerBoundsAssumption
  <2>. QED
    BY <2>1, <2>2, <2>3
<1>4. MaxPark + b("base") + b("servo") + b("serial") <= K
  BY DEF Fits
<1>. HIDE DEF b
<1>5. Load(K)' <= K
  <2>1. Load(K)' = parked' + Demand("base", K)' + Demand("servo", K)' + Demand("serial", K)'
    BY DEF Load
  <2>2. "base" \in Thread /\ "servo" \in Thread /\ "serial" \in Thread
    BY DEF Thread
  <2>. QED
    BY <1>1, <1>2, <1>3, <1>4, <2>1, <2>2, TimerBoundsAssumption
<1>6. \A t \in armed' : K <= K + due'[t]
  <2>1. \A t \in armed : t \in Thread /\ due[t] \in Int
    BY DEF TimerInv, TimerType
  <2>2. \A t \in armed : due[t] > 0
    BY <1>1, <2>1, IdleDemand
  <2>. QED
    BY <1>1, <2>1, <2>2
<1>. QED
  BY <1>5, <1>6 DEF BusyInv

LEMMA SetBusy ==
  ASSUME TimerInv, TimerInv', StackInv, StackInv', NEW K \in Nat,
         NEW t \in Thread, startTimer(t) \/ stopTimer(t)
  PROVE  BusyInv(K)'
<1>1. Idle /\ stack' = stack /\ parked' = parked /\ stack = <<>> /\ parked = 0
  BY DEF startTimer, stopTimer, Idle
<1>2. ASSUME NEW u \in Thread
      PROVE  Demand(u, 0)' = 0 /\ (u \in armed' => due'[u] \in Nat)
  <2>1. owed[u] = 0 /\ (u \in armed => due[u] > 0) /\ due[u] \in Int
    BY <1>1, IdleDemand DEF TimerInv, TimerType
  <2>2. owed' = [owed EXCEPT ![t] = 0] /\ owed \in [Thread -> Int]
    BY DEF startTimer, stopTimer, TimerInv, TimerType
  <2>3. owed'[u] = 0
    BY <2>1, <2>2
  <2>4. Coming(u, 0)' = 0
    <3>1. period_us(u) \in Nat \ {0} /\ phase'[u] \in 0 .. period_us(u) - 1
      BY PeriodPositive DEF TimerInv, TimerType
    <3>2. phase'[u] \div period_us(u) = 0 /\ phase'[u] + 0 = phase'[u]
      <4>. DEFINE P == period_us(u)
                  p == phase'[u]
      <4>1. P \in Nat \ {0} /\ p \in 0 .. P - 1 /\ 0 \in Nat
        BY <3>1
      <4>. HIDE DEF P, p
      <4>2. p \div P = 0
        BY <4>1, NextTicks
      <4>3. p + 0 = p
        BY <4>1
      <4>. QED
        BY <4>2, <4>3 DEF P, p
    <3>. QED
      BY <3>2 DEF Coming, period_us, frequency
  <2>5. RanIn(stack, u)' = 0
    BY <1>1, RanNone
  <2>6. Demand(u, 0)' = MaxWork * (owed'[u] + Coming(u, 0)') - RanIn(stack, u)'
    BY DEF Demand
  <2>7. Demand(u, 0)' = 0
    BY <2>3, <2>4, <2>5, <2>6, TimerBoundsAssumption
  <2>8. \/ due' = [due EXCEPT ![t] = period_us(t)] /\ armed' = armed \cup {t}
        \/ due' = [due EXCEPT ![t] = 0] /\ armed' = armed \ {t}
    BY DEF startTimer, stopTimer
  <2>9. u \in armed' => due'[u] \in Nat
    BY <2>1, <2>8, PeriodPositive DEF TimerInv, TimerType
  <2>. QED
    BY <2>7, <2>9
<1>3. Load(0)' = 0
  <2>1. Load(0)' = parked' + Demand("base", 0)' + Demand("servo", 0)' + Demand("serial", 0)'
    BY DEF Load
  <2>. QED
    BY <1>1, <1>2, <2>1 DEF Thread
<1>4. \A u \in armed' : 0 <= K + due'[u]
  BY <1>2 DEF TimerInv, TimerType
<1>5. 0 \in 0 .. K
  OBVIOUS
<1>. QED
  BY <1>3, <1>4, <1>5 DEF BusyInv

(* A callback is taken: its thread owes the run, and none of it is done.    *)
LEMMA CallbackStack ==
  ASSUME TimerInv, StackInv, NEW t \in Thread, timerCallback(t)
  PROVE  StackInv' /\ \A u \in Thread : RanIn(stack, u)' >= RanIn(stack, u) /\ RanIn(stack, u)' \in Int
<1>1. PICK w \in 1 .. MaxWork : stack' = Append(stack, [thread |-> t, left |-> w])
  BY DEF timerCallback
<1>. DEFINE f == [thread |-> t, left |-> w]
<1>2. f \in Frame /\ stack \in Seq(Frame) /\ f.thread = t /\ f.left = w /\ stack' = Append(stack, f)
  BY <1>1, TimerBoundsAssumption DEF Frame, TimerInv, TimerType
<1>. HIDE DEF f
<1>3. \A i \in DOMAIN stack : stack[i].thread # t
  BY DEF timerCallback, Pending
<1>4. /\ Distinct(stack') /\ RanIn(stack, t) = 0 /\ RanIn(stack', t) = MaxWork - w
      /\ Others(stack, stack', t)
  BY <1>2, <1>3, TakenRuns DEF StackInv
<1>5. UNCHANGED <<armed, owed, parked>>
  BY DEF timerCallback, running, grid
<1>6. t \in armed /\ owed[t] >= 1
  BY DueOwed DEF timerCallback, Pending
<1>7. ASSUME NEW i \in DOMAIN stack'
      PROVE  stack'[i].thread \in armed /\ owed[stack'[i].thread] >= 1 /\ stack'[i].left <= MaxWork
  <2>1. CASE i \in DOMAIN stack
    <3>1. stack'[i] = stack[i]
      BY <1>2, <2>1
    <3>. QED
      BY <2>1, <3>1 DEF StackInv
  <2>2. CASE i \notin DOMAIN stack
    <3>1. stack'[i] = f
      BY <1>2, <1>7, <2>2
    <3>. QED
      BY <1>1, <1>2, <1>6, <3>1, TimerBoundsAssumption
  <2>. QED
    BY <2>1, <2>2
<1>8. StackInv'
  BY <1>4, <1>5, <1>7 DEF StackInv
<1>9. \A u \in Thread : RanIn(stack', u) >= RanIn(stack, u) /\ RanIn(stack', u) \in Int
  <2>1. \A u \in Thread : RanIn(stack, u) \in Int
    BY RanRange, TimerBoundsAssumption
  <2>2. MaxWork - w >= 0 /\ MaxWork - w \in Int
    BY <1>1, TimerBoundsAssumption
  <2>. QED
    BY <1>4, <2>1, <2>2 DEF Others
<1>. QED
  BY <1>8, <1>9

LEMMA CallbackBusy ==
  ASSUME TimerInv, StackInv, NEW K \in Nat, BusyInv(K), NEW t \in Thread, timerCallback(t)
  PROVE  BusyInv(K)'
<1>1. PICK k \in 0 .. K : Load(k) <= k /\ \A u \in armed : k <= K + due[u]
  BY DEF BusyInv
<1>2. UNCHANGED <<armed, owed, phase, due, parked>>
  BY DEF timerCallback, running, grid
<1>3. ASSUME NEW u \in Thread
      PROVE  Demand(u, k)' <= Demand(u, k) /\ Demand(u, k) \in Int /\ Demand(u, k)' \in Int
  <2>. DEFINE c == Coming(u, k)
              m == MaxWork * (owed[u] + c)
  <2>1. Coming(u, k)' = c
    BY <1>2 DEF Coming, period_us, frequency
  <2>2. Demand(u, k)' = m - RanIn(stack, u)' /\ Demand(u, k) = m - RanIn(stack, u)
    BY <1>2, <2>1 DEF Demand
  <2>3. m \in Int
    <3>1. c \in Nat
      BY ComingRange
    <3>2. owed[u] \in Int /\ MaxWork \in Int
      BY TimerBoundsAssumption DEF TimerInv, TimerType
    <3>. QED
      BY <3>1, <3>2
  <2>4. RanIn(stack, u)' >= RanIn(stack, u) /\ RanIn(stack, u)' \in Int
    BY CallbackStack
  <2>5. RanIn(stack, u) \in Int
    BY RanRange, TimerBoundsAssumption
  <2>. HIDE DEF m
  <2>. QED
    BY <2>2, <2>3, <2>4, <2>5
<1>4. Load(k)' <= Load(k) /\ Load(k) \in Int /\ Load(k)' \in Int
  <2>1. /\ Load(k)' = parked' + Demand("base", k)' + Demand("servo", k)' + Demand("serial", k)'
        /\ Load(k) = parked + Demand("base", k) + Demand("servo", k) + Demand("serial", k)
    BY DEF Load
  <2>2. "base" \in Thread /\ "servo" \in Thread /\ "serial" \in Thread /\ parked \in Int
    BY DEF Thread, StackInv
  <2>. QED
    BY <1>2, <1>3, <2>1, <2>2
<1>5. Load(k)' <= k /\ \A u \in armed' : k <= K + due'[u]
  BY <1>1, <1>2, <1>4
<1>. QED
  BY <1>5 DEF BusyInv

(* A callback returns: what it was given is done, and its alarm moves on.   *)
LEMMA ReturnRuns ==
  ASSUME TimerInv, StackInv, callbackReturned
  PROVE  /\ StackInv'
         /\ \A u \in Thread : MaxWork * owed'[u] - RanIn(stack, u)' = MaxWork * owed[u] - RanIn(stack, u)
         /\ \A u \in armed : due'[u] >= due[u]
<1>. DEFINE t == Last(stack).thread
<1>1. /\ stack # <<>> /\ stack \in Seq(Frame) /\ Distinct(stack) /\ Last(stack).left = 0
      /\ stack' = Front(stack)
  BY DEF callbackReturned, TimerInv, TimerType, StackInv
<1>2. /\ Distinct(stack') /\ RanIn(stack, t) = MaxWork - 0 /\ RanIn(stack', t) = 0
      /\ Others(stack, stack', t)
      /\ \A i \in DOMAIN stack' : i \in DOMAIN stack /\ stack'[i] = stack[i] /\ stack'[i].thread # t
  BY <1>1, ReturnedRuns
<1>3. /\ owed' = [owed EXCEPT ![t] = owed[t] - 1] /\ due' = [due EXCEPT ![t] = due[t] + period_us(t)]
      /\ UNCHANGED <<armed, parked>>
  BY DEF callbackReturned, Rearm, t
<1>4. t \in armed /\ owed[t] >= 1 /\ t \in Thread
  <2>1. Len(stack) \in DOMAIN stack /\ t = stack[Len(stack)].thread
    BY <1>1 DEF Last
  <2>. QED
    BY <2>1 DEF StackInv, TimerInv, TimerType
<1>. HIDE DEF t
<1>5. owed \in [Thread -> Int] /\ due \in [Thread -> Int] /\ armed \subseteq Thread
  BY DEF TimerInv, TimerType
<1>6. owed'[t] = owed[t] - 1 /\ \A u \in Thread \ {t} : owed'[u] = owed[u]
  BY <1>3, <1>4, <1>5
<1>7. StackInv'
  <2>1. ASSUME NEW i \in DOMAIN stack'
        PROVE  stack'[i].thread \in armed' /\ owed'[stack'[i].thread] >= 1 /\ stack'[i].left <= MaxWork
    <3>1. stack'[i].thread \in armed /\ owed[stack'[i].thread] >= 1 /\ stack'[i].left <= MaxWork
      BY <1>2, <2>1 DEF StackInv
    <3>. QED
      BY <1>2, <1>3, <1>5, <1>6, <2>1, <3>1
  <2>2. \A u \in Thread : owed'[u] >= 0 /\ (u \notin armed' => owed'[u] = 0)
    BY <1>3, <1>4, <1>5, <1>6 DEF StackInv
  <2>3. parked' \in Nat
    BY <1>3 DEF StackInv
  <2>. QED
    BY <1>2, <2>1, <2>2, <2>3 DEF StackInv
<1>8. \A u \in Thread : MaxWork * owed'[u] - RanIn(stack', u) = MaxWork * owed[u] - RanIn(stack, u)
  <2>1. MaxWork * (owed[t] - 1) - 0 = MaxWork * owed[t] - (MaxWork - 0)
    BY <1>4, <1>5, TimerBoundsAssumption
  <2>2. MaxWork * owed'[t] - RanIn(stack', t) = MaxWork * owed[t] - RanIn(stack, t)
    BY <1>2, <1>6, <2>1
  <2>. QED
    BY <1>2, <1>6, <2>2 DEF Others
<1>9. \A u \in armed : due'[u] >= due[u]
  BY <1>3, <1>4, <1>5, PeriodPositive
<1>. QED
  BY <1>7, <1>8, <1>9

LEMMA ReturnBusy ==
  ASSUME TimerInv, StackInv, NEW K \in Nat, BusyInv(K), callbackReturned
  PROVE  BusyInv(K)'
<1>1. PICK k \in 0 .. K : Load(k) <= k /\ \A u \in armed : k <= K + due[u]
  BY DEF BusyInv
<1>2. UNCHANGED <<armed, phase, parked>>
  BY DEF callbackReturned, Rearm
<1>3. ASSUME NEW u \in Thread
      PROVE  Demand(u, k)' = Demand(u, k)
  <2>. DEFINE c == Coming(u, k)
              m == MaxWork
              r == RanIn(stack, u)
              s == RanIn(stack, u)'
              o == owed[u]
              p == owed'[u]
  <2>1. Coming(u, k)' = c
    BY <1>2 DEF Coming, period_us, frequency
  <2>2. Demand(u, k)' = m * (p + c) - s /\ Demand(u, k) = m * (o + c) - r
    BY <2>1 DEF Demand
  <2>3. m * p - s = m * o - r
    BY ReturnRuns
  <2>4. o \in Int /\ p \in Int
    BY TimerStep DEF TimersNext, TimerInv, TimerType
  <2>5. c \in Int
    BY ComingRange
  <2>6. r \in Int /\ m \in Int
    BY RanRange, TimerBoundsAssumption
  <2>7. s \in Int
    <3>1. s = 0 \/ s = r
      <4>1. Others(stack, stack', Last(stack).thread) /\ RanIn(stack', Last(stack).thread) = 0
        BY ReturnedRuns DEF callbackReturned, TimerInv, TimerType, StackInv
      <4>. QED
        BY <4>1 DEF Others
    <3>. QED
      BY <2>6, <3>1
  <2>. HIDE DEF c, m, r, s, o, p
  <2>8. m * (p + c) = m * p + m * c /\ m * (o + c) = m * o + m * c
    BY <2>4, <2>5, <2>6
  <2>9. m * p \in Int /\ m * o \in Int /\ m * c \in Int
    BY <2>4, <2>5, <2>6
  <2>. QED
    BY <2>2, <2>3, <2>6, <2>7, <2>8, <2>9
<1>4. Load(k)' = Load(k)
  BY <1>2, <1>3 DEF Load, Thread
<1>5. \A u \in armed' : k <= K + due'[u]
  <2>1. \A u \in armed : due[u] \in Int /\ due'[u] \in Int
    BY <1>2, TimerStep DEF TimersNext, TimerInv, TimerType
  <2>. QED
    BY <1>1, <1>2, <2>1, ReturnRuns
<1>. QED
  BY <1>1, <1>4, <1>5 DEF BusyInv

(* A tick is spent in the lockout handler, on the callback that runs, or on *)
(* nothing.                                                                 *)
Works(t) == /\ RanIn(stack, t)' = RanIn(stack, t) + 1 /\ Others(stack, stack', t)
            /\ RanIn(stack, t) < MaxWork /\ owed[t] >= 1

LEMMA TickRuns ==
  ASSUME TimerInv, StackInv, Tick
  PROVE  /\ StackInv'
         /\ \/ parked > 0 /\ parked' = parked - 1 /\ stack' = stack
            \/ parked = 0 /\ parked' = 0 /\ stack' = stack /\ Idle
            \/ parked = 0 /\ parked' = 0 /\ \E t \in Thread : Works(t)
<1>. DEFINE n == Len(stack)
            runs == /\ parked = 0 /\ stack # <<>> /\ Last(stack).left > 0
                    /\ stack' = [stack EXCEPT ![Len(stack)].left = @ - 1]
<1>1. /\ \/ parked > 0 /\ parked' = parked - 1 /\ stack' = stack
         \/ parked = 0 /\ parked' = 0 /\ stack' = stack /\ Idle
         \/ runs /\ parked' = parked
      /\ armed' = armed
  BY DEF Tick, running, StackInv, Idle
<1>2. ASSUME NEW u \in Thread
      PROVE  owed'[u] \in Int /\ owed'[u] >= owed[u] /\ (u \notin armed => owed'[u] = owed[u])
  <2>1. owed'[u] = (IF u \in armed /\ phase'[u] = 0 THEN owed[u] + 1 ELSE owed[u]) /\ owed[u] \in Int
    BY DEF Tick, TimerInv, TimerType
  <2>. QED
    BY <2>1
<1>3. parked' \in Nat /\ \A u \in Thread : owed'[u] >= 0 /\ (u \notin armed' => owed'[u] = 0)
  <2>1. parked' \in Nat
    BY <1>1 DEF StackInv
  <2>2. \A u \in Thread : owed[u] \in Int /\ owed[u] >= 0 /\ (u \notin armed => owed[u] = 0)
    BY DEF StackInv, TimerInv, TimerType
  <2>. QED
    BY <1>1, <1>2, <2>1, <2>2
<1>4. ASSUME runs, NEW t, t = Last(stack).thread
      PROVE  /\ Distinct(stack') /\ RanIn(stack, t) = MaxWork - Last(stack).left
             /\ RanIn(stack', t) = MaxWork - (Last(stack).left - 1)
             /\ Others(stack, stack', t)
             /\ \A i \in DOMAIN stack' : /\ i \in DOMAIN stack /\ stack'[i].thread = stack[i].thread
                                         /\ stack'[i].left = stack[i].left \/ stack'[i].left = stack[i].left - 1
             /\ t \in Thread /\ owed[t] >= 1 /\ Last(stack).left \in Nat \ {0}
  <2>1. stack \in Seq(Frame) /\ Distinct(stack) /\ stack # <<>> /\ stack' = [stack EXCEPT ![n].left = stack[n].left - 1]
    BY <1>4 DEF TimerInv, TimerType, StackInv
  <2>2. n \in DOMAIN stack /\ stack[n] \in Frame /\ Last(stack) = stack[n] /\ t = stack[n].thread
    BY <1>4, <2>1 DEF Last
  <2>. HIDE DEF n
  <2>3. /\ DOMAIN stack' = DOMAIN stack
        /\ stack'[n].thread = Last(stack).thread /\ stack'[n].left = Last(stack).left - 1
    BY <2>1, <2>2 DEF Frame
  <2>4. \A i \in DOMAIN stack : i # n => stack'[i] = stack[i]
    BY <2>1, <2>2
  <2>5. t \in Thread /\ owed[t] >= 1 /\ Last(stack).left \in Nat \ {0}
    BY <1>4, <2>2 DEF StackInv, Frame
  <2>6. /\ DOMAIN stack' = DOMAIN stack
        /\ stack'[Len(stack)].thread = Last(stack).thread /\ stack'[Len(stack)].left = Last(stack).left - 1
    BY <2>3 DEF n
  <2>7. \A i \in DOMAIN stack : i # Len(stack) => stack'[i] = stack[i]
    BY <2>4 DEF n
  <2>8. stack \in Seq(Frame) /\ stack # <<>> /\ Distinct(stack)
    BY <2>1
  <2>9. /\ Distinct(stack') /\ RanIn(stack, t) = MaxWork - Last(stack).left
        /\ RanIn(stack', t) = MaxWork - (Last(stack).left - 1)
        /\ Others(stack, stack', t)
        /\ \A i \in DOMAIN stack' : /\ i \in DOMAIN stack /\ stack'[i].thread = stack[i].thread
                                    /\ stack'[i].left = stack[i].left \/ stack'[i].left = stack[i].left - 1
    <3>1. t = Last(stack).thread
      BY <1>4
    <3>. HIDE DEF runs
    <3>. QED
      BY <2>6, <2>7, <2>8, <3>1, TickedRuns
  <2>. QED
    BY <2>5, <2>9
<1>5. StackInv'
  <2>1. CASE stack' = stack
    BY <1>1, <1>2, <1>3, <2>1 DEF StackInv, TimerInv, TimerType
  <2>2. CASE runs
    <3>1. ASSUME NEW i \in DOMAIN stack'
          PROVE  stack'[i].thread \in armed' /\ owed'[stack'[i].thread] >= 1 /\ stack'[i].left <= MaxWork
      <4>1. /\ stack[i].thread \in armed /\ owed[stack[i].thread] >= 1 /\ stack[i].left <= MaxWork
            /\ stack[i] \in Frame
        BY <1>4, <2>2, <3>1 DEF StackInv, TimerInv, TimerType
      <4>2. stack[i].thread \in Thread /\ stack[i].left \in Nat /\ MaxWork \in Nat
        BY <4>1, TimerBoundsAssumption DEF Frame
      <4>3. stack'[i].left <= MaxWork
        BY <1>4, <2>2, <3>1, <4>1, <4>2
      <4>4. owed[stack[i].thread] \in Int
        BY <4>2 DEF TimerInv, TimerType
      <4>. QED
        BY <1>1, <1>2, <1>4, <2>2, <3>1, <4>1, <4>2, <4>3, <4>4
    <3>. QED
      BY <1>3, <1>4, <2>2, <3>1 DEF StackInv
  <2>. QED
    BY <1>1, <2>1, <2>2
<1>6. ASSUME runs, NEW t, t = Last(stack).thread
      PROVE  Works(t) /\ t \in Thread
  <2>1. Last(stack).left \in Nat \ {0} /\ MaxWork \in Nat
    BY <1>4, <1>6, TimerBoundsAssumption
  <2>. DEFINE l == Last(stack).left
  <2>2. /\ RanIn(stack, t) = MaxWork - l /\ RanIn(stack', t) = MaxWork - (l - 1)
        /\ Others(stack, stack', t) /\ owed[t] >= 1 /\ t \in Thread /\ l \in Nat \ {0}
    BY <1>4, <1>6
  <2>. HIDE DEF l
  <2>3. RanIn(stack', t) = RanIn(stack, t) + 1 /\ RanIn(stack, t) < MaxWork
    BY <2>1, <2>2
  <2>. QED
    BY <2>2, <2>3 DEF Works
<1>. QED
  BY <1>1, <1>5, <1>6

(* Time that passes with nothing to do leaves at most the multiples of the  *)
(* periods that K more ticks can bring.                                     *)
LEMMA IdleTickBusy ==
  ASSUME TimerInv, StackInv, NEW K \in Nat, Fits(K), Tick, Idle, stack' = stack, parked' = 0
  PROVE  BusyInv(K)'
<1>. DEFINE b(t) == MaxWork * ((K \div period_us(t)) + 1)
<1>1. ASSUME NEW t \in Thread
      PROVE  Demand(t, K)' <= b(t) /\ Demand(t, K)' \in Int /\ b(t) \in Int
  <2>. DEFINE c == Coming(t, K + 1)
              d == (K \div period_us(t)) + 1
  <2>1. owed[t] = 0
    BY IdleDemand
  <2>2. c \in Nat /\ d \in Nat /\ c <= d /\ MaxWork \in Nat
    <3>1. K + 1 \in Nat /\ MaxWork \in Nat
      BY TimerBoundsAssumption
    <3>2. c \in Nat
      BY <3>1, ComingRange
    <3>3. K \div period_us(t) \in Nat /\ c <= d
      BY ComingRange
    <3>. QED
      BY <3>1, <3>2, <3>3
  <2>3. owed'[t] + Coming(t, K)' = c
    <3>1. K + 1 \in Nat \ {0} /\ (K + 1) - 1 = K
      OBVIOUS
    <3>2. owed'[t] + Coming(t, (K + 1) - 1)' = owed[t] + c
      BY <3>1, ComingTick
    <3>. QED
      BY <2>1, <2>2, <3>1, <3>2
  <2>4. RanIn(stack, t)' = 0
    BY RanNone DEF Idle
  <2>5. Demand(t, K)' = MaxWork * (owed'[t] + Coming(t, K)') - RanIn(stack, t)'
    BY DEF Demand
  <2>6. Demand(t, K)' = MaxWork * c
    BY <2>2, <2>3, <2>4, <2>5
  <2>. HIDE DEF c, d
  <2>7. MaxWork * (d - c) >= 0 /\ MaxWork * d = MaxWork * c + MaxWork * (d - c)
    BY <2>2
  <2>8. MaxWork * c <= MaxWork * d
    BY <2>2, <2>7
  <2>. QED
    BY <2>2, <2>6, <2>8 DEF d
<1>2. MaxPark + b("base") + b("servo") + b("serial") <= K
  BY DEF Fits
<1>. HIDE DEF b
<1>3. Load(K)' <= K
  <2>1. Load(K)' = parked' + Demand("base", K)' + Demand("servo", K)' + Demand("serial", K)'
    BY DEF Load
  <2>2. "base" \in Thread /\ "servo" \in Thread /\ "serial" \in Thread
    BY DEF Thread
  <2>. QED
    BY <1>1, <1>2, <2>1, <2>2, TimerBoundsAssumption
<1>4. \A t \in armed' : K <= K + due'[t]
  <2>1. armed' = armed /\ \A t \in armed : t \in Thread /\ due'[t] = due[t] - 1 /\ due[t] \in Int
    BY DEF Tick, running, TimerInv, TimerType
  <2>2. \A t \in armed : due[t] > 0
    BY <2>1, IdleDemand
  <2>. QED
    BY <2>1, <2>2
<1>. QED
  BY <1>3, <1>4 DEF BusyInv

(* A tick of a busy period does one tick's worth of the work.               *)
LEMMA WorkTickBusy ==
  ASSUME TimerInv, StackInv, NEW K \in Nat, BusyInv(K), Tick,
         \/ parked > 0 /\ parked' = parked - 1 /\ stack' = stack
         \/ parked = 0 /\ parked' = 0 /\ \E t \in Thread : Works(t)
  PROVE  BusyInv(K)'
<1>1. PICK k \in 0 .. K : Load(k) <= k /\ \A u \in armed : k <= K + due[u]
  BY DEF BusyInv
<1>2. Load(k) = parked + Demand("base", k) + Demand("servo", k) + Demand("serial", k)
  BY DEF Load
<1>3. "base" \in Thread /\ "servo" \in Thread /\ "serial" \in Thread /\ parked \in Nat /\ MaxWork \in Nat
  BY TimerBoundsAssumption DEF Thread, StackInv
<1>4. \A u \in Thread : /\ Demand(u, k) \in Nat /\ Demand(u, k) >= MaxWork * owed[u] - RanIn(stack, u)
                       /\ Demand(u, k) = MaxWork * (owed[u] + Coming(u, k)) - RanIn(stack, u)
  BY DemandRange
<1>5. Load(k) >= 1
  <2>1. CASE parked > 0
    BY <1>2, <1>3, <1>4, <2>1
  <2>2. ASSUME NEW t \in Thread, Works(t)
        PROVE  Load(k) >= 1
    <3>1. RanIn(stack, t) \in Int /\ RanIn(stack, t) < MaxWork /\ owed[t] >= 1 /\ owed[t] \in Int
      BY <2>2, RanRange, TimerBoundsAssumption DEF Works, TimerInv, TimerType
    <3>2. MaxWork * owed[t] >= MaxWork
      BY <1>3, <3>1
    <3>3. MaxWork * owed[t] \in Int
      BY <1>3, <3>1
    <3>4. Demand(t, k) >= 1
      BY <1>3, <1>4, <3>1, <3>2, <3>3
    <3>. QED
      BY <1>2, <1>3, <1>4, <3>4 DEF Thread
  <2>. QED
    BY <2>1, <2>2
<1>6. k \in Nat \ {0} /\ k - 1 \in 0 .. K
  <2>1. Load(k) \in Int
    BY <1>2, <1>3, <1>4
  <2>. QED
    BY <1>1, <1>5, <2>1
<1>7. ASSUME NEW u \in Thread
      PROVE  Demand(u, k - 1)' = Demand(u, k) + RanIn(stack, u) - RanIn(stack, u)'
  <2>. DEFINE m == MaxWork * (owed[u] + Coming(u, k))
  <2>1. owed'[u] + Coming(u, k - 1)' = owed[u] + Coming(u, k)
    BY <1>6, ComingTick
  <2>2. Demand(u, k - 1)' = MaxWork * (owed'[u] + Coming(u, k - 1)') - RanIn(stack, u)'
    BY DEF Demand
  <2>3. Demand(u, k - 1)' = m - RanIn(stack, u)' /\ Demand(u, k) = m - RanIn(stack, u)
    BY <1>4, <2>1, <2>2
  <2>4. RanIn(stack, u) \in Int
    BY RanRange, TimerBoundsAssumption
  <2>5. RanIn(stack, u)' \in Int
    <3>1. RanIn(stack, u)' = RanIn(stack, u) \/ RanIn(stack, u)' = RanIn(stack, u) + 1
      BY DEF Works, Others
    <3>. QED
      BY <2>4, <3>1
  <2>6. m \in Int
    <3>1. Coming(u, k) \in Int /\ owed[u] \in Int
      BY <1>6, ComingRange DEF TimerInv, TimerType
    <3>. QED
      BY <1>3, <3>1
  <2>. HIDE DEF m
  <2>. QED
    BY <2>3, <2>4, <2>5, <2>6
<1>8. Load(k - 1)' = parked' + Demand("base", k - 1)' + Demand("servo", k - 1)' + Demand("serial", k - 1)'
  BY DEF Load
<1>9. \A u \in Thread : RanIn(stack, u) \in Int
  BY RanRange, TimerBoundsAssumption
<1>10. Load(k - 1)' = Load(k) - 1
  <2>1. CASE parked > 0 /\ parked' = parked - 1 /\ stack' = stack
    <3>1. \A u \in Thread : Demand(u, k - 1)' = Demand(u, k)
      BY <1>4, <1>7, <1>9, <2>1
    <3>. QED
      BY <1>2, <1>3, <1>4, <1>8, <2>1, <3>1
  <2>2. ASSUME parked = 0, parked' = 0, NEW t \in Thread, Works(t)
        PROVE  Load(k - 1)' = Load(k) - 1
    <3>1. Demand(t, k - 1)' = Demand(t, k) - 1
      BY <1>4, <1>7, <1>9, <2>2 DEF Works
    <3>2. \A u \in Thread \ {t} : Demand(u, k - 1)' = Demand(u, k)
      BY <1>4, <1>7, <1>9, <2>2 DEF Works, Others
    <3>. QED
      BY <1>2, <1>3, <1>4, <1>8, <2>2, <3>1, <3>2 DEF Thread
  <2>. QED
    BY <2>1, <2>2
<1>11. \A u \in armed' : k - 1 <= K + due'[u]
  <2>1. armed' = armed /\ \A u \in armed : due'[u] = due[u] - 1 /\ due[u] \in Int
    BY DEF Tick, running, TimerInv, TimerType
  <2>. QED
    BY <1>1, <2>1
<1>12. Load(k) \in Int
  BY <1>2, <1>3, <1>4
<1>13. Load(k - 1)' <= k - 1
  BY <1>1, <1>10, <1>12
<1>. QED
  BY <1>6, <1>11, <1>13 DEF BusyInv

-----------------------------------------------------------------------------
LEMMA BusyInit ==
  ASSUME NEW K \in Nat, TimersInit
  PROVE  StackInv /\ BusyInv(K)
<1>1. /\ armed = {} /\ stack = <<>> /\ parked = 0 /\ owed = [t \in Thread |-> 0]
  BY DEF TimersInit
<1>2. StackInv
  BY <1>1 DEF StackInv, Distinct
<1>3. ASSUME NEW t \in Thread
      PROVE  Demand(t, 0) = 0
  <2>1. RanIn(stack, t) = 0
    BY <1>1, RanNone
  <2>2. Coming(t, 0) = 0 /\ owed[t] = 0
    BY <1>1 DEF Coming
  <2>. QED
    BY <2>1, <2>2, TimerBoundsAssumption DEF Demand
<1>4. Load(0) = 0
  BY <1>1, <1>3 DEF Load, Thread
<1>5. 0 \in 0 .. K
  OBVIOUS
<1>. QED
  BY <1>1, <1>2, <1>4, <1>5 DEF BusyInv

LEMMA BusyStep ==
  ASSUME TimerInv, StackInv, NEW K \in Nat, Fits(K), BusyInv(K), [TimersNext]_timersVars
  PROVE  StackInv' /\ BusyInv(K)'
<1>1. TimerInv'
  BY TimerStep
<1>2. ASSUME NEW t \in Thread, startTimer(t) \/ stopTimer(t)
      PROVE  StackInv' /\ BusyInv(K)'
  <2>1. StackInv'
    BY <1>2, IdleStack
  <2>. QED
    BY <1>1, <1>2, <2>1, SetBusy
<1>3. ASSUME NEW t \in Thread, timerCallback(t)
      PROVE  StackInv' /\ BusyInv(K)'
  BY <1>3, CallbackStack, CallbackBusy
<1>4. CASE callbackReturned
  BY <1>4, ReturnRuns, ReturnBusy
<1>5. CASE Park
  <2>1. "base" \in Thread
    BY DEF Thread
  <2>. QED
    BY <1>5, <2>1, IdleStack, ParkBusy
<1>6. CASE Tick
  BY <1>6, TickRuns, IdleTickBusy, WorkTickBusy
<1>7. CASE UNCHANGED <<armed, stack, due, phase, owed, parked>>
  <2>1. StackInv'
    BY <1>7 DEF StackInv
  <2>2. \A k : Load(k)' = Load(k)
    BY <1>7 DEF Load, Demand, Coming, period_us, frequency
  <2>. QED
    BY <1>7, <2>1, <2>2 DEF BusyInv
<1>. QED
  BY <1>2, <1>3, <1>4, <1>5, <1>6, <1>7 DEF TimersNext, configTimer, timersVars, running, grid

(* As long as some K ticks are enough for a flash operation and all the     *)
(* runs that fall due in K ticks, no run waits for longer than K ticks, and *)
(* so for no longer than a lateness that is at least K, whatever the        *)
(* priorities of the interrupt lines.                                       *)
THEOREM RunsInTimeTheorem ==
  ASSUME NEW K \in Nat, Fits(K), \A t \in Thread : MaxLate[t] \in Nat /\ K <= MaxLate[t]
  PROVE  TimersSpec => []RunsInTime
<1>. DEFINE IInv == TimerInv /\ StackInv /\ BusyInv(K)
<1>1. IInv => RunsInTime
  <2>. SUFFICES ASSUME IInv, NEW t \in armed
                PROVE  due[t] >= -MaxLate[t]
    BY DEF RunsInTime
  <2>1. PICK k \in 0 .. K : k <= K + due[t]
    BY DEF BusyInv
  <2>2. due[t] \in Int /\ t \in Thread
    BY DEF TimerInv, TimerType
  <2>3. MaxLate[t] \in Nat /\ K <= MaxLate[t]
    BY <2>2
  <2>. QED
    BY <2>1, <2>2, <2>3
<1>2. TimersInit => IInv
  BY TimerInit, BusyInit
<1>3. IInv /\ [TimersNext]_timersVars => IInv'
  BY TimerStep, BusyStep
<1>. QED
  BY <1>1, <1>2, <1>3, PTL DEF TimersSpec
=============================================================================
