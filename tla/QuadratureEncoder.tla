--------------------------- MODULE QuadratureEncoder ---------------------------
(***************************************************************************)
(* The hardware quadrature encoder.  A PIO program counts the edges of the *)
(* channels A and B and keeps pushing its count into a FIFO; get() drains  *)
(* the FIFO, for the servo thread and for the interrupt of the index       *)
(* channel, which latches the count.                                       *)
(*                                                                         *)
(* Positions and counts are modulo W, 2^32 in the code.  Of a count in the *)
(* FIFO the readers tell apart only how old it is.                         *)
(***************************************************************************)
EXTENDS Integers, Sequences, SequencesExt

CONSTANTS
  W,           \* the counter wraps at W
  Depth,       \* of the RX FIFO
  MaxEdges,    \* bound: edges of both channels within one pass of the program
  MaxNested    \* bound: interruptions of one call of get()

ASSUME WidthAssumption  == W \in Nat /\ W > 4 /\ W % 4 = 0
ASSUME BoundsAssumption == Depth \in Nat \ {0} /\ MaxEdges \in Nat /\ MaxNested \in Nat

VARIABLES
  position, moved,   \* of the shaft; by how much since the program sampled the pins
  edges,             \* and in how many edges
  y, osr, pio,       \* the count; the pins at the last sample; "push" or "sample"
  fifo,              \* per count, the readers whose call it is older than
  call, left, ret,   \* per reader: where in get(), counts still to take, the last taken
  nested,            \* interruptions of the call under way
  pulse,             \* the index interrupt is pending
  indexDetected,
  preempts,          \* <<r, s>>: reader r may interrupt s
  origin             \* history: position at count zero

shaft   == <<position, moved, edges>>
program == <<y, osr, pio>>
index   == <<pulse, indexDetected>>
vars    == <<shaft, program, fifo, call, left, ret, nested, index, preempts, origin>>

Reader  == {"servo", "index"}
Count   == 0 .. W - 1
Unknown == W         \* origin before the first sample

(* The pins as 2B + A, a quarter turn each.                                 *)
Pins(p) == <<0, 2, 3, 1>>[(p % 4) + 1]

Init ==
  /\ position \in 0 .. 3 /\ moved = 0 /\ edges = 0
  /\ y = 0 /\ osr = 0 /\ pio = "push" /\ fifo = <<>>
  /\ call = [r \in Reader |-> "idle"] /\ left = [r \in Reader |-> 0]
  /\ ret = [r \in Reader |-> {}] /\ nested = 0
  /\ pulse = FALSE /\ indexDetected = FALSE
  /\ preempts \in {{}, {<<"servo", "index">>}, {<<"index", "servo">>}}
  /\ origin = Unknown

-----------------------------------------------------------------------------
(* The shaft turns by one edge, to and fro, also more than once before the  *)
(* program has looked again: the glitch of its jump table.                  *)
Turn(d) ==
  /\ edges < MaxEdges /\ edges' = edges + 1
  /\ position' = (position + d) % W /\ moved' = moved + d
  /\ UNCHANGED <<program, fifo, call, left, ret, nested, index, preempts, origin>>

PushOnEdge == fifo' = IF moved = 0 \/ Len(fifo) = Depth THEN fifo ELSE Append(fifo, {})  \* mutant
(* push noblock: a full FIFO keeps what it has.                             *)
PushNoblock == fifo' = IF Len(fifo) = Depth THEN fifo ELSE Append(fifo, {})

Push ==
  /\ pio = "push" /\ pio' = "sample" /\ PushNoblock
  /\ UNCHANGED <<shaft, y, osr, call, left, ret, nested, index, preempts, origin>>

(* The jump table, at 4 * previous pins + pins.                             *)
Increment == {2, 4, 11, 13}
DecrementShort == {1, 7, 8}                                   \* mutant
Decrement == {1, 7, 8, 14}

Counted(old, new) ==
  LET entry == 4 * old + new IN
    IF entry \in Increment THEN 1 ELSE IF entry \in Decrement THEN -1 ELSE 0

(* The first sample compares with an OSR of zero.  A shaft two edges or     *)
(* more further is miscounted, and the count goes on from there.            *)
Sample ==
  LET pins == Pins(position)
      y1   == (y + Counted(osr, pins)) % W
  IN /\ pio = "sample" /\ pio' = "push"
     /\ y' = y1 /\ osr' = pins /\ moved' = 0 /\ edges' = 0
     /\ origin' = IF origin = Unknown \/ moved \notin {-1, 0, 1} THEN (position - y1) % W ELSE origin
     /\ UNCHANGED <<position, fifo, call, left, ret, nested, index, preempts>>

-----------------------------------------------------------------------------
(* A reader runs unless one that interrupted it has not returned.           *)
Runs(r) == \A q \in Reader : <<q, r>> \in preempts => call[q] = "idle"

Goto(r, l) == call' = [call EXCEPT ![r] = l]

(* It begins when nobody else is at it, or only one it may interrupt.       *)
Begin(r) ==
  /\ call[r] = "idle" /\ Goto(r, "level")
  /\ IF \A q \in Reader : call[q] = "idle"
       THEN nested' = 0
       ELSE /\ \A q \in Reader \ {r} : <<r, q>> \in preempts
            /\ nested < MaxNested /\ nested' = nested + 1
  /\ UNCHANGED <<shaft, program, fifo, left, ret, preempts, origin>>

ServoTick  == Begin("servo") /\ UNCHANGED index

IndexPulse ==
  /\ pulse' = TRUE
  /\ UNCHANGED <<shaft, program, fifo, call, left, ret, nested, indexDetected, preempts, origin>>

handleIndexInterrupt ==
  /\ pulse /\ pulse' = FALSE /\ Begin("index")
  /\ indexDetected' = TRUE

LevelOnly == Len(fifo)                                        \* mutant
ToTake == Len(fifo) + 1

(* pio_sm_get_rx_fifo_level(): what is in the FIFO now is old to this call. *)
Level(r) ==
  /\ call[r] = "level" /\ Runs(r)
  /\ Goto(r, IF ToTake > 0 THEN "take" ELSE "done") /\ left' = [left EXCEPT ![r] = ToTake]
  /\ fifo' = [i \in DOMAIN fifo |-> fifo[i] \cup {r}]
  /\ UNCHANGED <<shaft, program, ret, nested, index, preempts, origin>>

(* pio_sm_get_blocking().                                                   *)
Take(r) ==
  /\ call[r] = "take" /\ Runs(r) /\ fifo # <<>>
  /\ fifo' = Tail(fifo) /\ ret' = [ret EXCEPT ![r] = Head(fifo)]
  /\ left' = [left EXCEPT ![r] = @ - 1]
  /\ IF left[r] = 1 THEN Goto(r, "done") ELSE UNCHANGED call
  /\ UNCHANGED <<shaft, program, nested, index, preempts, origin>>

(* handleIndexInterrupt() stores what get() returned, ret; the QEI module   *)
(* of remora-core clears the flag when it has taken the stored count.       *)
Return(r) ==
  /\ call[r] = "done" /\ Runs(r) /\ Goto(r, "idle") /\ ret' = [ret EXCEPT ![r] = {}]
  /\ indexDetected' = (r = "index" /\ indexDetected)
  /\ UNCHANGED <<shaft, program, fifo, left, nested, pulse, preempts, origin>>

-----------------------------------------------------------------------------
get(r) == Level(r) \/ Take(r) \/ Return(r)

Next ==
  \/ \E d \in {-1, 1} : Turn(d)
  \/ Push \/ Sample
  \/ ServoTick \/ IndexPulse \/ handleIndexInterrupt
  \/ \E r \in Reader : get(r)

(* The state machine runs freely; a handler that is not interrupted goes on.*)
Fairness == WF_vars(Push) /\ WF_vars(Sample) /\ \A r \in Reader : WF_vars(get(r))

Spec == Init /\ [][Next]_vars /\ Fairness

-----------------------------------------------------------------------------
(* Every edge is counted once, with its sign, through the wrap and through  *)
(* every reversal, unless one pass finds the shaft two edges further.       *)
CountFollows == origin # Unknown => (y + origin + moved) % W = position

(* get() never returns a count from before it was called, though the FIFO   *)
(* keeps the oldest counts since it was last drained, and though the index  *)
(* interrupt and the servo thread may drain it in each other's calls.       *)
FreshCount == \A r \in Reader : call[r] = "done" => r \notin ret[r]

(* get() waits for one count more than it saw, and never for ever.          *)
GetReturns == \A r \in Reader : call[r] = "take" ~> call[r] = "done"
=============================================================================
