----------------------------- MODULE SpiSlaveLink -----------------------------
(***************************************************************************)
(* The SPI slave byte by byte: the PIO program spi_slave_mode0, its TX     *)
(* FIFO, the TX DMA channel re-armed at each CS rise, and the RX byte      *)
(* stream that the chained RX channels cut into buffers.                   *)
(*                                                                         *)
(* SpiSlaveRx assumes that every transaction has a buffer's worth of bytes.*)
(* Here the slave may also see only a part of one: LinuxCNC is killed      *)
(* during a transfer, CS glitches, or a transaction is under way when      *)
(* start() wants to let the state machine in.                              *)
(***************************************************************************)
EXTENDS Integers, Sequences

CONSTANTS
  N,          \* Config::dataBuffSize, the bytes of a buffer
  H,          \* the bytes of a header
  FifoDepth,  \* the PIO TX FIFO
  MaxTxn,     \* bounds the model: transactions ...
  MaxShort    \* ... and how many of them the slave sees in part only

ASSUME SizesAssumption == /\ {N, H, FifoDepth} \subseteq Nat \ {0}
                          /\ H < N /\ FifoDepth + 1 < N
ASSUME BoundsAssumption == MaxTxn \in Nat /\ MaxShort \in Nat

VARIABLES
  cs,          \* "high", "low", or "risen": high, handleNssInterrupt still to run;
               \* "wait": start() is at its loop, the state machine not enabled
  missed,      \* bytes of this transaction that passed before it was
  txn, shorts, \* history: transactions begun, those that were short for the slave
  sinceShort,  \* history: full transactions ended since the last short one
  \* transmit
  frame,       \* which copy of txData s_txAligned holds
  dmaNext,     \* the TX DMA's position in s_txAligned (N: finished)
  fifo,        \* the PIO TX FIFO
  osr,         \* the byte in the state machine's output shift register
  sent,        \* the bytes this transaction has shown the host
  \* receive
  rx,          \* what the running RX channel has stored so far
  received,    \* the last buffer an RX channel completed
  spliced      \* history: mixed buffers whose header passed checkHeader

bus  == <<cs, missed, txn, shorts, sinceShort>>
tx   == <<frame, dmaNext, fifo, osr, sent>>
rcv  == <<rx, received, spliced>>
vars == <<bus, tx, rcv>>

Byte(f, i) == [of |-> f, at |-> i]      \* byte i of frame or transaction f
Zero == Byte(-1, 0)
Ones == Byte(-2, 0)

Lesser(a, b) == IF a < b THEN a ELSE b

(* The TX DMA keeps the FIFO full while it has bytes left.  An aborted      *)
(* transfer leaves what it has already written there.                       *)
RoomUnbounded(q, next) == N - next                            \* mutant
Room(q, next) == Lesser(FifoDepth - Len(q), N - next)
Filled(q, f, next) == q \o [i \in 1 .. Room(q, next) |-> Byte(f, next + i - 1)]

(* pull noblock: the FIFO's head, or scratch X when the FIFO is empty.      *)
Pull(x) ==
  IF fifo = <<>>
    THEN osr' = x /\ UNCHANGED <<fifo, dmaNext>>
    ELSE /\ osr' = Head(fifo)
         /\ fifo' = Filled(Tail(fifo), frame, dmaNext)
         /\ dmaNext' = dmaNext + Room(Tail(fifo), dmaNext)

(* start(): the response is preloaded before the state machine runs.        *)
Init ==
  /\ cs = "wait" /\ missed = 0 /\ txn = 0 /\ shorts = 0 /\ sinceShort = 0
  /\ frame = 0 /\ fifo = Filled(<<>>, 0, 0) /\ dmaNext = FifoDepth
  /\ osr = Zero /\ sent = <<>>
  /\ rx = <<>> /\ received = <<>> /\ spliced = 0

(* CS is high, between transactions.                                        *)
StartAtHigh ==
  /\ cs = "wait" /\ cs' = "high"
  /\ UNCHANGED <<missed, txn, shorts, sinceShort, tx, rcv>>

(* The host's transaction ends while start() waits: IO_IRQ_BANK0 has been    *)
(* enabled before, and handleNssInterrupt finds the FIFO preloaded.          *)
StartAtRise ==
  /\ cs = "wait" /\ cs' = "risen"
  /\ txn < MaxTxn /\ txn' = txn + 1
  /\ shorts < MaxShort /\ shorts' = shorts + 1 /\ sinceShort' = 0
  /\ UNCHANGED <<missed, tx, rcv>>

(* CS has been low for two seconds, and wait_cs falls through in the middle  *)
(* of a transaction, j bytes of which are lost.  Let in on the middle of a   *)
(* byte, the program stores torn ones: they too are no header's.             *)
StartAtTimeout(j) ==
  /\ cs = "wait" /\ cs' = "low" /\ missed' = j
  /\ txn < MaxTxn /\ txn' = txn + 1 /\ sent' = <<>>
  /\ shorts < MaxShort /\ shorts' = shorts + 1 /\ sinceShort' = 0
  /\ Pull(Zero)
  /\ UNCHANGED <<frame, rcv>>

(* wait_cs falls through: the first byte is pulled and its top bit driven.  *)
(* X is 0 or, after a byte that was cancelled, 6: its top byte is 0.        *)
CsFall ==
  /\ cs = "high" /\ txn < MaxTxn
  /\ cs' = "low" /\ txn' = txn + 1 /\ sent' = <<>>
  /\ Pull(Zero)
  /\ UNCHANGED <<missed, shorts, sinceShort, frame, rcv>>

HeaderAnywhere(b) == \A i \in 1 .. H : b[i].of = b[1].of       \* mutant
HeaderOk(b) == \A i \in 1 .. H : b[i] = Byte(b[1].of, i - 1)
IsWhole(b)  == \A i \in 1 .. Len(b) : b[i] = Byte(b[1].of, i - 1)

OneByteMore == N + 1                                            \* mutant
TransCount  == N

(* push noblock: the RX DMA stores the byte; after the last of its transfer *)
(* the channel completes, checkHeader looks at the buffer and the other     *)
(* channel runs.                                                            *)
Store(b) ==
  LET got == Append(rx, b) IN
    IF Len(got) < TransCount
      THEN rx' = got /\ UNCHANGED <<received, spliced>>
      ELSE /\ rx' = <<>> /\ received' = got
           /\ spliced' = IF HeaderOk(got) /\ ~IsWhole(got) THEN spliced + 1 ELSE spliced

(* Eight clocks: one byte each way.  jmp x-- has left X at 2^32 - 1 when    *)
(* the program wraps and, CS being still low, pulls the next byte at once,  *)
(* even after the last one.                                                 *)
Clock ==
  /\ cs = "low" /\ missed + Len(sent) < N
  /\ sent' = Append(sent, osr)
  /\ Store(Byte(txn, missed + Len(sent)))
  /\ Pull(Ones)
  /\ UNCHANGED <<bus, frame>>

CsRise ==
  /\ cs = "low" /\ cs' = "risen" /\ missed' = 0
  /\ IF Len(sent) < N /\ missed = 0
       THEN shorts < MaxShort /\ shorts' = shorts + 1
       ELSE UNCHANGED shorts
  /\ sinceShort' = IF Len(sent) < N THEN 0 ELSE sinceShort + 1
  /\ UNCHANGED <<txn, tx, rcv>>

(* handleNssInterrupt(): the state machine is sent back to wait_cs, txData  *)
(* copied, the TX DMA aborted and started again from byte 0.  Nothing       *)
(* empties the FIFO.                                                        *)
RearmTxForgotten == frame' = txn /\ UNCHANGED <<fifo, dmaNext>>  \* mutant
RearmTx ==
  /\ frame' = txn
  /\ fifo' = Filled(fifo, txn, 0)
  /\ dmaNext' = Room(fifo, 0)

handleNssInterrupt ==
  /\ cs = "risen"
  /\ cs' = "high"
  /\ RearmTx
  /\ UNCHANGED <<missed, txn, shorts, sinceShort, osr, sent, rcv>>

(* The host stays silent: the state machine waits at wait_cs. *)
Idle == cs = "high" /\ txn = MaxTxn /\ UNCHANGED vars

start == StartAtHigh \/ StartAtRise \/ \E j \in 1 .. N - 1 : StartAtTimeout(j)

Next == start \/ CsFall \/ Clock \/ CsRise \/ handleNssInterrupt \/ Idle
Spec == Init /\ [][Next]_vars

-----------------------------------------------------------------------------
TypeOK ==
  /\ cs \in {"wait", "high", "low", "risen"} /\ missed \in 0 .. N - 1
  /\ txn \in 0 .. MaxTxn /\ shorts \in 0 .. MaxShort /\ sinceShort \in 0 .. MaxTxn
  /\ frame \in 0 .. txn /\ dmaNext \in 0 .. N
  /\ Len(fifo) <= FifoDepth /\ missed + Len(sent) <= N
  /\ Len(rx) < N /\ Len(received) \in {0, N} /\ spliced \in 0 .. MaxTxn

(* The host reads the response from its first byte on, and all of it is the  *)
(* txData of the last CS rise, unless a short transaction came less than     *)
(* FifoDepth full ones ago (handleNssInterrupt re-arms the DMA, not the      *)
(* FIFO; the byte the program pulls after the last one drains it).           *)
ResponseAligned ==
  cs = "low" /\ (shorts = 0 \/ sinceShort >= FifoDepth)
    => \A i \in 1 .. Len(sent) : sent[i] = Byte(txn - 1, i - 1)

(* A short transaction costs the firmware at most one packet put together of *)
(* two transactions under a good header: checkHeader rejects what follows.   *)
SplicedOncePerShort == spliced <= shorts

(* The RX channels are never re-aligned: while the stream is shifted, every  *)
(* buffer after the first starts inside a packet, so checkHeader reports bad *)
(* data until another short transaction happens to shift it back.            *)
ShiftedStreamIsDead ==
  cs # "low" /\ rx # <<>> /\ sinceShort > 1 => ~HeaderOk(received)
=============================================================================
