------------------------------ MODULE SpiSlaveRx ------------------------------
(***************************************************************************)
(* The receive half of RP2350_SPIComms: a PIO state machine feeds two      *)
(* chained DMA channels, A into buffer[0] and B into buffer[1]; two        *)
(* interrupt handlers and the polling loop of core 1 turn each 64-byte     *)
(* transaction of the host into a header verdict and, for a write packet,  *)
(* a copy into rxData.                                                     *)
(*                                                                         *)
(* Actors: the host (the bus), the DMA engine, and core 1, whose DMA       *)
(* handler preempts its CS handler, which preempts the tasks() loop.       *)
(* Every transaction carries 64 bytes; SpiSlaveLink drops that assumption. *)
(***************************************************************************)
EXTENDS Integers

CONSTANTS
  MaxTxn,     \* the host makes MaxTxn transactions (bounds the model)
  HostWaits   \* the host begins a transaction only with tasks() polling and
              \* nothing to copy; otherwise with tasks(), or the printf calls
              \* before its loop, at any point

ASSUME MaxTxnAssumption    == MaxTxn \in Nat \ {0}
ASSUME HostWaitsAssumption == HostWaits \in BOOLEAN

VARIABLES
  \* the host
  bus,              \* phase of the current transaction; CS is LOW unless "idle"
  txn,              \* the current, or when idle the last, transaction
  kind,             \* the header the host puts on each transaction
  \* the DMA engine and the interrupt lines
  chan,             \* the RX channel the chain has started: 0 is A, 1 is B
  writeAddr,        \* each channel's WRITE_ADDR, in buffers: 0, 1, or beyond
  buffer,           \* what the two RX buffers hold
  ints0,            \* channels whose completion is pending on DMA_IRQ_0
  nssPending,       \* a CS edge is latched in IO_IRQ_BANK0
  \* core 1
  dmaPc, nssPc, tasksPc,
  RxDMAmemoryIdx, RXbufferIdx, newWriteData, copyRXbuffer,
  src,              \* the source buffer tasks() has chosen
  chosenAt,         \* history: the transaction during or after which it did
  snapshot,         \* that buffer when the copy began
  rxData,           \* the packet remora-core reads
  data,             \* the last dataCallback argument
  synced            \* history: the transaction since which each has begun with
                    \* TasksAsleep (0: the last has not)

host  == <<bus, txn, kind, synced>>
dma   == <<chan, writeAddr, buffer>>
irqs  == <<ints0, nssPending>>
pcs   == <<dmaPc, nssPc, tasksPc>>
flags == <<RxDMAmemoryIdx, RXbufferIdx, newWriteData, copyRXbuffer, data>>
copy  == <<src, chosenAt, snapshot, rxData>>
vars  == <<host, dma, irqs, pcs, flags, copy>>

Chan    == {0, 1}
Txn     == 1 .. MaxTxn
Kinds   == {"read", "write", "bad"}
Zeros   == 0                    \* a buffer as memset leaves it
Mixed   == -1                   \* bytes of more than one packet
Content == Txn \cup {Zeros, Mixed}

OtherOffByOne(c) == c + 1                                     \* mutant
Other(c)    == 1 - c
Put(s, v)   == [c \in Chan |-> IF c = s THEN v ELSE buffer[c]]
Masked      == tasksPc \in {"copy", "copying"}
IrqsDrained == ints0 = {} /\ ~nssPending /\ dmaPc = "idle" /\ nssPc = "idle"
TasksAsleep == tasksPc = "poll" /\ ~copyRXbuffer

(* start(): both buffers cleared, channel A started, then the printf calls. *)
Init ==
  /\ bus = "idle" /\ txn = 0 /\ kind \in [Txn -> Kinds]
  /\ chan = 0 /\ writeAddr = [c \in Chan |-> c] /\ buffer = [c \in Chan |-> Zeros]
  /\ ints0 = {} /\ nssPending = FALSE
  /\ dmaPc = "idle" /\ nssPc = "idle" /\ tasksPc = "printf"
  /\ RxDMAmemoryIdx = 0 /\ RXbufferIdx = 0
  /\ newWriteData = FALSE /\ copyRXbuffer = FALSE
  /\ src = 0 /\ chosenAt = 0 /\ snapshot = Zeros /\ rxData = Zeros
  /\ data = FALSE /\ synced = 0

-----------------------------------------------------------------------------
(* The host.  It leaves CS HIGH long enough between transactions for core 1 *)
(* to finish its handlers, but need not know where tasks() is: nothing in    *)
(* its cycle waits for the slave.                                            *)

CsFall ==
  /\ bus = "idle" /\ txn < MaxTxn
  /\ IrqsDrained /\ (HostWaits => TasksAsleep)
  /\ bus' = "selected" /\ txn' = txn + 1
  /\ nssPending' = TRUE
  /\ synced' = IF ~TasksAsleep THEN 0 ELSE IF synced = 0 THEN txn + 1 ELSE synced
  /\ UNCHANGED <<kind, ints0, dma, pcs, flags, copy>>

(* The first byte lands in the buffer the running channel points at. *)
FirstByte ==
  /\ bus = "selected"
  /\ bus' = "filling"
  /\ buffer' = Put(writeAddr[chan], Mixed)
  /\ UNCHANGED <<txn, kind, synced, chan, writeAddr, irqs, pcs, flags, copy>>

(* The 64th byte: the channel completes, raises its interrupt and chains to *)
(* the other one; its own WRITE_ADDR is left 64 bytes further on.           *)
LastByte ==
  /\ bus = "filling"
  /\ bus' = "clocked"
  /\ buffer' = Put(writeAddr[chan], txn)
  /\ writeAddr' = [writeAddr EXCEPT ![chan] = @ + 1]
  /\ ints0' = ints0 \cup {chan}
  /\ chan' = Other(chan)
  /\ UNCHANGED <<txn, kind, synced, nssPending, pcs, flags, copy>>

CsRise ==
  /\ bus = "clocked"
  /\ bus' = "idle" /\ nssPending' = TRUE
  /\ UNCHANGED <<txn, kind, synced, dma, ints0, pcs, flags, copy>>

-----------------------------------------------------------------------------
(* handleDmaRxInterrupt(): A before B, one channel per call. *)

ServicedIsA == 0                                              \* mutant
Serviced == IF 0 \in ints0 THEN 0 ELSE 1

Header(c) == IF buffer[c] \in Txn THEN kind[buffer[c]] ELSE "bad"

checkHeaderKeepsIndex(c) ==                                   \* mutant
  /\ data' = (Header(c) \in {"read", "write"})
  /\ newWriteData' = (newWriteData \/ Header(c) = "write")
  /\ UNCHANGED RXbufferIdx
checkHeader(c) ==
  /\ data' = (Header(c) \in {"read", "write"})
  /\ newWriteData' = (newWriteData \/ Header(c) = "write")
  /\ RXbufferIdx' = IF Header(c) = "write" THEN c ELSE RXbufferIdx

RearmRxForgotten(c) == UNCHANGED writeAddr                    \* mutant
RearmRx(c) == writeAddr' = [writeAddr EXCEPT ![c] = c]

handleDmaRxInterrupt ==
  /\ dmaPc = "idle" /\ ints0 # {} /\ ~Masked
  /\ dmaPc' = "clear"
  /\ ints0' = ints0 \ {Serviced}
  /\ RearmRx(Serviced)
  /\ RxDMAmemoryIdx' = Serviced
  /\ checkHeader(Serviced)
  /\ UNCHANGED <<host, chan, buffer, nssPending, nssPc, tasksPc, copyRXbuffer, copy>>

(* dma_irq0_handler() then writes INTS0 back to itself: whatever is pending *)
(* by then is cleared with it.                                              *)
ClearInts0 ==
  /\ dmaPc = "clear"
  /\ dmaPc' = "idle" /\ ints0' = {}
  /\ UNCHANGED <<host, dma, nssPending, nssPc, tasksPc, flags, copy>>

-----------------------------------------------------------------------------
(* handleNssInterrupt(): on both CS edges, at a lower priority than the DMA *)
(* interrupt; the level of CS, not the edge, decides.                       *)

NssEnter ==
  /\ nssPending /\ nssPc = "idle" /\ dmaPc = "idle" /\ ints0 = {} /\ ~Masked
  /\ nssPending' = FALSE
  /\ nssPc' = IF bus = "idle" THEN "test" ELSE "idle"
  /\ UNCHANGED <<host, dma, ints0, dmaPc, tasksPc, flags, copy>>

ScheduleCopyLost == UNCHANGED copyRXbuffer                    \* mutant
ScheduleCopy == copyRXbuffer' = (copyRXbuffer \/ newWriteData)

NssTest ==
  /\ nssPc = "test" /\ dmaPc = "idle"
  /\ ScheduleCopy
  /\ nssPc' = IF newWriteData THEN "clear" ELSE "idle"
  /\ UNCHANGED <<host, dma, irqs, dmaPc, tasksPc, RxDMAmemoryIdx, RXbufferIdx,
                 newWriteData, data, copy>>

NewWriteDataStays == UNCHANGED newWriteData                   \* mutant
ForgetNewWriteData == newWriteData' = FALSE

NssClear ==
  /\ nssPc = "clear" /\ dmaPc = "idle"
  /\ ForgetNewWriteData
  /\ nssPc' = "idle"
  /\ UNCHANGED <<host, dma, irqs, dmaPc, tasksPc, RxDMAmemoryIdx, RXbufferIdx,
                 copyRXbuffer, data, copy>>

-----------------------------------------------------------------------------
(* core1_entry() after start(), and its tasks() loop.  The loop runs only   *)
(* while no handler does.                                                   *)

Thread(from, to) ==
  /\ dmaPc = "idle" /\ nssPc = "idle"
  /\ tasksPc = from /\ tasksPc' = to
  /\ UNCHANGED <<dmaPc, nssPc>>

EnterLoop ==
  /\ Thread("printf", "poll")
  /\ UNCHANGED <<host, dma, irqs, flags, copy>>

(* tasks() returns at once while copyRXbuffer is false. *)
TasksIdle ==
  /\ ~copyRXbuffer /\ Thread("poll", "poll")
  /\ UNCHANGED <<host, dma, irqs, flags, copy>>

(* The source pointer is computed before interrupts are disabled. *)
TasksChoose ==
  /\ copyRXbuffer
  /\ Thread("poll", "mask")
  /\ src' = RXbufferIdx /\ chosenAt' = txn
  /\ UNCHANGED <<host, dma, irqs, flags, snapshot, rxData>>

DisableInterrupts ==
  /\ Thread("mask", "copy")
  /\ UNCHANGED <<host, dma, irqs, flags, copy>>

(* The memory-to-memory DMA races only with the RX channels' hardware. *)
CopyBegin ==
  /\ Thread("copy", "copying")
  /\ snapshot' = buffer[src] /\ rxData' = Mixed
  /\ UNCHANGED <<host, dma, irqs, flags, src, chosenAt>>

CopyEnd ==
  /\ Thread("copying", "clear")
  /\ rxData' = (IF buffer[src] = snapshot THEN snapshot ELSE Mixed) /\ chosenAt' = 0
  /\ UNCHANGED <<host, dma, irqs, flags, src, snapshot>>

(* Interrupts are enabled again before the flag is cleared. *)
TasksClear ==
  /\ Thread("clear", "poll")
  /\ copyRXbuffer' = FALSE
  /\ UNCHANGED <<host, dma, irqs, RxDMAmemoryIdx, RXbufferIdx, newWriteData, data, copy>>

-----------------------------------------------------------------------------
Bus   == CsFall \/ FirstByte \/ LastByte \/ CsRise
Isr   == handleDmaRxInterrupt \/ ClearInts0 \/ NssEnter \/ NssTest \/ NssClear
Tasks == \/ EnterLoop \/ TasksIdle \/ TasksChoose \/ DisableInterrupts
         \/ CopyBegin \/ CopyEnd \/ TasksClear

Next == Bus \/ Isr \/ Tasks

Spec == Init /\ [][Next]_vars

(* Core 1 runs, and the host's SPI controller finishes a transaction it has *)
(* begun; the host need not begin another.                                  *)
Fairness == /\ WF_vars(Isr) /\ WF_vars(Tasks)
            /\ WF_vars(FirstByte \/ LastByte \/ CsRise)

FairSpec == Spec /\ Fairness

-----------------------------------------------------------------------------
Quiescent == bus = "idle" /\ IrqsDrained /\ TasksAsleep

(* p is the last write packet among the completed transactions (0: none). *)
IsLastWrite(p) ==
  /\ p = 0 \/ (p \in Txn /\ p <= txn /\ kind[p] = "write")
  /\ \A q \in Txn : p < q /\ q <= txn => kind[q] # "write"

(* Every variable keeps the type the source gives it. *)
TypeOK ==
  /\ bus \in {"idle", "selected", "filling", "clocked"}
  /\ txn \in 0 .. MaxTxn /\ synced \in 0 .. MaxTxn /\ kind \in [Txn -> Kinds]
  /\ chan \in Chan /\ writeAddr \in [Chan -> Nat] /\ buffer \in [Chan -> Content]
  /\ ints0 \subseteq Chan /\ nssPending \in BOOLEAN
  /\ dmaPc \in {"idle", "clear"} /\ nssPc \in {"idle", "test", "clear"}
  /\ tasksPc \in {"printf", "poll", "mask", "copy", "copying", "clear"}
  /\ RxDMAmemoryIdx \in Chan /\ RXbufferIdx \in Chan /\ src \in Chan
  /\ newWriteData \in BOOLEAN /\ copyRXbuffer \in BOOLEAN /\ data \in BOOLEAN
  /\ snapshot \in Content /\ rxData \in Content /\ chosenAt \in 0 .. MaxTxn

(* The DMA never runs away: whenever bytes can arrive, the channel the chain *)
(* has started points at its own buffer, and the two channels never share    *)
(* one (the reset in handleDmaRxInterrupt, and its comment).                 *)
ChannelArmed ==
  /\ bus \in {"selected", "filling"} => writeAddr[chan] = chan
  /\ bus = "idle" /\ IrqsDrained => \A c \in Chan : writeAddr[c] = c

(* Between transactions the comms watchdog has been told about the header of *)
(* the last transaction, and of no older one (checkHeader, dataCallback).    *)
VerdictIsCurrent ==
  bus = "idle" /\ IrqsDrained /\ txn > 0 => data = (kind[txn] \in {"read", "write"})

(* Outside the copy itself rxData holds one whole write packet, or the zeros *)
(* it began with: "disable interrupts during the copy to prevent partial     *)
(* reads".                                                                   *)
WholePackets ==
  tasksPc # "copying" => rxData = Zeros \/ (rxData \in Txn /\ kind[rxData] = "write")

(* A transaction that finds tasks() at its printf or at a copy may be lost to *)
(* it: the copy may be forgotten.  No write is lost since the host has found  *)
(* it polling again: whenever core 1 is at rest, rxData is the last write     *)
(* packet the host completed.                                                 *)
FreshWhenQuiet ==
  Quiescent => \A p \in Txn : IsLastWrite(p) /\ synced \in 1 .. p => rxData = p

(* A copy that delivers a whole packet never delivers one older than a write *)
(* from before the transaction in which tasks() chose its source, however    *)
(* long it was interrupted then: RXbufferIdx never names a stale buffer.     *)
NeverOlder ==
  [][tasksPc = "copying" /\ tasksPc' = "clear" /\ rxData' \in Txn =>
       \A p \in Txn : p < chosenAt /\ kind[p] = "write" => rxData' >= p]_vars

(* A write packet whose transaction has ended reaches remora-core, or a newer *)
(* one does, provided tasks() was polling when the transaction began, and     *)
(* unless the host begins another one while it is not.                        *)
WriteReachesCore ==
  \A p \in Txn :
    (txn = p /\ bus = "idle" /\ kind[p] = "write" /\ synced \in 1 .. p)
      ~> ((rxData \in Txn /\ rxData >= p) \/ synced \notin 1 .. p)
=============================================================================
