# Remora RP2350: a TLA+ model of the firmware and its LinuxCNC drivers

Remora turns a microcontroller into a motion co-processor for LinuxCNC. This
repository ports it to the RP2350: core 0 runs remora-core (threads, modules,
the main state machine; an external library here), core 1 runs the
communication with LinuxCNC, over SPI as a slave or over Ethernet through a
W5500. The LinuxCNC side is a HAL component, one per transport. These modules
model the parts of the port where timing, ordering and loss decide whether it
works.

## Inventory

| Part | State | Operations | Talks to |
|---|---|---|---|
| SPI slave, receive (`RP2350_SPIComms.cpp`, `irqHandlers.h`) | two RX buffers, write addresses of the two chained DMA channels, pending interrupts, `RxDMAmemoryIdx`, `RXbufferIdx`, `newWriteData`, `copyRXbuffer` | `handleDmaRxInterrupt`, `checkHeader`, `handleNssInterrupt`, `tasks` | host through the bus; remora-core through `rxData` and `dataCallback` |
| SPI slave, byte level (`spi_slave.pio`, `initDMA`, `handleNssInterrupt`) | shift registers, scratch X, TX FIFO, TX DMA position, `s_txAligned` | the PIO program; re-arming at CS rise | host, byte by byte |
| Ethernet link (`RP2350_EthComms.cpp`) | `newDataFlagged` | `tasks`, `flag_new_data`, bulk transfers | W5500 driver, `dataCallback` |
| LinuxCNC driver, Ethernet (`remora-eth-3.0.c`) | `status`, `resetOld`, `errCount`, `rxData`, counts and filter per joint | `pru_read`, `update_freq`, `pru_write`, `pru_transfer` | HAL pins; UDP |
| LinuxCNC driver, SPI (`remora-spi.c`) | the same without `errCount` | `spi_read`, `update_freq`, `spi_write`, `spi_transfer` | HAL pins; SPI master |
| W5500 accesses (`RP2350_EthComms.cpp` under `w5500.c`) | chip select, the SPI's two FIFOs, two DMA channels | register and buffer accesses, each a few transfers | the chip; lwIP above |
| Flash writer (`hal_utils.cpp`) | one page buffer, the page it is for, a count of the bytes put into it; flash | erase, page program, byte/half-word/word writes, flush | TFTP upload and configuration store in remora-core |
| Start-up, upload and lockout (`main.cpp`, `hal_utils.cpp`, `upload_config.py`) | which core is a lockout victim and who is parked; the storage and the upload area; the flag between the cores | `main`, `core1_entry`, TFTP blocks, check, copy, `pru_reboot` | both cores through the SIO FIFO; the host; flash |
| Thread timers (`RP2350_timer.cpp`) | a repeating timer per thread, the pools they are in, the priorities of the interrupt lines | configure, start, stop, the callback | alarm pool, remora-core threads |
| Quadrature encoder (`hardware_qei.cpp`, `quadrature_encoder.pio`) | count and last sample in the PIO, its RX FIFO, the index flag | the PIO program, `get`, the index interrupt | QEI module on the servo thread |
| Driver start-up (`rtapi_app_main`, `UDP_init`, `rt_peripheral_init`) | HAL pins, socket, mapped registers | set-up, once | HAL |
| Interrupt dispatch (`irqHandlers.h`, `hardware.h`) | remora-core's vector table | the GPIO and DMA dispatchers | handlers |
| PWM, pins, ADC, LED, SD tables (`remora-hal/`) | slice registers | set-up and polling | remora-core modules |

What is hard here: interrupt handlers of two priorities and a polling loop that
share flags without locks; DMA hardware that interrupt masking does not stop; a
host that knows nothing of the firmware's progress; a byte stream that is cut
into packets by counting only; UDP replies that are lost or late and carry no
sequence number; a watchdog on either side; static buffers used from two cores.
`PROJECT.json` lists each hazard at its line with the property that covers it,
or the reason none does yet.

What makes each part correct: a write packet reaches remora-core whole and no
newer one is overwritten by an older one; the DMA never leaves its buffers; the
watchdog hears of every packet; the response is aligned; a lost link is noticed
by both ends, and one that is off stays off until LinuxCNC resets it; feedback
that is published is current; what is written to flash is what was asked for,
while the other core keeps off the flash; a complete upload is what runs after
the reboot; every thread runs once per period, and in time; every encoder edge
is counted and every read is fresh; a register access gets its own answer.

## Modules

| Module | Models | Checked by |
|---|---|---|
| `SpiSlaveRx` | the receive path at interrupt granularity | runs `rx_late`, `rx_steady` |
| `SpiMailbox` | what the receive path promises: a mailbox of one place | refinement in `rx_steady` |
| `MCSpiSlaveRx` | the refinement mapping from `SpiSlaveRx` to `SpiMailbox` | |
| `SpiSlaveRx_proofs` | its proofs | |
| `SpiSlaveLink` | the slave byte by byte, from `start()` on, short transactions included | `link` |
| `SpiSlaveLink_proofs` | its proofs | |
| `EthLink` | driver, UDP, firmware and watchdog together | `eth`, `eth_off_by_one` |
| `EthLink_proofs` | its proofs | |
| `SpiDriver` | the servo thread of the SPI driver, one joint and its stepper | `driver` |
| `MCSpiDriver` | the instances of `SpiDriver` | |
| `SpiDriver_proofs` | its proofs | |
| `FlashWriter` | the buffered flash writer, one or two cores in it | `flash` |
| `FlashStore` | what the writer promises: a byte store with a durable copy | refinement in `flash` |
| `MCFlashWriter` | the instances of `FlashWriter` | |
| `FlashWriter_proofs` | its proofs, the refinement among them | |
| `ConfigUpload` | both cores, host and flash from reset to reset | `upload` |
| `ConfigUpload_proofs` | its proofs | |
| `ThreadTimers` | the three timers, their interrupts, flash operations that mask them | `timers`, `timers_base_waits` |
| `QuadratureEncoder` | the PIO program, its FIFO, and two readers | `encoder` |
| `Core0_proofs` | proofs about `ThreadTimers` and `QuadratureEncoder`, which share the interrupts of core 0 | |
| `WiznetSpi` | an SPI frame with the hardware beside the code | `wiznet` |
| `WiznetSpi_proofs` | its proofs | |

### SpiSlaveRx

Every variable but the history ones has its counterpart in the code. `bus` is
the phase of the current transaction, `chan` the RX channel the chain has
started, `writeAddr` the two channels' WRITE_ADDR registers counted in buffers
(2 is one past the end), `buffer` what they hold: a transaction's number, zeros,
or `Mixed`. The handlers and the loop are cut where something else can get in:
the DMA handler into the body and the write-back of INTS0
(`handleDmaRxInterrupt`, `ClearInts0`), the CS handler between its test and its
clearing of `newWriteData` (`NssTest`, `NssClear`), `tasks()` at each access to
what the handlers share (`TasksChoose`, `DisableInterrupts`, `CopyBegin`,
`CopyEnd`, `TasksClear`). Priorities are guards: the CS handler runs only while
the DMA handler does not, the loop only while neither does, and no handler
starts while `tasks()` has masked them. The host chooses any sequence of read,
write and bad headers.

One assumption about time is made, in `CsFall`: the host keeps CS high long
enough for core 1 to finish its handlers (the code speaks of a gap of about
850 us), so that a channel never completes while one of them runs. Nothing is
assumed of `tasks()` in `rx_late`: a transaction may begin and end while core 1
prints over USB between `start()` and its loop, and at any point of a copy. A
copy may then be forgotten, by `TasksClear` when the next write packet has set
`copyRXbuffer` already, and it may be torn. `synced` is the transaction since
which every one has found the loop polling, and what is said of lost writes is
said from there on. `HostWaits` is the host that always waits for the loop, in
`rx_steady`. `chosenAt` remembers when `tasks()` read `RXbufferIdx`.

### SpiSlaveLink

`SpiSlaveRx` takes for granted that a transaction is as long as a buffer. This
module drops that: a transaction of which the slave sees only a part is short,
whichever part it is. Bytes are pairs of a transaction (or response) and a
position. The PIO program is `CsFall` (pull and drive the first bit), `Clock` (a
byte each way, then the next pull) and the return to `wait_cs`; `Pull` is
`pull noblock`, with scratch X for an empty FIFO. `RearmTx` is what
`handleNssInterrupt` does at CS rise, and what it does not: it restarts the DMA
and leaves the FIFO alone. On an empty FIFO X is all ones, because `jmp x--`
decrements even when it falls through; the zeros that RP2350_SPIComms.cpp:248
and spi_slave.pio:50 speak of are not what is driven.

`start()` waits for CS to be high, for two seconds at most, and the three ways
out are `StartAtHigh`, `StartAtRise` and `StartAtTimeout`. At a rise the handler,
enabled since `init()`, runs on a FIFO that has been preloaded: the first
responses are shifted by as much as it holds. After the timeout the state
machine joins a transaction of which `missed` bytes have passed. If it joins
within a byte, the bytes it stores are torn; they count as bytes from the middle
of the packet, which no header check accepts either. CS edges between `init()`
and `start()` are left out.

### EthLink

`pru_read` and `pru_write` are cut at the wait for the reply; `Received` and
`TimedOut` are the two ways out of `pru_transfer`, and the switch on
`rxData.header` belongs to the same step. Messages have no number in the code;
the model marks those that answer the last request, so that properties can
speak of freshness. The socket's queue and the network are one sequence: a
datagram has arrived when `recv` takes it. `EthernetTasks`, `CommsUpdate` and
`CoreRun` are external code, modelled from the way `tasks()` and
`flag_new_data()` are used. Headers that the firmware never sends
(error and E-stop) are left out, the branches for zeros stand for them.

### SpiDriver

One action per function of the servo thread, in the order of the HAL files:
`spi_read` has three outcomes (a feedback, a corrupted one, none), `update_freq`
is one step, `spi_write` goes out only when the read was good. Lengths are in
counts and a second has `ServoFreq` periods, so that the doubles become
integers; only the sign of `pos_scale` is left of it. `ff1gain` is 1, its
default. `Period` is the step generator of remora-core. `Disabled` is FALSE
because the driver tests a pointer. `maxvel` has a branch in `update_freq`, but
no parameter sets it: it stays zero, and the limit is the base frequency.
`update_freq` and the spike filter are the same in `remora-eth-3.0.c`, but for
the sign of the default deadband; the map names the lines of one or the other.

Left out: velocity mode, set points, digital pins, the zero-scale check, float
rounding. A link that is lost for longer than `MaxMissed` periods is left out
too: the firmware's watchdog stops the stepper then, and `EthLink` is about that.

### FlashWriter

`page_buf`, `page_flash_offset` and `page_pos` are the three statics. A byte is
the set of its one bits, so that erasing gives all of them and programming
intersects: that is what makes a page safe to program twice as long as the
buffer starts out as 0xFF. `write_to_flash_byte` is cut where another core can
get in: the test of the address (`Compare`), the flush it may call
(`FlushProgram`, `FlushClose`), the new page (`Open`), the byte (`Put`).
Programming and erasing park the other core and are atomic. A half-word or a
word is two or four calls in a row. `allowed` is history: what each byte may
hold once it has reached flash. `EraseSector` is enabled only while no page of
the sector is open; `hal_utils.h` asks its callers to flush after the last
write, and they are not part of this repository.

`FlashStore` knows no pages being open. A byte written to an erased place holds
what was written; one written twice may lose bits; a power loss leaves what was
committed. The mapping reads the open page through the buffer (`Overlay`).

### ConfigUpload

Each core has a place in its own code (`phase`), a block it is working on
(`block`, `page`), and a place in the lockout (`lock`). An area of flash is a row
of blocks; the sectors of an area and the pages of a sector are not told apart,
because each is one operation under one lockout. What one `FlashWriter` page
holds is not told apart either: the TFTP server writes 512 bytes at a time, two
whole pages, so that no page stays open between blocks.

`Register`, `StartCore0`, `LaunchCore1` and `StartCore1` are `main()` and
`core1_entry()`. `StartLockout`, `LockedOut`, `Program`, `EndLockout` are the
lines of `rp2350_flash_erase_sector` and `rp2350_flash_write_page`; `Request`,
`Acknowledged`, `Park` and `Unpark` are the SDK's side of them. Of the SDK it is
assumed: a request takes a mutex, sends a word and waits for the answer without
a time limit; the victim's handler parks with its interrupts masked; a core that
waits in a lockout of its own still takes the interrupt, until it has been
acknowledged. Once core 0's store has ended, `watchdog_reboot()` returns, and
core 0 goes on polling until `Reboot`. `Reset` tears the operation it
interrupts. What remora-core does with the areas (the TFTP server, the check of
length and CRC, `store_json_in_flash`) is external; `upload_config.py`
says what a host sends.

`restless` is a host that begins another upload before the firmware is back. It
is a choice of `Init`, and `LoadedWhole` and `UploadTakesEffect` speak of the
host that waits, as `upload_config.py` does: it uploads once and ends.

### ThreadTimers

Time is in ticks. `configTimer`, `startTimer` and `stopTimer` are the methods;
`timerCallback` and `callbackReturned` are the two ends of a thread's run, kept on a
`stack` because callbacks interrupt each other; `Park` is a flash operation of
core 1, during which core 0 has its interrupts masked. Four facts about the
SDK and the chip are behind it:

- the default alarm pool is on alarm 3 of TIMER0, and its line is at the SDK's
  default priority, 128; base and servo timer are both in it, so `configTimer`'s
  priorities 0 and 64 go to lines (0 and 1) which neither of them uses;
- `alarm_pool_create_with_unused_hardware_alarm` takes the first free alarm of
  the default timer block, which is TIMER0, not TIMER1: the serial thread's line
  is 0 at its first start, with the priority meant for the base thread, and 1 at
  its second, with the servo thread's;
- a pool's handler runs the callbacks that are due one after the other;
- a negative period is counted from start to start: the next target is one
  period after the last target, not after the callback's end.

`owed` and `phase` are history, an independent count of the periods that have
passed and not been served. `baseLate`, `servoLate` and `serialLate` are what
the run asserts, and they are tight: with one tick less TLC finds a later run.

### QuadratureEncoder

`Sample` is the PIO program from its `in`, through the jump table, to the new
count, `Push` is its `push noblock`. `position` and `moved` are the shaft, which
may turn to and fro within a pass of the program, by `MaxEdges` edges at most. A
pass that finds it two edges further answers "no change", three look like one the
other way. `origin` is where the count is zero; it is taken afresh from a pass
that miscounts, and `CountFollows` says that it holds in between. A count in the FIFO is represented by the calls it is older than,
which is all `FreshCount` asks of it. `Level` and `Take` are
`quadrature_encoder_get_count`, run by the servo thread and by the index
interrupt. Which of the two can interrupt the other depends on priorities that
the repository sets in several places, `preempts` covers every case. (As the
build has it, IO_IRQ_BANK0 and the default alarm pool are both at 128, and
neither interrupts the other; a servo thread that did interrupt the handler would
find the flag without its count, and no property is about that.)

### WiznetSpi

A frame is a list of transfers; `WIZCHIP_READ` and its three sisters say which.
`Start` configures both DMA channels, or writes one byte, `WaitForFinish` and
`read_byte` are the two waits, `Deselect` ends the frame. `TxChannel`, `Shift`
and `RxChannel` run at any pace, with one assumption about time, in `Shift`: an
RX channel that is running is never a whole FIFO behind the wire (a byte takes
300 cycles at 4 MHz). Of the data only a byte's place in its frame is kept, or
`Stale` for one of an earlier frame.

## Runs

| Run | Instance | Shows |
|---|---|---|
| `rx_late` | 5 transactions, every header sequence, `tasks()` anywhere when one begins | the DMA stays in its buffers, the watchdog hears of each header, a whole copy is never older than when its source was chosen, and no write is lost once a transaction has found the loop polling, for as long as all do |
| `rx_steady` | 5 transactions, host waits for the loop | no torn packets; the receive path implements the mailbox, liveness included |
| `link` | 7-byte packets, 2-byte header, FIFO of 4, 10 transactions, 2 of them seen in part only, start-up included | responses are aligned again after as many full transactions as the FIFO is deep; a short transaction yields at most one spliced packet with a good header; the shifted receive stream never recovers by itself |
| `eth` | 1 late reply at a time, watchdog of 1 tick | errors trip the driver, it stays off, a cut link is noticed, losses alone heal, the firmware stops when the driver does |
| `eth_off_by_one` | the same | finding: one late reply freezes the feedback |
| `driver` | 2 periods a second, rates up to 2, filter of 2, M of 4, 1 missed and 2 corrupted feedbacks between good ones, a reversed axis | no spike is published, rates never jump, and the axis comes to rest |
| `flash` | 1 core, 2 pages of 2 bytes of 1 bit, a sector each | the writer implements the byte store; what is flushed is what was written |
| `upload` | 2 files, areas of 2 blocks, 3 uploads, 1 power loss | flash is never touched while the other core runs from it, no lockout waits for ever, only a power loss in the middle of a store leaves a broken configuration, and a complete upload takes effect |
| `timers` | periods of 8, 24 and 5 ticks, runs of at most 2, one flash operation of at most 3, the serial timer started twice | no period is lost or merged, runs are late by no more than the bounds, and each thread catches up again and again |
| `timers_base_waits` | the same without a serial thread | finding: the base thread waits for the servo thread |
| `encoder` | a count of 3 bits, a FIFO of 2, up to 3 edges within a pass, 1 interruption of a call | every edge is counted, no read is stale, and no call waits for ever |
| `wiznet` | FIFOs of 8 as in the chip, bursts of up to 12 bytes | accesses read their own bytes, frames are whole, and no wait hangs |

Bounds. Two buffers alternate, so three transactions show every way a copy can
overlap the next packets; five leave room for two that go wrong first. In
`SpiSlaveLink` a packet must be longer than FIFO and shift register together
(`SizesAssumption`); 7 bytes with a FIFO of 4 is the smallest that is, two short
transactions shift the stream and shift it back, ten give each shift time to
drain. One late reply at a time is enough for answers to be off by one, a second
one shifts them again by the same steps. The watchdog's 100 ticks are a
constant; its value does not matter where no clock is.

The stepper of `driver` moves one count per period, so that while the filter
holds twice and one feedback is missed it has gone four: M is exactly that, and
with 3 `SpikesHidden` fails. `Glitch` is more than twice M; a smaller error
cannot be told from motion. Two rates in each direction and an acceleration
limit of one are enough to overshoot.

Two pages are one to leave and one to enter, two bytes make a page that can be
half full, and bits do not influence each other.

Two blocks give an area a first, a last and a half-written state, and a store
two lockouts that the other core's can fall between; three uploads are one that
breaks off, one that is stored, and one after the reboot or, from a restless
host, before it. Three ticks parked and two of
work, against a base period of 8, let the base thread be late by more than a
period, which is the case that has to be made up. 48/9 is truncated as
1000000/57600 is. A count of three bits is a full turn of the pins twice over,
and wraps in both directions; a FIFO of two can be empty, filling or full. A
burst longer than the FIFO exercises both channels' waiting.

Fairness. The receive path: interrupts are served, the loop runs, and an SPI
transfer that has begun ends; the host need not begin another. The Ethernet
link: the servo thread, core 1's loop, core 0's servo tick and main loop keep
running, each being a periodic thread or a `while (true)`; nothing is assumed of
the network as long as it is `lossy`. The SPI driver: the servo thread runs on;
that it then reads good feedback is assumed only once it is `calm`. Uploads:
both cores run, the FIFO's interrupt is served, an armed watchdog fires; nothing
is assumed of the host, nor of power. Timers: time passes, interrupts are taken,
callbacks return. Encoder: the state machine runs, and so does a reader that is
not interrupted; that a call is interrupted only `MaxNested` times is a bound,
and pulses come slower than calls end. W5500: the code runs, the SPI clocks, the
DMA moves.

Deadlock is checked in every run. `SpiSlaveRx` ends in a polling loop, and
`SpiSlaveLink` in `Idle`: the state machine waits at `wait_cs`; `ConfigUpload`
in `Idle`, when both cores poll.

## Proofs

`SpiSlaveRx_proofs` proves, for any number of transactions and any headers, the
four invariants of `rx_late`, and `WholePackets` when the host waits for the
loop. The inductive invariant has three layers. `HwInv` says which buffer the
chain owns and which it has just left, and that at most that one's completion is
pending. `FlagInv` ties the flags to the last transaction: `newWriteData` is set
only while the last transaction was a write and `RXbufferIdx` names its buffer,
and a CS edge is always still to come or being served. `SyncInv` holds as
long as transactions have found the loop polling: a pending copy is always of the
last transaction, and when none is pending `rxData` is the last write. Without
the layer below, none of them is inductive. `SteadyInv` adds that with a patient
host this is so from the start.

The same module proves that the receive path implements the safety part of
`SpiMailbox` when the host waits for the loop: the 64th byte of a write packet
maps to `Post`, the end of the copy to `Take`, every other step to stuttering.
`MailInv` says when `rxData` is still the packet before: until the copy, at each
place the new packet may wait (a channel's completion, `newWriteData`,
`copyRXbuffer`). `NeverOlder` is proved without that condition, from `AgeInv`: the
buffer of the last write header is never older than a write before the current
transaction, nor the one a copy has chosen than a write before `chosenAt`.

`EthLink_proofs` proves type correctness, `LossTripsCycle` and `OffLatches` for
every watchdog and every bound on late replies. The strengthening is `TripInv`
(status may be on above the error limit only between a read and its write),
`EdgeInv` (a read is under way with status off only on an edge of reset) and
`NetType` (there is room for the next request).

`SpiDriver_proofs` proves type correctness and `RateLag` for every gain, limit
and servo frequency, and `SpikesHidden` under `Plausible`: if the stepper moves
at most `Step` counts in a period, M must be at least
`Step * (MaxMissed + MaxCorrupt + 1)`. `FilterInv` is the strengthening: the
filter counts corrupted feedbacks only, and the published count is at most `Age`
periods old. With the code's M of 250, the default base frequency of 40 kHz and
a servo period of 1 ms, Step is 40 and three feedbacks in a row may get lost;
with the 240 kHz that `rtapi_app_main` admits, Step is 240 and the condition
fails: after one lost feedback honest motion looks like a spike.

`FlashWriter_proofs` proves type correctness, `FlushedIsDurable` and the
refinement of `FlashStore` for any flash, page size and sectors, with one core in
the writer. The invariant is `OverlayInv` (every byte, seen through the buffer,
is one it may hold), `PageInv` (between the test and the store the open page is
the caller's own; after programming the buffer has nothing more to clear) and
`PosInv` (there is room when a byte is put). With two cores `PageInv` is what
breaks (see Known disagreements). The refinement needs no
fairness: `StepSimulation` maps `Put` to a write, programming to a commit, and
the rest of the writer to stuttering.

`ConfigUpload_proofs` has two inductive invariants. `LockInv` follows each lockout
from its request to its end: the victim is parked from the moment the requester
may go on until it is let go, at most one lockout is past its request, and no
parked core asks. `FlashAlone` and `ParkedForOne` follow for any number of
uploads and power losses. `StoreInv` follows the file: while the host keeps to
the protocol, the upload area holds one whole file until core 0 has copied it
(`QuietInv`), a copy under way has done exactly the blocks before its place
(`CopyInv`), and outside a copy the storage is whole or blank (`KeptInv`).
`LoadedTheorem` needs one assumption about code outside the repository, that
`Remora::run` clears `new_flash_json` before it stores (`FlagCleared = TRUE`);
the counterexample without it is under Known disagreements.

`SpiSlaveLink_proofs` proves all four invariants of `link`, for packets, headers
and a FIFO of any size that fit `SizesAssumption`. For the response, the number to
follow is `Len(sent) + 1 + Len(fifo) - dmaNext`, the bytes shown, in the shift
register and in the FIFO, less those the DMA has written: what is left of older
responses. A pull leaves it alone as long as the
DMA can refill, and what `FifoInv` says is that it is at most `MayBeStale`, which
a short transaction sets to the FIFO's depth, as does a start that finds one under
way, and a full one lowers by one, because the pull after the last byte finds the
DMA finished. When it is zero `ResponseInv`
gives each byte its place. For the receive stream, `Pending` is a buffer begun with
a header by a transaction that ended too soon: `SpliceInv` counts it as a splice to
come, so that a short transaction pays for it in advance. `ShiftInv` compares the
two positions within a transaction: as long as the buffer under way is longer than
what this transaction has sent, an earlier one began it, in the middle of a packet
when the stream is shifted; once it is shorter, this one began it, and not with its
first byte. `SplicedOncePerShort` and `ShiftedStreamIsDead` are not inductive
without them: whether a completed buffer is a splice is decided by where it began,
perhaps transactions earlier. The last theorem there, `BufferTheorem`, is what `SpiSlaveRx`
assumes: with no short transaction, every CS rise finds exactly that transaction in
the buffer completed last, and the next one empty.

`Core0_proofs` holds the proofs of two components. `NoRunLost` is proved for any
periods, execution times and stretches of masked interrupts; with the types it is
inductive.

`RunsInTimeTheorem` bounds the lateness of a run by the longest busy period, where
there is one: some `K` ticks that are enough for a flash operation and all the runs
that fall due in `K` ticks (`Fits`). Such a `K` exists exactly when the run times
leave something of the processor, and it must be no larger than `MaxLate`. The
strengthening is `BusyInv`: at any moment some `k` of the `K` ticks are left, in which
everything owed, and everything that falls due in them, gets done (`Load(k) <= k`),
and no run has waited for longer than `K - k`. A tick with work to do takes one from
both sides, whichever callback it goes to; a flash operation, or a tick with nothing
to do, begins a new period of `K` ticks. `StackInv` is what makes the count exact: the
callbacks under way are of different threads, and each has a run owed, so that the
ticks they have had (`RanIn`) belong to runs that count. The priorities play no part,
hence the bound is not tight: for the instance of `timers` it gives 19 ticks for each
thread, and TLC finds 12, 12 and 6.

`FreshCount` is proved for a FIFO of any depth and any number of
interruptions. It rests on `TakesMore`: the counts
older than a call are at the front of the FIFO, and `get()` still takes at least
one more than there are, whatever the other reader took meanwhile. `CountFollows` is proved for a counter of any width that is a
multiple of four, 2^32 included, and any number of edges within a pass. The
strengthening is `SampleInv`: the OSR holds the pins of where the shaft was at the
last sample, `moved` edges back, also across the wrap of the counter, which is where the
multiple of four is needed. `CountedEdge` reads the jump table, and `ModAdd` and
`ModUnique` are the arithmetic modulo a width that is not a number yet.

`WiznetSpi_proofs` proves `OwnAnswer` and `FrameWhole` for FIFOs of any depth and
accesses of any length. `Flow` is the argument: every byte of a transfer is still
to be sent, in the TX FIFO, clocked and in the RX FIFO, or read, and each is at
its place; `Stage` says which transfer of the access is under way. That the RX
FIFO never drops a byte is a consequence (in `ShiftStep`), not an assumption,
once the RX channel has finished.

The assumptions are those of the modules: the bounds are natural numbers, a page
has at least one byte, no page is the mark for none, a file is neither blank
nor torn.

Only model-checked: every liveness property and the fairness of `SpiMailbox`, which
are beyond the prover, and the exact lateness of each thread in `timers`, which
`RunsInTimeTheorem` only bounds.

## Known disagreements

Two runs end in a counterexample, and their findings quote the line that says
otherwise: `eth_off_by_one` and `timers_base_waits`. The models show more of the
kind; each can be seen by a change of constants:

- RP2350_SPIComms.cpp:287 masks interrupts for the copy, which does not stop the
  RX DMA: with the constants of `MCSpiSlaveRxLate.cfg`, `WholePackets` fails.
- remora-eth-3.0.c:724 switches on the header of an older reply after a transfer
  without one, so that a reset edge on a dead link turns status on.
- hal_utils.cpp:74 keeps one page buffer for both cores. With `Core = {0, 1}` and
  `Region <- Each` in `MCFlashWriter.cfg`, `FlushedIsDurable` fails. The code's
  callers keep apart by the upload protocol only.
- remora-spi.c:946 takes the default deadband without `fabs`. With
  `AbsDeadband = FALSE`, `Settles` fails on a reversed axis.
- remora-spi.c:1017 tests a pointer where the pin's value is meant: a disabled
  joint keeps computing a rate (`Disabled` is FALSE).
- A host that uploads again before the reboot, or a `Remora::run` that clears
  `new_flash_json` after the store (`FlagCleared = FALSE`), breaks `LoadedWhole`:
  the second copy is cut by the watchdog.
- RP2350_timer.cpp:33 truncates: the serial thread's bit clock is 58.8 kHz, not
  57.6. Line 38 speaks of TIMER1, but the pool it makes is on TIMER0; and as no
  pool is destroyed, the third start of the serial timer is on a line nobody
  raised, and the fourth fails.
- The comment at RP2350_timer.cpp:32 has a negative period run from the end of
  the callback; the SDK counts from its start, which is what the threads need.

## Not modelled, and the plan

Driver start-up runs once, in order, on one thread, and a model would only repeat
it. Read off the code: `rt_peripheral_init` returns -1 on failure, and the
caller's test takes it for success (remora-spi.c:278); a failure of `UDP_init`
leaves without `hal_exit` and with the socket open (remora-eth-3.0.c:235).
Interrupt dispatch is a table lookup in remora-core; what its order of steps
means for the receive path is in `SpiSlaveRx`. PWM set-up computes registers from
two arguments, pins, ADC, LED and SD tables keep no state of their own. The
Raspberry Pi register libraries, lwIP and the rest of the WIZnet library are
vendored, and by far the largest part of the tree: the lines the modules stand
for are a small share of it, and most of the port's own code. The socket level of
`w5500.c` (`getSn_RX_RSR`, `wiz_recv_data`, ...) is called from remora-core's
network glue, which is not in this repository. Also left out: velocity mode,
whose count has no bound a finite instance could use, several joints (they do
not interact), the readers of `rxData` in remora-core's threads.

What is left to do:

1. A lateness of its own for each thread in `RunsInTimeTheorem`, from the priorities
   of the interrupt lines and the pools: for the base thread, one run of a thread of
   its pool and a flash operation.
2. Velocity mode of `update_freq` with a count that wraps, as the firmware's does.
