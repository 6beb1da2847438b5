------------------------------- MODULE WiznetSpi -------------------------------
(***************************************************************************)
(* Core 1 talks to the W5500 in SPI frames: the driver's register and      *)
(* buffer accesses (w5500.c) over the byte and DMA transfers of            *)
(* RP2350_EthComms.  Three pieces of hardware run beside the code: the     *)
(* shift register, which clocks one byte out and one in, and two DMA       *)
(* channels, which fill the TX FIFO and empty the RX FIFO.                 *)
(*                                                                         *)
(* Of a byte received only its place matters: the n-th byte the chip gave  *)
(* in this frame, or Stale, one of an earlier frame.                       *)
(***************************************************************************)
EXTENDS Integers, Sequences, SequencesExt

CONSTANTS
  Fifo,        \* depth of the TX and of the RX FIFO, 8 in the chip
  MaxLen       \* bound: bytes of one buffer access

ASSUME SizesAssumption == Fifo \in Nat \ {0} /\ MaxLen \in Nat \ {0}

VARIABLES
  call,        \* the access under way, None between two
  todo,        \* its transfers still to come
  transfer,    \* the transfer under way, None between two
  selected,    \* CS is low
  toSend,      \* bytes the TX channel has still to write
  toTake,      \* bytes the RX channel has still to read
  tx,          \* bytes in the TX FIFO
  rx,          \* the RX FIFO
  clocked,     \* bytes the chip has seen in this frame
  buf          \* what the transfer has read

program == <<call, todo, transfer>>
dma     == <<toSend, toTake>>
spi     == <<tx, rx>>
vars    == <<program, selected, dma, spi, clocked, buf>>

None   == [op |-> "none", len |-> 0]
Stale  == 0
Header == 3
Length == 1 .. MaxLen

Burst(op, n) == [op |-> op, len |-> n]
Byte         == Burst("byte", 1)

(* Each access and its transfers.                                           *)
WIZCHIP_READ         == <<Burst("write", Header), Byte>>
WIZCHIP_WRITE        == <<Burst("write", Header + 1)>>
WIZCHIP_READ_BUF(n)  == <<Burst("write", Header), Burst("read", n)>>
WIZCHIP_WRITE_BUF(n) == <<Burst("write", Header), Burst("write", n)>>

Access ==
  {WIZCHIP_READ, WIZCHIP_WRITE}
    \cup {WIZCHIP_READ_BUF(n) : n \in Length} \cup {WIZCHIP_WRITE_BUF(n) : n \in Length}

FrameLength(c) == c[1].len + (IF Len(c) = 2 THEN c[2].len ELSE 0)

Init ==
  /\ call = <<>> /\ todo = <<>> /\ transfer = None /\ selected = FALSE
  /\ toSend = 0 /\ toTake = 0 /\ tx = 0 /\ rx = <<>> /\ clocked = 0 /\ buf = <<>>

-----------------------------------------------------------------------------
(* CS._select(); the chip starts a new frame.                               *)
Select ==
  /\ call = <<>> /\ call' \in Access /\ todo' = call' /\ selected' = TRUE
  /\ clocked' = 0 /\ rx' = [i \in DOMAIN rx |-> Stale]
  /\ UNCHANGED <<transfer, dma, tx, buf>>

WriteNoDrain(n) == toSend' = n /\ toTake' = 0                 \* mutant
(* Both directions of a burst are started, the RX channel of DMA_write into *)
(* a sink.                                                                  *)
DMA_write(n) == toSend' = n /\ toTake' = n
ReadOneMore(n) == toSend' = n /\ toTake' = n + 1              \* mutant
DMA_read(n)  == toSend' = n /\ toTake' = n

Start ==
  /\ todo # <<>> /\ transfer = None
  /\ transfer' = Head(todo) /\ todo' = Tail(todo) /\ buf' = <<>>
  /\ \/ Head(todo).op = "write" /\ DMA_write(Head(todo).len) /\ UNCHANGED tx
     \/ Head(todo).op = "read"  /\ DMA_read(Head(todo).len) /\ UNCHANGED tx
     \/ Head(todo).op = "byte"  /\ tx' = tx + 1 /\ UNCHANGED dma
  /\ UNCHANGED <<call, selected, rx, clocked>>

TxChannel ==
  /\ toSend > 0 /\ tx < Fifo
  /\ toSend' = toSend - 1 /\ tx' = tx + 1
  /\ UNCHANGED <<program, selected, toTake, rx, clocked, buf>>

(* A full RX FIFO drops the byte.  The RX channel, while it runs, is never  *)
(* a FIFO behind: it needs some cycles, a byte at 4 MHz takes 300.          *)
Shift ==
  /\ tx > 0 /\ (toTake > 0 => Len(rx) < Fifo)
  /\ tx' = tx - 1 /\ clocked' = clocked + 1
  /\ rx' = IF Len(rx) < Fifo THEN Append(rx, clocked + 1) ELSE rx
  /\ UNCHANGED <<program, selected, dma, buf>>

RxChannel ==
  /\ toTake > 0 /\ rx # <<>>
  /\ toTake' = toTake - 1 /\ rx' = Tail(rx) /\ buf' = Append(buf, Head(rx))
  /\ UNCHANGED <<program, selected, toSend, tx, clocked>>

TxFinished == toSend = 0                                      \* mutant
(* dma_channel_wait_for_finish_blocking(dmaRxChan)                          *)
Finished == toTake = 0

WaitForFinish ==
  /\ transfer.op \in {"write", "read"} /\ Finished /\ transfer' = None
  /\ UNCHANGED <<call, todo, selected, dma, spi, clocked, buf>>

(* read_byte(), its spi_write_read_blocking() from the wait on              *)
read_byte ==
  /\ transfer.op = "byte" /\ rx # <<>> /\ transfer' = None
  /\ buf' = <<Head(rx)>> /\ rx' = Tail(rx)
  /\ UNCHANGED <<call, todo, selected, dma, tx, clocked>>

(* CS._deselect(), and the access returns.                                  *)
Deselect ==
  /\ call # <<>> /\ todo = <<>> /\ transfer = None
  /\ call' = <<>> /\ selected' = FALSE
  /\ UNCHANGED <<todo, transfer, dma, spi, clocked, buf>>

-----------------------------------------------------------------------------
Code     == Start \/ WaitForFinish \/ read_byte \/ Deselect
Hardware == TxChannel \/ Shift \/ RxChannel
Next     == Select \/ Code \/ Hardware

Fairness == WF_vars(Code) /\ WF_vars(TxChannel) /\ WF_vars(Shift) /\ WF_vars(RxChannel)

Spec == Init /\ [][Next]_vars /\ Fairness

-----------------------------------------------------------------------------
(* What an access reads is the chip's answer to its own clocks: the bytes   *)
(* after the header, in their order, none left over from a write before     *)
(* ("stale bytes that corrupt subsequent byte-level calls").                *)
OwnAnswer ==
  todo = <<>> /\ transfer = None /\ call # <<>> /\ Last(call).op # "write"
    => buf = [i \in 1 .. Last(call).len |-> Header + i]

(* CS rises after the last bit of an access and not before: each frame the  *)
(* chip sees is one whole access, with no channel still at work behind it.  *)
FrameWhole ==
  [][selected /\ ~selected' =>
       clocked = FrameLength(call) /\ toSend = 0 /\ toTake = 0 /\ tx = 0]_vars

(* Every access ends: no wait is for a byte that was lost or never asked    *)
(* for, though the code's waits have no time limit.                         *)
AccessEnds == (call # <<>>) ~> (call = <<>>)
=============================================================================
