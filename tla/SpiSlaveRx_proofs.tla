--------------------------- MODULE SpiSlaveRx_proofs ---------------------------
(***************************************************************************)
(* Proofs about SpiSlaveRx, for every number of transactions, every        *)
(* sequence of headers and both values of HostWaits.                       *)
(*                                                                         *)
(* The inductive invariant has three layers:                               *)
(*   HwInv     which buffer the DMA chain owns and which it has left       *)
(*   FlagInv   what the handlers' flags say about the last transaction     *)
(*   SyncInv   once tasks() was found polling when a transaction began,    *)
(*             how far the last write packet has got on its way to rxData  *)
(***************************************************************************)
EXTENDS MCSpiSlaveRx, TLAPS

Left == Other(chan)       \* the channel (and its buffer) that completed last
Ended == bus \in {"clocked", "idle"} /\ txn > 0

HwInv ==
  /\ ints0 \subseteq {Left}
  /\ bus \in {"selected", "filling"} => ints0 = {} /\ dmaPc = "idle"
  /\ dmaPc = "clear" => ints0 = {}
  /\ nssPc # "idle" => bus = "idle" /\ ints0 = {} /\ dmaPc = "idle"
  /\ writeAddr[chan] = chan
  /\ ints0 = {} => writeAddr[Left] = Left
  /\ txn = 0 => bus = "idle" /\ ints0 = {} /\ dmaPc = "idle"
  /\ Ended => buffer[Left] = txn

FlagInv ==
  /\ Ended /\ ints0 = {} => data = (kind[txn] \in {"read", "write"})
  /\ newWriteData => /\ Ended /\ ints0 = {}
                     /\ kind[txn] = "write" /\ RXbufferIdx = Left
  /\ nssPc = "clear" => newWriteData /\ copyRXbuffer
  /\ bus = "idle" /\ ints0 # {} => nssPending /\ nssPc = "idle"
  /\ bus = "idle" /\ newWriteData => nssPending \/ nssPc # "idle"
  /\ bus = "clocked" /\ kind[txn] = "write" /\ ints0 = {} => newWriteData

(* The last write before the current transaction is p. *)
LastBefore(p) ==
  /\ p \in Txn /\ p < txn /\ kind[p] = "write"
  /\ \A q \in Txn : p < q /\ q < txn => kind[q] # "write"

SyncInv ==
  synced > 0 =>
    /\ synced <= txn /\ tasksPc # "printf"
    /\ bus # "idle" => TasksAsleep
    /\ copyRXbuffer => bus = "idle" /\ ints0 = {} /\ kind[txn] = "write" /\ RXbufferIdx = Left
    /\ tasksPc # "poll" => copyRXbuffer /\ src = Left
    /\ tasksPc = "copying" => snapshot = txn
    /\ tasksPc = "clear" => rxData = txn
    /\ bus = "idle" /\ kind[txn] = "write"
         => ints0 # {} \/ newWriteData \/ copyRXbuffer \/ rxData = txn
    /\ bus # "idle" \/ kind[txn] # "write"
         => \A p \in Txn : LastBefore(p) /\ synced <= p => rxData = p

IInv == TypeOK /\ HwInv /\ FlagInv /\ SyncInv

(* While the host waits for the tasks() loop, nothing happens before it.    *)
SteadyInv ==
  HostWaits =>
    /\ WholePackets
    /\ synced = 0 => /\ txn = 0 /\ ~copyRXbuffer /\ ~newWriteData
                     /\ tasksPc \in {"printf", "poll"}
-----------------------------------------------------------------------------
(* Every action keeps the types. *)
LEMMA TypeStep == TypeOK /\ [Next]_vars => TypeOK'
<1> SUFFICES ASSUME TypeOK, [Next]_vars PROVE TypeOK'
  OBVIOUS
<1> USE MaxTxnAssumption, HostWaitsAssumption
    DEF TypeOK, host, dma, irqs, pcs, flags, copy, Chan, Txn, Kinds, Content, Zeros, Mixed, Other, Put
<1>1. CASE CsFall
  BY <1>1 DEF CsFall
<1>2. CASE FirstByte
  BY <1>2 DEF FirstByte
<1>3. CASE LastByte
  BY <1>3 DEF LastByte
<1>4. CASE CsRise
  BY <1>4 DEF CsRise
<1>5. CASE handleDmaRxInterrupt
  BY <1>5 DEF handleDmaRxInterrupt, Serviced, RearmRx, checkHeader, Header
<1>6. CASE ClearInts0
  BY <1>6 DEF ClearInts0
<1>7. CASE NssEnter
  <2>1. nssPending' \in BOOLEAN
    BY <1>7, Zenon DEF NssEnter
  <2>. QED
    BY <1>7, <2>1 DEF NssEnter
<1>8. CASE NssTest
  BY <1>8 DEF NssTest, ScheduleCopy
<1>9. CASE NssClear
  <2>1. newWriteData' \in BOOLEAN
    BY <1>9, Zenon DEF NssClear, ForgetNewWriteData
  <2>. QED
    BY <1>9, <2>1 DEF NssClear, ForgetNewWriteData
<1>10. CASE EnterLoop
  BY <1>10 DEF EnterLoop, Thread
<1>11. CASE TasksIdle
  BY <1>11 DEF TasksIdle, Thread
<1>12. CASE TasksChoose
  BY <1>12 DEF TasksChoose, Thread
<1>13. CASE DisableInterrupts
  BY <1>13 DEF DisableInterrupts, Thread
<1>14. CASE CopyBegin
  BY <1>14 DEF CopyBegin, Thread
<1>15. CASE CopyEnd
  BY <1>15 DEF CopyEnd, Thread
<1>16. CASE TasksClear
  <2>1. copyRXbuffer' \in BOOLEAN
    BY <1>16, Zenon DEF TasksClear
  <2>. QED
    BY <1>16, <2>1 DEF TasksClear, Thread
<1>17. CASE UNCHANGED vars
  BY <1>17 DEF vars
<1>. QED
  BY <1>1, <1>2, <1>3, <1>4, <1>5, <1>6, <1>7, <1>8, <1>9, <1>10, <1>11, <1>12, <1>13, <1>14, <1>15, <1>16, <1>17 DEF Next, Bus, Isr, Tasks

(* The DMA chain: the handler has re-armed a channel before the chain comes *)
(* back to it, and the other channel's buffer still holds the last packet.  *)
LEMMA HwStep == TypeOK /\ HwInv /\ [Next]_vars => HwInv'
<1> SUFFICES ASSUME TypeOK, HwInv, [Next]_vars PROVE HwInv'
  OBVIOUS
<1> USE MaxTxnAssumption
    DEF TypeOK, HwInv, Left, Ended, IrqsDrained, host, dma, irqs, pcs, flags, copy, Chan, Txn, Other, Put
<1>1. CASE CsFall
  BY <1>1 DEF CsFall
<1>2. CASE FirstByte
  BY <1>2 DEF FirstByte
<1>3. CASE LastByte
  BY <1>3 DEF LastByte
<1>4. CASE CsRise
  BY <1>4 DEF CsRise
<1>5. CASE handleDmaRxInterrupt
  BY <1>5 DEF handleDmaRxInterrupt, Serviced, RearmRx, checkHeader, Header
<1>6. CASE ClearInts0
  BY <1>6 DEF ClearInts0
<1>7. CASE NssEnter
  BY <1>7 DEF NssEnter
<1>8. CASE NssTest
  BY <1>8 DEF NssTest, ScheduleCopy
<1>9. CASE NssClear
  BY <1>9 DEF NssClear, ForgetNewWriteData
<1>10. CASE EnterLoop
  BY <1>10 DEF EnterLoop, Thread
<1>11. CASE TasksIdle
  BY <1>11 DEF TasksIdle, Thread
<1>12. CASE TasksChoose
  BY <1>12 DEF TasksChoose, Thread
<1>13. CASE DisableInterrupts
  BY <1>13 DEF DisableInterrupts, Thread
<1>14. CASE CopyBegin
  BY <1>14 DEF CopyBegin, Thread
<1>15. CASE CopyEnd
  BY <1>15 DEF CopyEnd, Thread
<1>16. CASE TasksClear
  BY <1>16 DEF TasksClear, Thread
<1>17. CASE UNCHANGED vars
  BY <1>17 DEF vars
<1>. QED
  BY <1>1, <1>2, <1>3, <1>4, <1>5, <1>6, <1>7, <1>8, <1>9, <1>10, <1>11, <1>12, <1>13, <1>14, <1>15, <1>16, <1>17 DEF Next, Bus, Isr, Tasks

(* The handler always finds the header of the transaction that just ended.  *)
LEMMA LastCompleted ==
  TypeOK /\ HwInv /\ handleDmaRxInterrupt
    => ints0 = {Left} /\ Serviced = Left /\ Ended /\ Header(Left) = kind[txn]
<1> SUFFICES ASSUME TypeOK, HwInv, handleDmaRxInterrupt
             PROVE  ints0 = {Left} /\ Serviced = Left /\ Ended /\ Header(Left) = kind[txn]
  OBVIOUS
<1> USE DEF TypeOK, HwInv, Left, Ended, Chan, Txn, Other
<1>1. Left \in ints0 /\ ints0 \subseteq {Left}
  BY DEF handleDmaRxInterrupt
<1>2. ints0 = {Left}
  BY <1>1, Zenon
<1>3. Serviced = Left
  BY <1>2 DEF Serviced
<1>4. Ended
  BY <1>2
<1>5. Header(Left) = kind[txn]
  BY <1>4 DEF Header
<1>. QED
  BY <1>2, <1>3, <1>4, <1>5

(* The flags the two handlers hand to each other speak of the last packet.  *)
LEMMA FlagStep == TypeOK /\ HwInv /\ FlagInv /\ [Next]_vars => FlagInv'
<1> SUFFICES ASSUME TypeOK, HwInv, FlagInv, [Next]_vars PROVE FlagInv'
  OBVIOUS
<1> USE MaxTxnAssumption
    DEF TypeOK, HwInv, FlagInv, Left, Ended, IrqsDrained, host, dma, irqs, pcs, flags, copy, Chan, Txn, Kinds, Other, Put
<1>1. CASE CsFall
  BY <1>1 DEF CsFall
<1>2. CASE FirstByte
  BY <1>2 DEF FirstByte
<1>3. CASE LastByte
  BY <1>3 DEF LastByte
<1>4. CASE CsRise
  BY <1>4 DEF CsRise
<1>5. CASE handleDmaRxInterrupt
  <2>1. ints0 = {Left} /\ Serviced = Left /\ Ended /\ Header(Left) = kind[txn]
    BY <1>5, LastCompleted
  <2>3. data' = (kind[txn] \in {"read", "write"})
    BY <1>5, <2>1, Zenon DEF handleDmaRxInterrupt, checkHeader
  <2>4. newWriteData' = (newWriteData \/ kind[txn] = "write")
    BY <1>5, <2>1, Zenon DEF handleDmaRxInterrupt, checkHeader
  <2>5. kind[txn] = "write" => RXbufferIdx' = Left
    BY <1>5, <2>1 DEF handleDmaRxInterrupt, checkHeader
  <2>6. /\ ints0' = {} /\ ~newWriteData /\ nssPc = "idle" /\ Left' = Left
        /\ (bus = "idle" => nssPending)
        /\ UNCHANGED <<bus, txn, kind, nssPc, nssPending, copyRXbuffer>>
    BY <1>5, <2>1 DEF handleDmaRxInterrupt
  <2>. QED
    BY <2>1, <2>3, <2>4, <2>5, <2>6
<1>6. CASE ClearInts0
  BY <1>6 DEF ClearInts0
<1>7. CASE NssEnter
  BY <1>7 DEF NssEnter
<1>8. CASE NssTest
  BY <1>8 DEF NssTest, ScheduleCopy
<1>9. CASE NssClear
  BY <1>9 DEF NssClear, ForgetNewWriteData
<1>10. CASE EnterLoop
  BY <1>10 DEF EnterLoop, Thread
<1>11. CASE TasksIdle
  BY <1>11 DEF TasksIdle, Thread
<1>12. CASE TasksChoose
  BY <1>12 DEF TasksChoose, Thread
<1>13. CASE DisableInterrupts
  BY <1>13 DEF DisableInterrupts, Thread
<1>14. CASE CopyBegin
  BY <1>14 DEF CopyBegin, Thread
<1>15. CASE CopyEnd
  BY <1>15 DEF CopyEnd, Thread
<1>16. CASE TasksClear
  BY <1>16 DEF TasksClear, Thread
<1>17. CASE UNCHANGED vars
  BY <1>17 DEF vars
<1>. QED
  BY <1>1, <1>2, <1>3, <1>4, <1>5, <1>6, <1>7, <1>8, <1>9, <1>10, <1>11, <1>12, <1>13, <1>14, <1>15, <1>16, <1>17 DEF Next, Bus, Isr, Tasks

(* One completed write packet makes its way to rxData while the host waits. *)
LEMMA SyncStep == IInv /\ [Next]_vars => SyncInv'
<1> SUFFICES ASSUME TypeOK, HwInv, FlagInv, SyncInv, [Next]_vars PROVE SyncInv'
  BY DEF IInv
<1> USE MaxTxnAssumption
    DEF TypeOK, HwInv, FlagInv, SyncInv, LastBefore, TasksAsleep, Left, Ended, IrqsDrained,
        host, dma, irqs, pcs, flags, copy, Chan, Txn, Kinds, Other, Put
<1>1. CASE CsFall
  <2> SUFFICES ASSUME synced' > 0 PROVE SyncInv'
    OBVIOUS
  <2>1. /\ bus = "idle" /\ IrqsDrained /\ ~newWriteData
        /\ txn' = txn + 1 /\ bus' = "selected"
        /\ UNCHANGED <<kind, ints0, dma, pcs, flags, copy>>
    BY <1>1 DEF CsFall
  <2>2. TasksAsleep /\ synced' = (IF synced = 0 THEN txn + 1 ELSE synced)
    BY <1>1 DEF CsFall
  <2>3. ASSUME NEW p \in Txn, LastBefore(p)', synced' <= p
        PROVE  rxData = p
    <3>1. synced > 0 /\ synced <= p /\ p <= txn /\ kind[p] = "write"
      BY <2>1, <2>2, <2>3
    <3>2. CASE p = txn
      BY <2>1, <2>2, <3>1, <3>2
    <3>3. CASE p < txn
      BY <2>1, <2>2, <2>3, <3>1, <3>3
    <3>. QED
      BY <3>1, <3>2, <3>3
  <2>. QED
    BY <2>1, <2>2, <2>3
<1>2. CASE FirstByte
  BY <1>2 DEF FirstByte
<1>3. CASE LastByte
  BY <1>3 DEF LastByte
<1>4. CASE CsRise
  BY <1>4 DEF CsRise
<1>5. CASE handleDmaRxInterrupt
  <2>1. ints0 = {Left} /\ Serviced = Left /\ Ended /\ Header(Left) = kind[txn]
    BY <1>5, LastCompleted
  <2>3. newWriteData' = (newWriteData \/ kind[txn] = "write")
    BY <1>5, <2>1, Zenon DEF handleDmaRxInterrupt, checkHeader
  <2>4. ~copyRXbuffer \/ synced = 0
    BY <2>1
  <2>. QED
    BY <1>5, <2>1, <2>3, <2>4 DEF handleDmaRxInterrupt
<1>6. CASE ClearInts0
  BY <1>6 DEF ClearInts0
<1>7. CASE NssEnter
  BY <1>7 DEF NssEnter
<1>8. CASE NssTest
  BY <1>8 DEF NssTest, ScheduleCopy
<1>9. CASE NssClear
  BY <1>9 DEF NssClear, ForgetNewWriteData
<1>10. CASE EnterLoop
  BY <1>10 DEF EnterLoop, Thread
<1>11. CASE TasksIdle
  BY <1>11 DEF TasksIdle, Thread
<1>12. CASE TasksChoose
  BY <1>12 DEF TasksChoose, Thread
<1>13. CASE DisableInterrupts
  BY <1>13 DEF DisableInterrupts, Thread
<1>14. CASE CopyBegin
  BY <1>14 DEF CopyBegin, Thread
<1>15. CASE CopyEnd
  BY <1>15 DEF CopyEnd, Thread
<1>16. CASE TasksClear
  BY <1>16 DEF TasksClear, Thread
<1>17. CASE UNCHANGED vars
  BY <1>17 DEF vars
<1>. QED
  BY <1>1, <1>2, <1>3, <1>4, <1>5, <1>6, <1>7, <1>8, <1>9, <1>10, <1>11, <1>12, <1>13, <1>14, <1>15, <1>16, <1>17 DEF Next, Bus, Isr, Tasks

(* While the host waits for the loop, rxData is whole outside every copy.   *)
LEMMA SteadyStep == IInv /\ SteadyInv /\ [Next]_vars => SteadyInv'
<1> SUFFICES ASSUME TypeOK, HwInv, FlagInv, SyncInv, SteadyInv, HostWaits, [Next]_vars
             PROVE  SteadyInv'
  BY DEF IInv, SteadyInv
<1> USE MaxTxnAssumption
    DEF TypeOK, HwInv, FlagInv, SyncInv, SteadyInv, WholePackets, TasksAsleep,
        Left, Ended, host, dma, irqs, pcs, flags, copy, Chan, Txn, Kinds, Other, Zeros
<1>1. CASE CsFall
  BY <1>1 DEF CsFall
<1>2. CASE FirstByte
  BY <1>2 DEF FirstByte
<1>3. CASE LastByte
  BY <1>3 DEF LastByte
<1>4. CASE CsRise
  BY <1>4 DEF CsRise
<1>5. CASE handleDmaRxInterrupt
  BY <1>5 DEF handleDmaRxInterrupt, Serviced, RearmRx, checkHeader, Header
<1>6. CASE ClearInts0
  BY <1>6 DEF ClearInts0
<1>7. CASE NssEnter
  <2>1. nssPending' \in BOOLEAN
    BY <1>7, Zenon DEF NssEnter
  <2>. QED
    BY <1>7, <2>1 DEF NssEnter
<1>8. CASE NssTest
  BY <1>8 DEF NssTest, ScheduleCopy
<1>9. CASE NssClear
  <2>1. newWriteData' \in BOOLEAN
    BY <1>9, Zenon DEF NssClear, ForgetNewWriteData
  <2>. QED
    BY <1>9, <2>1 DEF NssClear, ForgetNewWriteData
<1>10. CASE EnterLoop
  BY <1>10 DEF EnterLoop, Thread
<1>11. CASE TasksIdle
  BY <1>11 DEF TasksIdle, Thread
<1>12. CASE TasksChoose
  BY <1>12 DEF TasksChoose, Thread
<1>13. CASE DisableInterrupts
  BY <1>13 DEF DisableInterrupts, Thread
<1>14. CASE CopyBegin
  BY <1>14 DEF CopyBegin, Thread
<1>15. CASE CopyEnd
  BY <1>15 DEF CopyEnd, Thread
<1>16. CASE TasksClear
  <2>1. copyRXbuffer' \in BOOLEAN
    BY <1>16, Zenon DEF TasksClear
  <2>. QED
    BY <1>16, <2>1 DEF TasksClear, Thread
<1>17. CASE UNCHANGED vars
  BY <1>17 DEF vars
<1>. QED
  BY <1>1, <1>2, <1>3, <1>4, <1>5, <1>6, <1>7, <1>8, <1>9, <1>10, <1>11, <1>12, <1>13, <1>14, <1>15, <1>16, <1>17 DEF Next, Bus, Isr, Tasks

-----------------------------------------------------------------------------
LEMMA InitInv == Init => IInv /\ SteadyInv
<1> SUFFICES ASSUME Init PROVE IInv /\ SteadyInv
  OBVIOUS
<1> USE MaxTxnAssumption DEF Init, Chan, Txn, Kinds, Content, Zeros, Mixed, Left, Ended, Other
<1>1. TypeOK
  <2>1. /\ nssPending \in BOOLEAN /\ newWriteData \in BOOLEAN
        /\ copyRXbuffer \in BOOLEAN /\ data \in BOOLEAN
    BY Zenon
  <2>. QED
    BY <2>1 DEF TypeOK
<1>2. HwInv /\ FlagInv /\ SyncInv /\ SteadyInv
  BY DEF HwInv, FlagInv, SyncInv, SteadyInv, WholePackets, TasksAsleep
<1>. QED
  BY <1>1, <1>2 DEF IInv

LEMMA StepInv == IInv /\ [Next]_vars => IInv'
  BY TypeStep, HwStep, FlagStep, SyncStep DEF IInv

(* Every variable of the receive path keeps its type. *)
THEOREM TypeCorrect == Spec => []TypeOK
<1>1. IInv => TypeOK
  BY DEF IInv
<1>. QED
  BY InitInv, StepInv, <1>1, PTL DEF Spec

(* The RX channels never run past their buffers, whatever the start-up.     *)
THEOREM DmaNeverRunsAway == Spec => []ChannelArmed
<1>1. IInv => ChannelArmed
  BY DEF IInv, TypeOK, HwInv, ChannelArmed, Left, Other, Chan, IrqsDrained
<1>. QED
  BY InitInv, StepInv, <1>1, PTL DEF Spec

(* The watchdog is told about every transaction's own header.               *)
THEOREM VerdictTheorem == Spec => []VerdictIsCurrent
<1>1. IInv => VerdictIsCurrent
  BY DEF IInv, FlagInv, VerdictIsCurrent, Ended, IrqsDrained
<1>. QED
  BY InitInv, StepInv, <1>1, PTL DEF Spec

(* Once tasks() has been found polling, no write is lost.                   *)
THEOREM NoWriteLost == Spec => []FreshWhenQuiet
<1>1. IInv => FreshWhenQuiet
  <2> SUFFICES ASSUME IInv, Quiescent,
                      NEW p \in Txn, IsLastWrite(p), synced \in 1 .. p
               PROVE  rxData = p
    BY DEF FreshWhenQuiet
  <2> USE DEF IInv, TypeOK, Txn, Quiescent, IrqsDrained, TasksAsleep, IsLastWrite
  <2>1. synced > 0 /\ p <= txn /\ kind[p] = "write" /\ txn \in Txn
    BY MaxTxnAssumption
  <2>2. CASE p = txn
    BY <2>1, <2>2 DEF FlagInv, SyncInv
  <2>3. CASE p < txn
    BY <2>1, <2>3 DEF SyncInv, LastBefore
  <2>. QED
    BY <2>1, <2>2, <2>3
<1>. QED
  BY InitInv, StepInv, <1>1, PTL DEF Spec

(* If the host waits for the tasks() loop, no torn packet reaches rxData.   *)
THEOREM NoTornPacket == ASSUME HostWaits PROVE Spec => []WholePackets
<1>1. SteadyInv => WholePackets
  BY DEF SteadyInv
<1>. QED
  BY InitInv, StepInv, SteadyStep, <1>1, PTL DEF Spec

-----------------------------------------------------------------------------
(* The refinement of SpiMailbox.                                            *)
IsLast(p, n) ==
  /\ p \in 0 .. n /\ (p = 0 \/ kind[p] = "write")
  /\ \A q \in p + 1 .. n : kind[q] # "write"

(* The packet of the current transaction is not in rxData yet, or will not  *)
(* be.                                                                      *)
Untaken ==
  \/ bus # "idle" \/ kind[txn] # "write" \/ ints0 # {} \/ newWriteData
  \/ copyRXbuffer /\ tasksPc \notin {"copying", "clear"}

MailInv ==
  /\ IsLast(LastWrite(txn), txn)
  /\ IF txn = 0 THEN rxData = 0 ELSE IsLast(LastWrite(txn - 1), txn - 1)
  /\ txn > 0 /\ Untaken => rxData = LastWrite(txn - 1)
  /\ newWriteData => tasksPc = "poll" /\ (nssPc = "clear" \/ ~copyRXbuffer)

BoxInv == IInv /\ SteadyInv /\ MailInv

LEMMA LastUnique ==
  ASSUME NEW n \in Nat, NEW p, IsLast(p, n)
  PROVE  LastWrite(n) = p
<1>1. \E c \in 0 .. n : IsLast(c, n)
  BY DEF IsLast
<1>2. IsLast(LastWrite(n), n)
  BY <1>1 DEF IsLast, LastWrite
<1>3. ASSUME NEW a, NEW b, IsLast(a, n), IsLast(b, n), a < b
      PROVE  FALSE
  BY <1>3 DEF IsLast
<1>. QED
  BY <1>2, <1>3 DEF IsLast

(* One transaction more. *)
LEMMA LastNext ==
  ASSUME NEW n \in Nat, IsLast(LastWrite(n), n)
  PROVE  /\ LastWrite(n + 1) = IF kind[n + 1] = "write" THEN n + 1 ELSE LastWrite(n)
         /\ IsLast(LastWrite(n + 1), n + 1)
<1>. DEFINE p == IF kind[n + 1] = "write" THEN n + 1 ELSE LastWrite(n)
<1>1. IsLast(p, n + 1)
  BY DEF IsLast
<1>2. LastWrite(n + 1) = p
  BY <1>1, LastUnique
<1>. QED
  BY <1>1, <1>2

(* What the host has posted, in terms of the last transaction. *)
LEMMA LastTxn ==
  ASSUME TypeOK, MailInv
  PROVE  /\ txn > 0 => LastWrite(txn) = IF kind[txn] = "write" THEN txn ELSE LastWrite(txn - 1)
         /\ txn > 0 => LastWrite(txn - 1) < txn /\ LastWrite(txn - 1) \in Nat
         /\ txn = 0 => LastWrite(txn) = 0
<1>1. txn \in Nat
  BY DEF TypeOK
<1>2. CASE txn > 0
  <2>1. txn - 1 \in Nat /\ IsLast(LastWrite(txn - 1), txn - 1) /\ (txn - 1) + 1 = txn
    BY <1>1, <1>2 DEF MailInv
  <2>2. LastWrite(txn) = IF kind[txn] = "write" THEN txn ELSE LastWrite(txn - 1)
    BY <2>1, LastNext
  <2>. QED
    BY <1>1, <1>2, <2>1, <2>2 DEF IsLast
<1>3. CASE txn = 0
  BY <1>3 DEF MailInv, IsLast
<1>. QED
  BY <1>1, <1>2, <1>3

(* At rest between two transactions, rxData is the last packet posted.      *)
LEMMA AtRest ==
  ASSUME IInv, MailInv, SteadyInv, HostWaits, bus = "idle", IrqsDrained, TasksAsleep
  PROVE  rxData = LastWrite(txn) /\ ~newWriteData
<1>1. ~newWriteData /\ txn \in Nat
  BY DEF IInv, FlagInv, IrqsDrained, TypeOK
<1>0. TypeOK
  BY DEF IInv
<1>2. CASE txn = 0
  <2>1. rxData = 0
    BY <1>2 DEF MailInv
  <2>. QED
    BY <1>0, <1>1, <1>2, <2>1, LastTxn
<1>3. CASE txn > 0
  <2>0. LastWrite(txn) = IF kind[txn] = "write" THEN txn ELSE LastWrite(txn - 1)
    BY <1>0, <1>3, LastTxn
  <2>1. synced > 0
    BY <1>3 DEF IInv, TypeOK, SteadyInv
  <2>2. CASE kind[txn] = "write"
    BY <1>1, <1>3, <2>0, <2>1, <2>2 DEF IInv, SyncInv, TasksAsleep, IrqsDrained
  <2>3. CASE kind[txn] # "write"
    <3>1. Untaken
      BY <2>3, Zenon DEF Untaken
    <3>2. rxData = LastWrite(txn - 1)
      BY <1>3, <3>1 DEF MailInv
    <3>. QED
      BY <1>1, <2>0, <2>3, <3>2
  <2>. QED
    BY <2>2, <2>3
<1>. QED
  BY <1>1, <1>2, <1>3

LEMMA MailInit == Init => MailInv
<1>. SUFFICES ASSUME Init PROVE MailInv
  OBVIOUS
<1>1. txn = 0 /\ rxData = 0 /\ newWriteData = FALSE
  BY DEF Init, Zeros
<1>2. IsLast(0, 0)
  BY DEF IsLast
<1>3. LastWrite(txn) = 0
  BY <1>1, <1>2, LastUnique
<1>. QED
  BY <1>1, <1>2, <1>3 DEF MailInv

LEMMA LastFixed ==
  ASSUME UNCHANGED kind, NEW n
  PROVE  LastWrite(n)' = LastWrite(n')
BY DEF LastWrite

(* A step within a transaction, in what it does to the mailbox's invariant. *)
LEMMA MailSame ==
  ASSUME TypeOK, MailInv, UNCHANGED <<txn, kind>>,
         txn = 0 => rxData' = 0,
         txn > 0 /\ Untaken' => rxData' = LastWrite(txn - 1),
         newWriteData' => tasksPc' = "poll" /\ (nssPc' = "clear" \/ ~copyRXbuffer')
  PROVE  MailInv'
<1>1. txn' = txn /\ kind' = kind /\ (txn - 1)' = txn - 1
  OBVIOUS
<1>2. LastWrite(txn)' = LastWrite(txn) /\ LastWrite(txn - 1)' = LastWrite(txn - 1)
  BY <1>1 DEF LastWrite
<1>3. IsLast(LastWrite(txn), txn)' = IsLast(LastWrite(txn), txn)
      /\ IsLast(LastWrite(txn - 1), txn - 1)' = IsLast(LastWrite(txn - 1), txn - 1)
  BY <1>1, <1>2 DEF IsLast
<1>. QED
  BY <1>1, <1>2, <1>3 DEF MailInv

(* ... and if it neither ends the transaction nor begins or ends a copy, in *)
(* what is seen of it.                                                      *)
LEMMA MailStutter ==
  ASSUME UNCHANGED <<txn, kind, rxData>>,
         bus' \in {"selected", "filling"} <=> bus \in {"selected", "filling"},
         tasksPc' = "copying" <=> tasksPc = "copying"
  PROVE  UNCHANGED <<Posted, Taken>>
<1>1. Completed' = Completed
  BY DEF Completed
<1>2. Posted' = Posted
  BY <1>1 DEF Posted, LastWrite
<1>3. Taken' = Taken
  BY DEF Taken, LastWrite
<1>. QED
  BY <1>2, <1>3

LEMMA MailQuiet ==
  ASSUME TypeOK, MailInv, UNCHANGED <<txn, kind, rxData>>,
         bus' \in {"selected", "filling"} <=> bus \in {"selected", "filling"},
         tasksPc' = "copying" <=> tasksPc = "copying",
         Untaken' => Untaken,
         newWriteData' => tasksPc' = "poll" /\ (nssPc' = "clear" \/ ~copyRXbuffer')
  PROVE  MailInv' /\ UNCHANGED <<Posted, Taken>>
<1>1. /\ txn = 0 => rxData = 0
      /\ txn > 0 /\ Untaken => rxData = LastWrite(txn - 1)
  BY DEF MailInv
<1>2. MailInv'
  BY <1>1, MailSame
<1>. QED
  BY <1>2, MailStutter

LEMMA MailCsFall ==
  ASSUME BoxInv, HostWaits, CsFall
  PROVE  MailInv' /\ UNCHANGED <<Posted, Taken>>
<1>1. /\ bus = "idle" /\ IrqsDrained /\ TasksAsleep /\ bus' = "selected" /\ txn' = txn + 1
      /\ UNCHANGED <<kind, rxData, tasksPc, nssPc, newWriteData, copyRXbuffer>>
  BY DEF CsFall, dma, pcs, flags, copy
<1>2. rxData = LastWrite(txn) /\ ~newWriteData /\ txn \in Nat /\ MailInv
  BY <1>1, AtRest DEF BoxInv, IInv, TypeOK
<1>3. (txn - 1)' = txn /\ txn' # 0
  BY <1>1, <1>2
<1>4. LastWrite(txn - 1)' = LastWrite(txn) /\ LastWrite(txn)' = LastWrite(txn + 1)
  BY <1>1, <1>3 DEF LastWrite
<1>5. IsLast(LastWrite(txn), txn)
  BY <1>2 DEF MailInv
<1>6. IsLast(LastWrite(txn + 1), txn + 1)
  BY <1>2, <1>5, LastNext
<1>7. MailInv'
  BY <1>1, <1>2, <1>3, <1>4, <1>5, <1>6 DEF MailInv, IsLast
<1>8. Posted' = Posted
  BY <1>1, <1>3, <1>4 DEF Posted, Completed, LastWrite
<1>9. Taken' = Taken
  BY <1>1 DEF Taken, TasksAsleep
<1>. QED
  BY <1>7, <1>8, <1>9

(* The 64th byte posts a write packet.                                      *)
LEMMA MailLastByte ==
  ASSUME BoxInv, HostWaits, LastByte
  PROVE  MailInv' /\ [Mailbox!Next]_<<Posted, Taken>>
<1>1. /\ bus = "filling" /\ bus' = "clocked"
      /\ UNCHANGED <<txn, kind, rxData, tasksPc, nssPc, newWriteData, copyRXbuffer>>
  BY DEF LastByte, pcs, flags, copy
<1>2. txn > 0 /\ txn \in Txn /\ TypeOK /\ MailInv /\ synced > 0
  BY <1>1 DEF BoxInv, IInv, TypeOK, HwInv, SteadyInv, Txn
<1>3. Untaken
  BY <1>1, Zenon DEF Untaken
<1>4. rxData = LastWrite(txn - 1) /\ tasksPc = "poll"
  BY <1>1, <1>2, <1>3 DEF MailInv, BoxInv, IInv, SyncInv, TasksAsleep
<1>5. MailInv'
  <2>1. newWriteData' => tasksPc' = "poll" /\ (nssPc' = "clear" \/ ~copyRXbuffer')
    BY <1>1, <1>2, Zenon DEF MailInv
  <2>. QED
    BY <1>1, <1>2, <1>4, <2>1, MailSame
<1>6. Posted = LastWrite(txn - 1) /\ Posted' = LastWrite(txn)
  BY <1>1 DEF Posted, Completed, LastWrite
<1>7. Taken = rxData /\ Taken' = rxData
  BY <1>1, <1>4 DEF Taken
<1>8. /\ LastWrite(txn) = IF kind[txn] = "write" THEN txn ELSE LastWrite(txn - 1)
      /\ LastWrite(txn - 1) < txn
  BY <1>2, LastTxn
<1>9. CASE kind[txn] = "write"
  <2>1. Posted' = txn /\ txn \in 1 .. MaxTxn /\ txn > Posted /\ Taken = Posted /\ Taken' = Taken
    BY <1>2, <1>4, <1>6, <1>7, <1>8, <1>9 DEF Txn
  <2>. QED
    BY <1>5, <2>1 DEF Mailbox!Next, Mailbox!Post
<1>10. CASE kind[txn] # "write"
  BY <1>5, <1>6, <1>7, <1>8, <1>10
<1>. QED
  BY <1>9, <1>10

(* A copy that runs is of the transaction that has just ended.              *)
LEMMA Copying ==
  ASSUME BoxInv, HostWaits, tasksPc \notin {"printf", "poll"}
  PROVE  /\ txn \in Nat /\ txn > 0 /\ bus = "idle" /\ ints0 = {} /\ kind[txn] = "write"
         /\ copyRXbuffer /\ ~newWriteData /\ src = Left /\ buffer[Left] = txn
         /\ tasksPc = "copying" => snapshot = txn
         /\ tasksPc = "clear" => rxData = txn
<1>1. synced > 0 /\ synced \in Nat /\ txn \in Nat
  BY DEF BoxInv, IInv, TypeOK, SteadyInv
<1>2. /\ txn > 0 /\ copyRXbuffer /\ src = Left
      /\ bus = "idle" /\ ints0 = {} /\ kind[txn] = "write"
      /\ tasksPc = "copying" => snapshot = txn
      /\ tasksPc = "clear" => rxData = txn
  BY <1>1 DEF BoxInv, IInv, SyncInv
<1>3. buffer[Left] = txn
  BY <1>2 DEF BoxInv, IInv, HwInv, Ended
<1>4. ~newWriteData
  BY DEF BoxInv, MailInv
<1>. QED
  BY <1>1, <1>2, <1>3, <1>4

LEMMA MailCopyBegin ==
  ASSUME BoxInv, HostWaits, CopyBegin
  PROVE  MailInv' /\ UNCHANGED <<Posted, Taken>>
<1>1. /\ tasksPc = "copy" /\ tasksPc' = "copying"
      /\ UNCHANGED <<bus, txn, kind, ints0, nssPc, newWriteData, copyRXbuffer>>
  BY DEF CopyBegin, Thread, host, irqs, flags
<1>2. /\ txn \in Nat /\ txn > 0 /\ bus = "idle" /\ ints0 = {} /\ kind[txn] = "write"
      /\ copyRXbuffer /\ ~newWriteData /\ TypeOK /\ MailInv
  BY <1>1, Copying DEF BoxInv, IInv
<1>3. ~Untaken'
  BY <1>1, <1>2 DEF Untaken
<1>4. MailInv'
  BY <1>1, <1>2, <1>3, MailSame
<1>5. Untaken
  BY <1>1, <1>2 DEF Untaken
<1>6. rxData = LastWrite(txn - 1)
  BY <1>2, <1>5 DEF MailInv
<1>7. Taken' = Taken
  BY <1>1, <1>6 DEF Taken, LastWrite
<1>8. Posted' = Posted
  BY <1>1 DEF Posted, Completed, LastWrite
<1>. QED
  BY <1>4, <1>7, <1>8

(* The end of the copy takes the packet.                                    *)
LEMMA MailCopyEnd ==
  ASSUME BoxInv, HostWaits, CopyEnd
  PROVE  MailInv' /\ Mailbox!Next
<1>1. /\ tasksPc = "copying" /\ tasksPc' = "clear"
      /\ UNCHANGED <<bus, txn, kind, ints0, nssPc, newWriteData, copyRXbuffer>>
      /\ rxData' = IF buffer[src] = snapshot THEN snapshot ELSE Mixed
  BY DEF CopyEnd, Thread, host, irqs, flags
<1>2. /\ txn \in Nat /\ txn > 0 /\ bus = "idle" /\ ints0 = {} /\ kind[txn] = "write"
      /\ ~newWriteData /\ TypeOK /\ MailInv /\ buffer[src] = txn /\ snapshot = txn
  BY <1>1, Copying DEF BoxInv, IInv
<1>3. rxData' = txn
  BY <1>1, <1>2
<1>4. ~Untaken'
  BY <1>1, <1>2 DEF Untaken
<1>5. MailInv'
  BY <1>1, <1>2, <1>4, MailSame
<1>6. LastWrite(txn) = txn /\ LastWrite(txn - 1) < txn /\ LastWrite(txn - 1) \in Nat
  BY <1>2, LastTxn
<1>7. Posted = txn /\ Posted' = txn
  BY <1>1, <1>2, <1>6 DEF Posted, Completed, LastWrite
<1>8. Taken = LastWrite(txn - 1) /\ Taken' = txn
  BY <1>1, <1>3 DEF Taken
<1>. QED
  BY <1>5, <1>6, <1>7, <1>8 DEF Mailbox!Next, Mailbox!Take

LEMMA MailStep ==
  ASSUME BoxInv, HostWaits, [Next]_vars
  PROVE  MailInv' /\ [Mailbox!Next]_<<Posted, Taken>>
<1>0. TypeOK /\ MailInv /\ (newWriteData => tasksPc = "poll" /\ (nssPc = "clear" \/ ~copyRXbuffer))
  BY DEF BoxInv, IInv, MailInv
<1>. USE DEF host, dma, irqs, pcs, flags, copy
<1>1. CASE CsFall
  BY <1>1, MailCsFall
<1>2. CASE FirstByte
  BY <1>0, <1>2, MailQuiet DEF FirstByte, Untaken
<1>3. CASE LastByte
  BY <1>3, MailLastByte
<1>4. CASE CsRise
  BY <1>0, <1>4, MailQuiet DEF CsRise, Untaken
<1>5. CASE handleDmaRxInterrupt
  <2>1. ints0 # {} /\ Ended
    BY <1>5, LastCompleted DEF handleDmaRxInterrupt, BoxInv, IInv
  <2>2. synced > 0
    BY <2>1 DEF BoxInv, IInv, TypeOK, SteadyInv, Ended
  <2>3. tasksPc = "poll" /\ ~copyRXbuffer
    BY <2>1, <2>2 DEF BoxInv, IInv, SyncInv
  <2>4. UNCHANGED <<txn, kind, rxData, bus, tasksPc, copyRXbuffer>> /\ Untaken
    BY <1>5, <2>1 DEF handleDmaRxInterrupt, Untaken
  <2>. QED
    BY <1>0, <2>3, <2>4, MailQuiet
<1>6. CASE ClearInts0
  BY <1>0, <1>6, MailQuiet DEF ClearInts0, Untaken
<1>7. CASE NssEnter
  BY <1>0, <1>7, MailQuiet DEF NssEnter, Untaken
<1>8. CASE NssTest
  BY <1>0, <1>8, MailQuiet DEF NssTest, ScheduleCopy, Untaken
<1>9. CASE NssClear
  BY <1>0, <1>9, MailQuiet DEF NssClear, ForgetNewWriteData, Untaken
<1>10. CASE EnterLoop
  BY <1>0, <1>10, MailQuiet DEF EnterLoop, Thread, Untaken
<1>11. CASE TasksIdle
  BY <1>0, <1>11, MailQuiet DEF TasksIdle, Thread, Untaken
<1>12. CASE TasksChoose
  BY <1>0, <1>12, MailQuiet DEF TasksChoose, Thread, Untaken
<1>13. CASE DisableInterrupts
  BY <1>0, <1>13, MailQuiet DEF DisableInterrupts, Thread, Untaken
<1>14. CASE CopyBegin
  BY <1>14, MailCopyBegin
<1>15. CASE CopyEnd
  BY <1>15, MailCopyEnd
<1>16. CASE TasksClear
  <2>1. /\ tasksPc = "clear" /\ tasksPc' = "poll" /\ ~copyRXbuffer'
        /\ UNCHANGED <<txn, kind, rxData, bus, ints0, newWriteData>>
    BY <1>16 DEF TasksClear, Thread
  <2>2. ~Untaken' /\ ~newWriteData'
    BY <2>1, Copying DEF Untaken
  <2>. QED
    BY <1>0, <2>1, <2>2, MailQuiet
<1>17. CASE UNCHANGED vars
  BY <1>0, <1>17, MailQuiet DEF vars, Untaken
<1>. QED
  BY <1>1, <1>2, <1>3, <1>4, <1>5, <1>6, <1>7, <1>8, <1>9, <1>10, <1>11, <1>12, <1>13, <1>14, <1>15, <1>16, <1>17 DEF Next, Bus, Isr, Tasks

(* The receive path is a mailbox of one place, for any number of            *)
(* transactions of any kind: a host that waits for the loop posts nothing   *)
(* before the last packet was taken, and what is taken is what was posted.  *)
THEOREM MailboxTheorem == ASSUME HostWaits PROVE Spec => Mailbox!Safety
<1>1. Init => BoxInv
  BY InitInv, MailInit DEF BoxInv
<1>2. BoxInv /\ [Next]_vars => BoxInv'
  BY StepInv, SteadyStep, MailStep DEF BoxInv
<1>3. Init => Mailbox!Init
  <2>. SUFFICES ASSUME Init PROVE Posted = 0 /\ Taken = 0
    BY DEF Mailbox!Init
  <2>1. txn = 0 /\ bus = "idle" /\ tasksPc = "printf" /\ rxData = 0 /\ MailInv /\ TypeOK
    BY MailInit, InitInv DEF Init, Zeros, IInv
  <2>. QED
    BY <2>1, LastTxn DEF Posted, Completed, Taken
<1>4. BoxInv /\ [Next]_vars => [Mailbox!Next]_<<Posted, Taken>>
  BY MailStep
<1>. QED
  BY <1>1, <1>2, <1>3, <1>4, PTL DEF Spec, Mailbox!Safety

-----------------------------------------------------------------------------
(* What a copy delivers, even to a host that does not wait.                 *)
AtLeast(b, p) == buffer[b] = Mixed \/ buffer[b] >= p

(* The buffer of the last write header never holds an older packet than the *)
(* last write before this transaction, and the one a copy has chosen none   *)
(* older than what that was then.                                           *)
AgeInv ==
  \A p \in Txn : kind[p] = "write" =>
    /\ p < txn \/ (p = txn /\ Ended /\ ints0 = {}) => AtLeast(RXbufferIdx, p)
    /\ p < chosenAt => p < txn /\ AtLeast(src, p)

LEMMA AgeStep == IInv /\ AgeInv /\ [Next]_vars => AgeInv'
<1> SUFFICES ASSUME TypeOK, HwInv, AgeInv, [Next]_vars PROVE AgeInv'
  BY DEF IInv
<1> USE MaxTxnAssumption
    DEF TypeOK, HwInv, AgeInv, AtLeast, Left, Ended, IrqsDrained, TasksAsleep, Mixed,
        host, dma, irqs, pcs, flags, copy, Chan, Txn, Other, Put
<1>1. CASE CsFall
  BY <1>1 DEF CsFall
<1>2. CASE FirstByte
  BY <1>2 DEF FirstByte
<1>3. CASE LastByte
  BY <1>3 DEF LastByte
<1>4. CASE CsRise
  BY <1>4 DEF CsRise
<1>5. CASE handleDmaRxInterrupt
  <2>1. ints0 = {Left} /\ Serviced = Left /\ Ended /\ Header(Left) = kind[txn]
    BY <1>5, LastCompleted
  <2>2. RXbufferIdx' = IF kind[txn] = "write" THEN Left ELSE RXbufferIdx
    BY <1>5, <2>1 DEF handleDmaRxInterrupt, checkHeader
  <2>3. UNCHANGED <<bus, txn, kind, chan, buffer, tasksPc, src, chosenAt>>
    BY <1>5 DEF handleDmaRxInterrupt
  <2>4. buffer[Left] = txn
    BY <2>1
  <2>. QED
    BY <2>1, <2>2, <2>3, <2>4
<1>6. CASE ClearInts0
  BY <1>6 DEF ClearInts0
<1>7. CASE NssEnter
  BY <1>7 DEF NssEnter
<1>8. CASE NssTest
  BY <1>8 DEF NssTest, ScheduleCopy
<1>9. CASE NssClear
  BY <1>9 DEF NssClear, ForgetNewWriteData
<1>10. CASE EnterLoop
  BY <1>10 DEF EnterLoop, Thread
<1>11. CASE TasksIdle
  BY <1>11 DEF TasksIdle, Thread
<1>12. CASE TasksChoose
  BY <1>12 DEF TasksChoose, Thread
<1>13. CASE DisableInterrupts
  BY <1>13 DEF DisableInterrupts, Thread
<1>14. CASE CopyBegin
  BY <1>14 DEF CopyBegin, Thread
<1>15. CASE CopyEnd
  BY <1>15 DEF CopyEnd, Thread
<1>16. CASE TasksClear
  BY <1>16 DEF TasksClear, Thread
<1>17. CASE UNCHANGED vars
  BY <1>17 DEF vars
<1>. QED
  BY <1>1, <1>2, <1>3, <1>4, <1>5, <1>6, <1>7, <1>8, <1>9, <1>10, <1>11, <1>12, <1>13, <1>14, <1>15, <1>16, <1>17 DEF Next, Bus, Isr, Tasks

(* A copy that delivers a whole packet never delivers one older than a write *)
(* before the transaction in which it was chosen, whether or not the host   *)
(* waits.                                                                   *)
THEOREM NeverOlderTheorem == Spec => NeverOlder
<1>1. Init => IInv /\ AgeInv
  BY InitInv DEF Init, AgeInv, Ended, Txn
<1>2. IInv /\ AgeInv /\ [Next]_vars => (IInv /\ AgeInv)'
  BY StepInv, AgeStep
<1>3. ASSUME IInv, AgeInv, [Next]_vars
      PROVE  [tasksPc = "copying" /\ tasksPc' = "clear" /\ rxData' \in Txn =>
                \A p \in Txn : p < chosenAt /\ kind[p] = "write" => rxData' >= p]_vars
  <2>. SUFFICES ASSUME tasksPc = "copying", tasksPc' = "clear", rxData' \in Txn, Next,
                       NEW p \in Txn, p < chosenAt, kind[p] = "write"
                PROVE  rxData' >= p
    BY <1>3
  <2>1. CopyEnd
    BY DEF Next, Bus, Isr, Tasks, CsFall, FirstByte, LastByte, CsRise, handleDmaRxInterrupt, ClearInts0,
           NssEnter, NssTest, NssClear, EnterLoop, TasksIdle, TasksChoose, DisableInterrupts, CopyBegin,
           CopyEnd, TasksClear, Thread, pcs
  <2>2. rxData' = buffer[src]
    BY <2>1 DEF CopyEnd, Mixed, Txn
  <2>3. AtLeast(src, p)
    BY <1>3 DEF AgeInv
  <2>. QED
    BY <2>2, <2>3 DEF AtLeast, Mixed, Txn
<1>. QED
  BY <1>1, <1>2, <1>3, PTL DEF Spec, NeverOlder
=============================================================================
