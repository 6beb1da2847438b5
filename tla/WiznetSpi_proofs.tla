---------------------------- MODULE WiznetSpi_proofs ----------------------------
(***************************************************************************)
(* Proofs about WiznetSpi, for FIFOs of any depth and accesses of any      *)
(* length: what is read is the chip's answer, and every frame is whole.    *)
(***************************************************************************)
EXTENDS WiznetSpi, TLAPS

Transfer == [op : {"none", "write", "read", "byte"}, len : Nat]

TypeOK ==
  /\ call \in Access \cup {<<>>} /\ todo \in Seq(Transfer) /\ transfer \in Transfer
  /\ selected \in BOOLEAN
  /\ toSend \in Nat /\ toTake \in Nat /\ tx \in Nat /\ clocked \in Nat
  /\ rx \in Seq(Nat) /\ buf \in Seq(Nat)

(* Bytes of the frame before the transfer under way. *)
Base == IF todo = <<>> /\ Len(call) = 2 THEN Header ELSE 0

(* How far the access has got. *)
Stage ==
  \/ call = <<>> /\ todo = <<>> /\ transfer = None
  \/ /\ call # <<>> /\ selected
     /\ \/ todo = call /\ transfer = None /\ clocked = 0
        \/ todo = Tail(call) /\ transfer = call[1]
        \/ Len(call) = 2 /\ todo = Tail(call) /\ transfer = None /\ clocked = Header
        \/ Len(call) = 2 /\ todo = <<>> /\ transfer = call[2]
        \/ todo = <<>> /\ transfer = None /\ clocked = FrameLength(call)

(* Between two transfers the hardware is at rest. *)
Resting == transfer = None => toSend = 0 /\ toTake = 0 /\ tx = 0 /\ rx = <<>>

(* No byte of a transfer is lost: it is still to send, or in a FIFO, or     *)
(* read, and each is at its place.                                          *)
Flow(b, n) ==
  /\ toSend + tx + clocked = b + n
  /\ b + Len(buf) + Len(rx) = clocked
  /\ \A i \in 1 .. Len(buf) : buf[i] = b + i
  /\ \A i \in 1 .. Len(rx) : rx[i] = b + Len(buf) + i

Flowing ==
  /\ transfer # None => Flow(Base, transfer.len)
  /\ transfer.op \in {"write", "read"} => toTake + Len(buf) = transfer.len
  /\ transfer.op = "byte" => toSend = 0 /\ toTake = 0 /\ buf = <<>> /\ transfer.len = 1

IInv == TypeOK /\ Stage /\ Resting /\ Flowing /\ OwnAnswer

-----------------------------------------------------------------------------
(* Each access is a header with one byte in the same burst, or a header and *)
(* one more transfer.                                                       *)
Second == {t \in Transfer : t.op # "none" /\ (t.op = "byte" => t.len = 1)}

LEMMA AccessShape ==
  ASSUME NEW c \in Access
  PROVE  /\ c \in Seq(Transfer) /\ c # <<>> /\ c[1].op = "write" /\ c[1] \in Transfer
         /\ \/ Len(c) = 1 /\ c[1].len = Header + 1 /\ Tail(c) = <<>> /\ Last(c).op = "write"
            \/ /\ Len(c) = 2 /\ c[1].len = Header /\ c[2] \in Second
               /\ Tail(c) = <<c[2]>> /\ Last(c) = c[2]
<1>1. Byte \in Second /\ \A n \in Length : Burst("write", n) \in Second /\ Burst("read", n) \in Second
  <2>1. Length \subseteq Nat
    BY SizesAssumption DEF Length
  <2>2. ASSUME NEW n \in Nat, NEW o \in {"write", "read", "byte"}, o = "byte" => n = 1
        PROVE  Burst(o, n) \in Second
    BY <2>2 DEF Burst, Second, Transfer
  <2>. QED
    BY <2>1, <2>2 DEF Byte
<1>2. Burst("write", Header) \in Transfer /\ Burst("write", Header + 1) \in Transfer
  BY DEF Burst, Transfer, Header
<1>3. CASE c = WIZCHIP_WRITE
  BY <1>2, <1>3 DEF WIZCHIP_WRITE, Burst, Last
<1>4. ASSUME NEW x \in Second, c = <<Burst("write", Header), x>>
      PROVE  /\ c \in Seq(Transfer) /\ Len(c) = 2 /\ c[1] = Burst("write", Header) /\ c[2] = x
             /\ Tail(c) = <<x>> /\ Last(c) = x
  BY <1>2, <1>4 DEF Second, Last
<1>5. CASE c # WIZCHIP_WRITE
  <2>1. PICK x \in Second : c = <<Burst("write", Header), x>>
    BY <1>1, <1>5 DEF Access, WIZCHIP_READ, WIZCHIP_READ_BUF, WIZCHIP_WRITE_BUF
  <2>2. x.op \in {"write", "read", "byte"}
    BY DEF Second, Transfer
  <2>. QED
    BY <1>2, <1>4, <2>1, <2>2 DEF Burst
<1>. QED
  BY <1>3, <1>5

LEMMA SequenceItems ==
  ASSUME NEW s \in Seq(Nat)
  PROVE  /\ \A x \in Nat, i \in 1 .. Len(s) + 1 : Append(s, x)[i] = IF i <= Len(s) THEN s[i] ELSE x
         /\ s # <<>> => Head(s) = s[1] /\ \A i \in 1 .. Len(s) - 1 : Tail(s)[i] = s[i + 1]
OBVIOUS

LEMMA SpiInit == Init => IInv
<1>. SUFFICES ASSUME Init PROVE IInv
  OBVIOUS
<1>1. None \in Transfer /\ None.op = "none" /\ transfer = None /\ call = <<>> /\ todo = <<>>
  BY DEF Init, None, Transfer
<1>2. TypeOK
  <2>1. call \in Access \cup {<<>>} /\ <<>> \in Seq(Transfer) /\ <<>> \in Seq(Nat)
    BY <1>1
  <2>. QED
    BY <1>1, <2>1 DEF Init, TypeOK
<1>3. Stage /\ Resting /\ Flowing
  BY <1>1 DEF Init, Stage, Resting, Flowing
<1>4. OwnAnswer
  BY <1>1 DEF OwnAnswer
<1>. QED
  BY <1>2, <1>3, <1>4 DEF IInv

-----------------------------------------------------------------------------
LEMMA SelectStep ==
  ASSUME IInv, Select
  PROVE  IInv'
<1>1. call' \in Access /\ todo' = call' /\ selected' /\ clocked' = 0 /\ transfer = None /\ rx = <<>>
      /\ UNCHANGED <<transfer, toSend, toTake, tx, buf>>
  BY DEF Select, IInv, Stage, Resting, dma
<1>2. rx' = <<>>
  BY <1>1 DEF Select
<1>3. call' \in Seq(Transfer) /\ call' # <<>>
  BY <1>1, AccessShape
<1>4. selected' \in BOOLEAN /\ rx' \in Seq(Nat)
  BY <1>2 DEF Select
<1>5. TypeOK'
  BY <1>1, <1>3, <1>4 DEF IInv, TypeOK
<1>6. Stage' /\ Resting'
  BY <1>1, <1>2, <1>3 DEF IInv, Stage, Resting
<1>7. Flowing' /\ OwnAnswer'
  BY <1>1, <1>3 DEF Flowing, OwnAnswer, None
<1>. QED
  BY <1>5, <1>6, <1>7 DEF IInv

LEMMA StartStep ==
  ASSUME IInv, Start
  PROVE  IInv'
<1>1. /\ todo # <<>> /\ transfer = None /\ transfer' = Head(todo) /\ todo' = Tail(todo) /\ buf' = <<>>
      /\ UNCHANGED <<call, selected, rx, clocked>>
      /\ toSend = 0 /\ toTake = 0 /\ tx = 0 /\ rx = <<>>
  BY DEF Start, IInv, Resting
<1>2. call \in Access /\ selected
  BY <1>1 DEF IInv, TypeOK, Stage
<1>3. \/ transfer' = call[1] /\ todo' = Tail(call) /\ clocked = 0
      \/ transfer' = call[2] /\ todo' = <<>> /\ clocked = Header /\ Len(call) = 2
  <2>1. CASE todo = call
    BY <1>1, <1>2, <2>1, AccessShape DEF IInv, Stage, None, Transfer, Header, FrameLength
  <2>2. CASE todo # call
    BY <1>1, <1>2, <2>2, AccessShape DEF IInv, Stage, None, Transfer, Second
  <2>. QED
    BY <2>1, <2>2
<1>4. /\ transfer' \in Transfer /\ todo' \in Seq(Transfer) /\ transfer'.op \in {"write", "read", "byte"}
      /\ transfer'.op = "byte" => transfer'.len = 1
      /\ clocked = Base'
  <2>1. todo' \in Seq(Transfer)
    BY <1>1 DEF IInv, TypeOK
  <2>2. CASE transfer' = call[1] /\ todo' = Tail(call) /\ clocked = 0
    <3>1. transfer' \in Transfer /\ transfer'.op = "write"
      BY <1>2, <2>2, AccessShape
    <3>2. Base' = 0
      <4>1. CASE Len(call) = 2
        <5>1. todo' = <<call[2]>>
          BY <1>2, <2>2, <4>1, AccessShape
        <5>. QED
          BY <5>1 DEF Base
      <4>2. CASE Len(call) # 2
        BY <1>1, <4>2 DEF Base
      <4>. QED
        BY <4>1, <4>2
    <3>. QED
      BY <2>1, <2>2, <3>1, <3>2
  <2>3. CASE transfer' = call[2] /\ todo' = <<>> /\ clocked = Header /\ Len(call) = 2
    <3>1. transfer' \in Second
      BY <1>2, <2>3, AccessShape
    <3>2. Base' = Header
      BY <1>1, <2>3 DEF Base
    <3>. QED
      BY <2>1, <2>3, <3>1, <3>2 DEF Second, Transfer
  <2>. QED
    BY <1>3, <2>2, <2>3
<1>5. \/ transfer'.op \in {"write", "read"} /\ toSend' = transfer'.len /\ toTake' = transfer'.len /\ tx' = 0
      \/ transfer'.op = "byte" /\ toSend' = 0 /\ toTake' = 0 /\ tx' = 1
  BY <1>1, <1>4 DEF Start, DMA_write, DMA_read, dma
<1>6. TypeOK'
  BY <1>1, <1>4, <1>5 DEF IInv, TypeOK, Transfer
<1>7. Stage' /\ Resting' /\ OwnAnswer'
  BY <1>1, <1>2, <1>3, <1>4 DEF Stage, Resting, OwnAnswer, None, IInv, TypeOK
<1>8. Flow(Base, transfer.len)'
  <2>1. clocked \in Nat /\ transfer'.len \in Nat /\ Len(buf') = 0 /\ Len(rx') = 0 /\ clocked' = clocked
    BY <1>1, <1>4 DEF IInv, TypeOK, Transfer
  <2>2. Base' = clocked
    BY <1>4
  <2>3. toSend' + tx' + clocked' = Base' + transfer'.len
    <3>1. toSend' + tx' = transfer'.len
      BY <1>4, <1>5, <2>1
    <3>2. toSend' \in Nat /\ tx' \in Nat
      BY <1>5, <2>1
    <3>. QED
      BY <2>1, <2>2, <3>1, <3>2
  <2>4. Base' + Len(buf') + Len(rx') = clocked'
    BY <2>1, <2>2
  <2>5. 1 .. Len(buf') = {} /\ 1 .. Len(rx') = {}
    BY <2>1
  <2>. QED
    BY <2>3, <2>4, <2>5 DEF Flow
<1>9. Flowing'
  <2>1. transfer'.len \in Nat /\ Len(buf') = 0
    BY <1>1, <1>4 DEF Transfer
  <2>. QED
    BY <1>1, <1>4, <1>5, <1>8, <2>1 DEF Flowing
<1>. QED
  BY <1>6, <1>7, <1>9 DEF IInv

-----------------------------------------------------------------------------
(* The hardware moves a byte on: a transfer is under way, and the access is *)
(* where it was.                                                            *)
LEMMA MovedStep ==
  ASSUME IInv, TypeOK', UNCHANGED <<call, todo, transfer, selected>>, transfer # None,
         Flow(Base, transfer.len)',
         transfer.op \in {"write", "read"} => toTake' + Len(buf') = transfer.len,
         transfer.op = "byte" => toSend' = 0 /\ toTake' = 0 /\ buf' = <<>>
  PROVE  IInv'
<1>1. Stage'
  BY DEF IInv, Stage
<1>2. Resting' /\ OwnAnswer'
  BY DEF Resting, OwnAnswer
<1>3. Flowing'
  BY DEF Flowing, IInv
<1>. QED
  BY <1>1, <1>2, <1>3 DEF IInv

LEMMA TxStep ==
  ASSUME IInv, TxChannel
  PROVE  IInv'
<1>1. /\ toSend > 0 /\ toSend' = toSend - 1 /\ tx' = tx + 1 /\ transfer # None
      /\ UNCHANGED <<call, todo, transfer, selected, toTake, rx, clocked, buf>>
  BY DEF TxChannel, program, IInv, Resting
<1>2. TypeOK' /\ Base' = Base
  BY <1>1 DEF IInv, TypeOK, Base
<1>3. transfer.op # "byte"
  BY <1>1 DEF IInv, Flowing
<1>4. Flow(Base, transfer.len)'
  BY <1>1, <1>2 DEF IInv, TypeOK, Flowing, Flow
<1>. QED
  BY <1>1, <1>2, <1>3, <1>4, MovedStep DEF IInv, Flowing

LEMMA RxStep ==
  ASSUME IInv, RxChannel
  PROVE  IInv'
<1>1. /\ toTake > 0 /\ toTake' = toTake - 1 /\ transfer # None
      /\ rx # <<>> /\ rx' = Tail(rx) /\ buf' = Append(buf, Head(rx))
      /\ UNCHANGED <<call, todo, transfer, selected, toSend, tx, clocked>>
  BY DEF RxChannel, program, IInv, Resting
<1>2. /\ rx \in Seq(Nat) /\ buf \in Seq(Nat) /\ Base \in Nat /\ transfer.len \in Nat
      /\ Flow(Base, transfer.len)
  BY <1>1 DEF IInv, TypeOK, Base, Header, Transfer, Flowing
<1>3. TypeOK' /\ Base' = Base
  BY <1>1, <1>2 DEF IInv, TypeOK, Base
<1>4. Len(rx') = Len(rx) - 1 /\ Len(buf') = Len(buf) + 1 /\ Len(rx) \in Nat /\ Len(buf) \in Nat
  BY <1>1, <1>2
<1>5. Flow(Base, transfer.len)'
  <2>0. Head(rx) = Base + Len(buf) + 1 /\ Head(rx) \in Nat
    BY <1>1, <1>2, <1>4, SequenceItems DEF Flow
  <2>1. ASSUME NEW i \in 1 .. Len(buf')
        PROVE  buf'[i] = Base + i
    <3>1. buf'[i] = IF i <= Len(buf) THEN buf[i] ELSE Head(rx)
      BY <1>1, <1>2, <1>4, <2>0, SequenceItems
    <3>2. CASE i <= Len(buf)
      <4>1. buf[i] = Base + i
        BY <1>2, <1>4, <3>2 DEF Flow
      <4>. QED
        BY <3>1, <3>2, <4>1
    <3>3. CASE ~(i <= Len(buf))
      <4>1. i = Len(buf) + 1
        BY <1>4, <3>3
      <4>. QED
        BY <2>0, <3>1, <3>3, <4>1, <1>2
    <3>. QED
      BY <3>2, <3>3
  <2>2. ASSUME NEW i \in 1 .. Len(rx')
        PROVE  rx'[i] = Base + Len(buf') + i
    <3>1. rx'[i] = rx[i + 1]
      BY <1>1, <1>2, <1>4, SequenceItems
    <3>. QED
      BY <1>2, <1>4, <3>1 DEF Flow
  <2>3. /\ toSend' + tx' + clocked' = Base + transfer.len /\ Base + Len(buf') + Len(rx') = clocked'
    BY <1>1, <1>2, <1>4 DEF Flow
  <2>. QED
    BY <1>1, <1>3, <2>1, <2>2, <2>3 DEF Flow
<1>6. transfer.op # "byte"
  BY <1>1 DEF IInv, Flowing
<1>7. transfer.op \in {"write", "read"} => toTake' + Len(buf') = transfer.len
  BY <1>1, <1>4 DEF IInv, TypeOK, Flowing
<1>. QED
  BY <1>1, <1>3, <1>5, <1>6, <1>7, MovedStep

(* The RX FIFO has room: while the RX channel runs it keeps up, and a       *)
(* transfer it has finished clocks no more bytes.                           *)
LEMMA ShiftStep ==
  ASSUME IInv, Shift
  PROVE  IInv'
<1>1. /\ tx > 0 /\ tx' = tx - 1 /\ clocked' = clocked + 1 /\ transfer # None
      /\ UNCHANGED <<call, todo, transfer, selected, toSend, toTake, buf>>
  BY DEF Shift, program, dma, IInv, Resting
<1>2. /\ rx \in Seq(Nat) /\ buf \in Seq(Nat) /\ Base \in Nat /\ transfer \in Transfer
      /\ Flow(Base, transfer.len) /\ Len(rx) \in Nat /\ Len(buf) \in Nat
      /\ {tx, clocked, toSend, toTake} \subseteq Nat
  BY <1>1 DEF IInv, TypeOK, Base, Header, Flowing
<1>3. Len(rx) < Fifo
  <2>1. CASE toTake > 0
    BY <2>1 DEF Shift
  <2>2. CASE toTake = 0
    <3>1. transfer.op # "none"
      BY <1>1, AccessShape DEF IInv, TypeOK, Stage, Second, None
    <3>2. CASE transfer.op = "byte"
      <4>1. tx + clocked = Base + 1 /\ Base + Len(rx) = clocked
        BY <1>2, <3>2 DEF IInv, Flowing, Flow
      <4>. QED
        BY <1>1, <1>2, <4>1, SizesAssumption
    <3>3. CASE transfer.op \in {"write", "read"}
      <4>1. Len(buf) = transfer.len
        BY <1>2, <2>2, <3>3 DEF IInv, Flowing
      <4>. QED
        BY <1>1, <1>2, <4>1 DEF Flow, Transfer
    <3>. QED
      BY <1>2, <3>1, <3>2, <3>3 DEF Transfer
  <2>. QED
    BY <1>2, <2>1, <2>2
<1>4. rx' = Append(rx, clocked + 1)
  BY <1>3 DEF Shift
<1>5. TypeOK' /\ Base' = Base
  BY <1>1, <1>2, <1>4 DEF IInv, TypeOK, Base
<1>6. Flow(Base, transfer.len)'
  <2>0. Len(rx') = Len(rx) + 1 /\ Base + Len(buf) + Len(rx) = clocked /\ clocked + 1 \in Nat
    BY <1>2, <1>4 DEF Flow
  <2>1. ASSUME NEW i \in 1 .. Len(rx')
        PROVE  rx'[i] = Base + Len(buf) + i
    <3>1. rx'[i] = IF i <= Len(rx) THEN rx[i] ELSE clocked + 1
      BY <1>2, <1>4, <2>0, SequenceItems
    <3>2. CASE i <= Len(rx)
      <4>1. rx[i] = Base + Len(buf) + i
        BY <1>2, <3>2 DEF Flow
      <4>. QED
        BY <3>1, <3>2, <4>1
    <3>3. CASE ~(i <= Len(rx))
      <4>1. i = Len(rx) + 1
        BY <1>2, <2>0, <3>3
      <4>2. rx'[i] = clocked + 1
        BY <3>1, <3>3
      <4>. QED
        BY <1>2, <2>0, <4>1, <4>2
    <3>. QED
      BY <3>2, <3>3
  <2>. QED
    BY <1>1, <1>2, <1>5, <2>0, <2>1 DEF Flow, Transfer
<1>. QED
  BY <1>1, <1>5, <1>6, MovedStep DEF IInv, Flowing

-----------------------------------------------------------------------------
(* A transfer ends with the hardware at rest and its bytes clocked: what it *)
(* has read is what the chip gave from its base on.                         *)
LEMMA EndedStep ==
  ASSUME IInv, transfer # None, transfer' = None, UNCHANGED <<call, todo, selected, clocked>>,
         toSend' = 0, toTake' = 0, tx' = 0, rx' \in Seq(Nat), Len(rx') = 0, buf' \in Seq(Nat),
         clocked = Base + transfer.len,
         transfer.op # "write" =>
           /\ Len(buf') = transfer.len
           /\ \A i \in 1 .. transfer.len : buf'[i] = Base + i
  PROVE  IInv'
<1>1. call \in Access /\ selected /\ call # <<>>
  BY DEF IInv, TypeOK, Stage
<1>2. rx' = <<>> /\ None \in Transfer
  BY DEF None, Transfer
<1>3. TypeOK'
  BY <1>2 DEF IInv, TypeOK
<1>4. \/ Len(call) = 1 /\ todo = <<>> /\ transfer = call[1] /\ Base = 0
      \/ Len(call) = 2 /\ todo = Tail(call) /\ todo # <<>> /\ transfer = call[1] /\ Base = 0
      \/ Len(call) = 2 /\ todo = <<>> /\ transfer = call[2] /\ Base = Header
  BY <1>1, AccessShape DEF IInv, Stage, Base
<1>5. CASE Len(call) = 1 /\ todo = <<>> /\ transfer = call[1] /\ Base = 0
  <2>1. call[1] \in Transfer /\ call[1].len = Header + 1 /\ Last(call).op = "write"
    BY <1>1, <1>5, AccessShape
  <2>2. clocked = FrameLength(call)
    BY <1>5, <2>1 DEF FrameLength, Header
  <2>3. Stage'
    BY <1>1, <1>5, <2>2 DEF Stage, FrameLength
  <2>. QED
    BY <1>1, <1>2, <1>3, <2>1, <2>3 DEF IInv, Resting, Flowing, OwnAnswer, None
<1>6. CASE Len(call) = 2 /\ todo = Tail(call) /\ todo # <<>> /\ transfer = call[1] /\ Base = 0
  <2>1. call[1].len = Header
    BY <1>1, <1>6, AccessShape
  <2>2. clocked = Header
    BY <1>6, <2>1 DEF Header
  <2>3. Stage'
    BY <1>1, <1>6, <2>2 DEF Stage
  <2>. QED
    BY <1>1, <1>2, <1>3, <1>6, <2>3 DEF IInv, Resting, Flowing, OwnAnswer, None
<1>7. CASE Len(call) = 2 /\ todo = <<>> /\ transfer = call[2] /\ Base = Header
  <2>1. call[1].len = Header /\ Last(call) = transfer /\ transfer.len \in Nat
    <3>1. Len(call) = 2 /\ transfer = call[2]
      BY <1>7
    <3>2. Len(call) # 1
      BY <3>1
    <3>3. call[1].len = Header /\ call[2] \in Second /\ Last(call) = call[2]
      BY <1>1, <3>2, AccessShape, Zenon
    <3>. QED
      BY <3>1, <3>3 DEF Second, Transfer
  <2>2. clocked = FrameLength(call)
    BY <1>7, <2>1 DEF FrameLength
  <2>3. Stage'
    BY <1>1, <1>7, <2>2 DEF Stage, FrameLength
  <2>4. OwnAnswer'
    <3>1. CASE transfer.op = "write"
      BY <2>1, <3>1 DEF OwnAnswer
    <3>2. CASE transfer.op # "write"
      <4>1. buf' = [i \in 1 .. transfer.len |-> Header + i]
        BY <1>7, <2>1, <3>2
      <4>. QED
        BY <2>1, <4>1 DEF OwnAnswer
    <3>. QED
      BY <3>1, <3>2
  <2>. QED
    BY <1>2, <1>3, <2>3, <2>4 DEF IInv, Resting, Flowing, None
<1>. QED
  BY <1>4, <1>5, <1>6, <1>7

(* A transfer that is finished has left nothing behind. *)
LEMMA WaitStep ==
  ASSUME IInv, WaitForFinish
  PROVE  IInv'
<1>1. /\ transfer.op \in {"write", "read"} /\ toTake = 0 /\ transfer' = None /\ transfer # None
      /\ UNCHANGED <<call, todo, selected, toSend, toTake, tx, rx, clocked, buf>>
  BY DEF WaitForFinish, Finished, dma, spi, None
<1>2. /\ Flow(Base, transfer.len) /\ Len(buf) = transfer.len /\ Base \in Nat /\ transfer.len \in Nat
      /\ Len(rx) \in Nat /\ rx \in Seq(Nat)
  BY <1>1 DEF IInv, TypeOK, Flowing, Base, Header, Transfer
<1>3. toSend = 0 /\ tx = 0 /\ Len(rx) = 0 /\ clocked = Base + transfer.len
  BY <1>2 DEF Flow, IInv, TypeOK
<1>4. \A i \in 1 .. transfer.len : buf'[i] = Base + i
  BY <1>1, <1>2 DEF Flow
<1>5. buf' \in Seq(Nat) /\ rx' \in Seq(Nat) /\ Len(buf') = transfer.len /\ Len(rx') = 0
  BY <1>1, <1>2, <1>3 DEF IInv, TypeOK
<1>. QED
  BY <1>1, <1>3, <1>4, <1>5, EndedStep

(* read_byte takes the one byte its clocks have brought. *)
LEMMA ByteStep ==
  ASSUME IInv, read_byte
  PROVE  IInv'
<1>1. /\ transfer.op = "byte" /\ rx # <<>> /\ transfer' = None /\ transfer # None
      /\ buf' = <<Head(rx)>> /\ rx' = Tail(rx)
      /\ UNCHANGED <<call, todo, selected, toSend, toTake, tx, clocked>>
  BY DEF read_byte, dma, None
<1>2. /\ Flow(Base, 1) /\ buf = <<>> /\ toSend = 0 /\ toTake = 0 /\ transfer.len = 1 /\ Base \in Nat
      /\ rx \in Seq(Nat) /\ Len(rx) \in Nat /\ {tx, clocked} \subseteq Nat
  BY <1>1 DEF IInv, TypeOK, Flowing, Base, Header
<1>3. Len(rx) > 0
  BY <1>1, <1>2
<1>4. Len(buf) = 0
  BY <1>2
<1>5. Len(rx) = 1 /\ tx = 0 /\ clocked = Base + 1
  <2>1. toSend + tx + clocked = Base + 1 /\ Base + Len(buf) + Len(rx) = clocked
    BY <1>2 DEF Flow
  <2>2. tx \in Nat /\ clocked \in Nat /\ Len(rx) \in Nat /\ Base \in Nat /\ toSend = 0
    BY <1>2
  <2>3. tx + clocked <= Base + 1 /\ tx + clocked >= Base + 1
    BY <2>1, <2>2
  <2>4. clocked <= Base + Len(rx) /\ clocked >= Base + Len(rx)
    BY <1>4, <2>1, <2>2
  <2>5. Len(rx) >= 1
    BY <1>3, <2>2
  <2>6. clocked >= Base + 1
    BY <2>2, <2>4, <2>5
  <2>7. tx <= 0
    BY <2>2, <2>3, <2>6
  <2>8. clocked <= Base + 1
    BY <2>2, <2>3
  <2>9. Len(rx) <= 1
    BY <2>2, <2>4, <2>8
  <2>10. Len(rx) = 1
    BY <2>2, <2>5, <2>9
  <2>11. tx = 0
    BY <2>2, <2>7
  <2>12. clocked = Base + 1
    BY <2>2, <2>6, <2>8
  <2>. QED
    BY <2>10, <2>11, <2>12
<1>6. rx[1] = Base + 1
  BY <1>2, <1>4, <1>5 DEF Flow
<1>7. buf' = <<Base + 1>> /\ rx' = <<>>
  BY <1>1, <1>2, <1>5, <1>6, SequenceItems
<1>8. Len(buf') = 1 /\ buf'[1] = Base + 1 /\ Len(rx') = 0 /\ rx' \in Seq(Nat) /\ buf' \in Seq(Nat)
  BY <1>2, <1>7
<1>. QED
  BY <1>1, <1>2, <1>5, <1>8, EndedStep

LEMMA DeselectStep ==
  ASSUME IInv, Deselect
  PROVE  IInv'
<1>1. /\ call' = <<>> /\ selected' = FALSE /\ todo = <<>> /\ transfer = None
      /\ UNCHANGED <<todo, transfer, toSend, toTake, tx, rx, clocked, buf>>
  BY DEF Deselect, dma, spi
<1>2. TypeOK'
  BY <1>1 DEF IInv, TypeOK
<1>3. Stage' /\ Resting' /\ Flowing' /\ OwnAnswer'
  BY <1>1 DEF IInv, Stage, Resting, Flowing, OwnAnswer, None
<1>. QED
  BY <1>2, <1>3 DEF IInv

THEOREM SpiStep == IInv /\ [Next]_vars => IInv'
<1>. SUFFICES ASSUME IInv, [Next]_vars PROVE IInv'
  OBVIOUS
<1>1. CASE Select
  BY <1>1, SelectStep
<1>2. CASE Code
  BY <1>2, StartStep, WaitStep, ByteStep, DeselectStep DEF Code
<1>3. CASE Hardware
  BY <1>3, TxStep, ShiftStep, RxStep DEF Hardware
<1>4. CASE UNCHANGED vars
  <2>1. UNCHANGED <<call, todo, transfer, selected, toSend, toTake, tx, rx, clocked, buf>>
    BY <1>4 DEF vars, program, dma, spi
  <2>2. TypeOK' /\ Stage'
    BY <2>1 DEF IInv, TypeOK, Stage
  <2>3. Base' = Base
    BY <2>1 DEF Base
  <2>4. Resting' /\ Flowing' /\ OwnAnswer'
    BY <2>1, <2>3 DEF IInv, Resting, Flowing, Flow, OwnAnswer
  <2>. QED
    BY <2>2, <2>4 DEF IInv
<1>. QED
  BY <1>1, <1>2, <1>3, <1>4 DEF Next

-----------------------------------------------------------------------------
(* The bytes an access reads are the chip's answer to its own clocks, the   *)
(* bytes after the header in their order, whatever the depth of the FIFOs   *)
(* and the length of the access (DMA_write drains what it clocks in).       *)
THEOREM OwnAnswerTheorem == Spec => []OwnAnswer
<1>1. IInv => OwnAnswer
  BY DEF IInv
<1>. QED
  BY <1>1, SpiInit, SpiStep, PTL DEF Spec

(* CS rises after the last bit of an access, with both DMA channels and the *)
(* TX FIFO at rest, whatever the depth and the length.                      *)
THEOREM FrameWholeTheorem == Spec => FrameWhole
<1>1. ASSUME IInv, [Next]_vars
      PROVE  [selected /\ ~selected' =>
                clocked = FrameLength(call) /\ toSend = 0 /\ toTake = 0 /\ tx = 0]_vars
  <2>1. CASE Deselect
    <3>1. call # <<>> /\ todo = <<>> /\ transfer = None
      BY <2>1 DEF Deselect
    <3>2. call \in Access
      BY <1>1, <3>1 DEF IInv, TypeOK
    <3>3. clocked = FrameLength(call)
      <4>1. None.op = "none"
        BY DEF None
      <4>2. call[1] # None /\ (Len(call) = 2 => Tail(call) # <<>> /\ call[2] # None)
        BY <3>2, <4>1, AccessShape DEF Second
      <4>. QED
        BY <1>1, <3>1, <4>2 DEF IInv, Stage
    <3>. QED
      BY <1>1, <3>1, <3>3 DEF IInv, Resting
  <2>2. CASE ~Deselect
    <3>1. [selected' \/ selected' = selected]_vars
      BY <1>1, <2>2 DEF Next, Code, Hardware, Select, Start, WaitForFinish, read_byte,
                        TxChannel, Shift, RxChannel
    <3>. QED
      BY <3>1
  <2>. QED
    BY <2>1, <2>2
<1>. QED
  BY <1>1, SpiInit, SpiStep, PTL DEF Spec, FrameWhole
=============================================================================
