--------------------------- MODULE SpiSlaveLink_proofs ---------------------------
(***************************************************************************)
(* Proofs about SpiSlaveLink, for packets, headers and a FIFO of any size  *)
(* and any number of transactions, cut short wherever and however often.   *)
(*                                                                         *)
(* The inductive invariant has two halves that share only the bus:         *)
(*   FifoInv, ResponseInv   how much of an old response the TX FIFO may    *)
(*                          still hold, and where each byte is if none     *)
(*   SpliceInv, ShiftInv    what the buffer under way and the last one     *)
(*                          begin with                                     *)
(***************************************************************************)
EXTENDS SpiSlaveLink, TLAPS

LEMMA QueueItems ==
  ASSUME NEW S, NEW s \in Seq(S)
  PROVE  /\ \A x \in S : Append(s, x) \in Seq(S) /\ Len(Append(s, x)) = Len(s) + 1
         /\ \A x \in S, i \in 1 .. Len(s) + 1 : Append(s, x)[i] = IF i <= Len(s) THEN s[i] ELSE x
         /\ s # <<>> => /\ Head(s) = s[1] /\ Head(s) \in S
                        /\ Tail(s) \in Seq(S) /\ Len(Tail(s)) = Len(s) - 1 /\ Len(s) > 0
                        /\ \A i \in 1 .. Len(s) - 1 : Tail(s)[i] = s[i + 1]
         /\ Len(s) \in Nat
OBVIOUS

Item == [of : Int, at : Int]

LinkType ==
  /\ cs \in {"wait", "high", "low", "risen"}
  /\ txn \in 0 .. MaxTxn /\ shorts \in 0 .. MaxShort /\ sinceShort \in Nat
  /\ shorts <= txn /\ sinceShort <= txn
  /\ cs = "low" => sinceShort < txn /\ (missed = 0 => shorts < txn)
  /\ cs \in {"low", "risen"} => txn > 0
  /\ cs = "wait" => txn = 0 /\ shorts = 0 /\ sinceShort = 0
  /\ missed \in 0 .. N - 1 /\ missed + Len(sent) <= N
  /\ missed > 0 => cs = "low" /\ sinceShort = 0 /\ shorts > 0
  /\ frame = IF cs \in {"wait", "high"} THEN txn ELSE txn - 1
  /\ dmaNext \in 0 .. N /\ fifo \in Seq(Item) /\ Len(fifo) <= FifoDepth
  /\ osr \in Item /\ sent \in Seq(Item) /\ Len(sent) <= N
  /\ rx \in Seq(Item) /\ Len(rx) < N
  /\ received \in Seq(Item) /\ Len(received) \in {0, N} /\ spliced \in Nat

(* How many bytes of a response cut short may still be in the FIFO when a   *)
(* transaction begins: each full transaction drains one.                    *)
MayBeStale == IF shorts = 0 \/ sinceShort >= FifoDepth THEN 0 ELSE FifoDepth - sinceShort

(* The TX DMA keeps the FIFO full to the last byte of the response; what    *)
(* has been pulled beyond its own bytes was stale.                          *)
FifoInv ==
  /\ Len(fifo) = FifoDepth \/ dmaNext = N \/ cs = "risen"
  /\ cs \in {"wait", "high"} => Len(fifo) = FifoDepth /\ FifoDepth - dmaNext \in 0 .. MayBeStale
  /\ cs = "low" /\ Len(sent) < N => Len(sent) + 1 + Len(fifo) - dmaNext \in 0 .. MayBeStale
  /\ cs = "low" /\ Len(sent) = N => dmaNext = N /\ (Len(fifo) > 0 => Len(fifo) < MayBeStale)
  /\ cs = "risen" => Len(fifo) <= MayBeStale

(* With nothing stale, each byte is at its place.                           *)
ResponseInv ==
  MayBeStale = 0 =>
    /\ cs \in {"wait", "high"} => \A i \in 1 .. Len(fifo) : fifo[i] = Byte(txn, i - 1)
    /\ cs = "low" => \A i \in 1 .. Len(sent) : sent[i] = Byte(txn - 1, i - 1)
    /\ cs = "low" /\ Len(sent) < N =>
         /\ osr = Byte(txn - 1, Len(sent))
         /\ \A i \in 1 .. Len(fifo) : fifo[i] = Byte(txn - 1, Len(sent) + i)

(* A buffer begun by a transaction that ended before filling it.            *)
Pending == rx # <<>> /\ rx[1].at = 0 /\ ~(cs = "low" /\ rx[1].of = txn)

(* Each short transaction begins at most one such buffer; one begun by the  *)
(* transaction under way holds its bytes and no others.                     *)
SpliceInv ==
  /\ spliced <= shorts
  /\ Pending => spliced < shorts
  /\ rx # <<>> => rx[1].of <= txn
  /\ cs = "low" /\ rx # <<>> /\ rx[1] = Byte(txn, 0) =>
       Len(rx) = Len(sent) /\ \A i \in 1 .. Len(rx) : rx[i] = Byte(txn, i - 1)
  /\ missed > 0 => spliced < shorts /\ Len(rx) = Len(sent) /\ (rx # <<>> => rx[1].at # 0)
  /\ cs = "wait" => rx = <<>>

(* While the stream is shifted, a buffer begins where a transaction has     *)
(* already sent some bytes.  Within a transaction rx is longer than sent    *)
(* until it has filled the buffer the one before began, shorter after that. *)
ShiftInv ==
  /\ cs # "low" /\ sinceShort > 0 /\ rx # <<>> => rx[1].at # 0
  /\ cs # "low" /\ sinceShort > 1 /\ rx # <<>> => received # <<>> /\ received[1].at # 0
  /\ cs = "low" /\ sinceShort > 0 /\ Len(rx) > Len(sent) => rx[1].at # 0
  /\ cs = "low" /\ missed = 0 /\ Len(rx) < Len(sent) =>
       /\ rx # <<>> => rx[1].at # 0
       /\ sinceShort > 0 /\ Len(rx) + N > Len(sent) => received # <<>> /\ received[1].at # 0

-----------------------------------------------------------------------------
LEMMA ByteItem == \A f, i \in Int : Byte(f, i) \in Item /\ Byte(f, i).of = f /\ Byte(f, i).at = i
BY DEF Byte, Item

LEMMA RoomBounds ==
  ASSUME NEW k \in 0 .. FifoDepth, NEW q, Len(q) = k, NEW next \in 0 .. N
  PROVE  /\ Room(q, next) \in Nat
         /\ Room(q, next) <= FifoDepth - k /\ Room(q, next) <= N - next
         /\ Room(q, next) >= FifoDepth - k \/ Room(q, next) >= N - next
BY SizesAssumption DEF Room, Lesser

(* What the TX DMA adds to the FIFO, and where.                             *)
LEMMA FilledItems ==
  ASSUME NEW q \in Seq(Item), Len(q) <= FifoDepth, NEW f \in Int, NEW next \in 0 .. N
  PROVE  /\ Filled(q, f, next) \in Seq(Item)
         /\ Len(Filled(q, f, next)) = Len(q) + Room(q, next)
         /\ \A i \in 1 .. Len(q) : Filled(q, f, next)[i] = q[i]
         /\ \A i \in Len(q) + 1 .. Len(q) + Room(q, next) :
              Filled(q, f, next)[i] = Byte(f, next + i - Len(q) - 1)
<1>. DEFINE room == Room(q, next)
            new  == [i \in 1 .. room |-> Byte(f, next + i - 1)]
<1>1. Len(q) \in 0 .. FifoDepth
  BY SizesAssumption
<1>2. room \in Nat
  BY <1>1, RoomBounds
<1>3. \A i \in 1 .. room : Byte(f, next + i - 1) \in Item
  BY <1>2, ByteItem
<1>. HIDE DEF room
<1>4. new \in Seq(Item) /\ Len(new) = room
  BY <1>2, <1>3
<1>5. \A i \in 1 .. room : new[i] = Byte(f, next + i - 1)
  OBVIOUS
<1>. HIDE DEF new
<1>6. /\ q \o new \in Seq(Item) /\ Len(q \o new) = Len(q) + room
      /\ \A i \in 1 .. Len(q) + room : (q \o new)[i] = IF i <= Len(q) THEN q[i] ELSE new[i - Len(q)]
  BY <1>2, <1>4
<1>7. \A i \in 1 .. Len(q) : (q \o new)[i] = q[i]
  BY <1>1, <1>2, <1>6
<1>8. ASSUME NEW i \in Len(q) + 1 .. Len(q) + room
      PROVE  (q \o new)[i] = Byte(f, next + i - Len(q) - 1)
  <2>1. (q \o new)[i] = new[i - Len(q)]
    BY <1>1, <1>2, <1>6
  <2>2. new[i - Len(q)] = Byte(f, next + (i - Len(q)) - 1)
    BY <1>1, <1>2, <1>5
  <2>3. next + (i - Len(q)) - 1 = next + i - Len(q) - 1
    BY <1>1, <1>2
  <2>. QED
    BY <2>1, <2>2, <2>3
<1>9. Filled(q, f, next) = q \o new
  BY DEF Filled, room, new
<1>. QED
  BY <1>6, <1>7, <1>8, <1>9 DEF room

(* A pull from a FIFO with something in it: the DMA refills what it can.    *)
LEMMA PullItems ==
  ASSUME LinkType, NEW x \in Item, Pull(x), fifo # <<>>
  PROVE  /\ osr' = fifo[1] /\ osr' \in Item
         /\ dmaNext' \in 0 .. N /\ fifo' \in Seq(Item) /\ Len(fifo') <= FifoDepth
         /\ Len(fifo') = FifoDepth \/ dmaNext' = N
         /\ Len(fifo) > 0 /\ Len(fifo') >= Len(fifo) - 1
         /\ Len(fifo') - dmaNext' = Len(fifo) - 1 - dmaNext
         /\ \A i \in 1 .. Len(fifo) - 1 : fifo'[i] = fifo[i + 1]
         /\ \A i \in Len(fifo) .. Len(fifo') : fifo'[i] = Byte(frame, dmaNext + i - Len(fifo))
<1>. DEFINE q == Tail(fifo)
<1>1. /\ osr' = Head(fifo) /\ fifo' = Filled(q, frame, dmaNext)
      /\ dmaNext' = dmaNext + Room(q, dmaNext)
  BY DEF Pull
<1>2. /\ fifo \in Seq(Item) /\ Len(fifo) <= FifoDepth /\ dmaNext \in 0 .. N /\ frame \in Int
  BY DEF LinkType
<1>3. /\ Head(fifo) = fifo[1] /\ Head(fifo) \in Item
      /\ q \in Seq(Item) /\ Len(q) = Len(fifo) - 1 /\ Len(fifo) > 0 /\ Len(fifo) \in Nat
      /\ \A i \in 1 .. Len(fifo) - 1 : q[i] = fifo[i + 1]
  BY <1>2, QueueItems
<1>. HIDE DEF q
<1>4. Len(q) \in 0 .. FifoDepth
  BY <1>2, <1>3, SizesAssumption
<1>5. /\ Room(q, dmaNext) \in Nat
      /\ Room(q, dmaNext) <= FifoDepth - Len(q) /\ Room(q, dmaNext) <= N - dmaNext
      /\ Room(q, dmaNext) >= FifoDepth - Len(q) \/ Room(q, dmaNext) >= N - dmaNext
  BY <1>2, <1>4, RoomBounds
<1>6. /\ fifo' \in Seq(Item) /\ Len(fifo') = Len(q) + Room(q, dmaNext)
      /\ \A i \in 1 .. Len(q) : fifo'[i] = q[i]
      /\ \A i \in Len(q) + 1 .. Len(q) + Room(q, dmaNext) :
           fifo'[i] = Byte(frame, dmaNext + i - Len(q) - 1)
  <2>1. q \in Seq(Item) /\ Len(q) <= FifoDepth /\ frame \in Int /\ dmaNext \in 0 .. N
    BY <1>2, <1>3, <1>4, SizesAssumption
  <2>. QED
    BY <1>1, <2>1, FilledItems
<1>7. /\ dmaNext' \in 0 .. N /\ Len(fifo') <= FifoDepth
      /\ Len(fifo') = FifoDepth \/ dmaNext' = N
      /\ Len(fifo') >= Len(fifo) - 1
      /\ Len(fifo') - dmaNext' = Len(fifo) - 1 - dmaNext
  <2>. DEFINE r == Room(q, dmaNext)
  <2>1. /\ dmaNext' = dmaNext + r /\ Len(fifo') = Len(fifo) - 1 + r /\ r \in Nat
        /\ r <= FifoDepth - (Len(fifo) - 1) /\ r <= N - dmaNext
        /\ r >= FifoDepth - (Len(fifo) - 1) \/ r >= N - dmaNext
    BY <1>1, <1>3, <1>5, <1>6
  <2>. HIDE DEF r
  <2>2. Len(fifo) \in Nat /\ dmaNext \in 0 .. N /\ FifoDepth \in Nat /\ N \in Nat
    BY <1>2, <1>3, SizesAssumption
  <2>. QED
    BY <2>1, <2>2
<1>8. \A i \in 1 .. Len(fifo) - 1 : fifo'[i] = fifo[i + 1]
  BY <1>3, <1>6
<1>9. ASSUME NEW i \in Len(fifo) .. Len(fifo')
      PROVE  fifo'[i] = Byte(frame, dmaNext + i - Len(fifo))
  <2>1. i \in Len(q) + 1 .. Len(q) + Room(q, dmaNext)
    BY <1>3, <1>4, <1>5, <1>6
  <2>2. dmaNext + i - Len(q) - 1 = dmaNext + i - Len(fifo)
    BY <1>2, <1>3, <1>4
  <2>. QED
    BY <1>6, <2>1, <2>2
<1>. QED
  BY <1>1, <1>3, <1>6, <1>7, <1>8, <1>9

(* Only an empty FIFO makes the program osr out its scratch register, and *)
(* within a transaction that is after the last byte.                        *)
LEMMA EmptyOnlyAtEnd ==
  ASSUME LinkType, FifoInv, cs = "low", Len(sent) < N, fifo = <<>>
  PROVE  dmaNext = N /\ Len(sent) = N - 1 /\ Len(fifo) = 0
<1>1. Len(fifo) = 0 /\ dmaNext = N
  BY SizesAssumption DEF FifoInv
<1>2. Len(sent) + 1 + Len(fifo) - dmaNext >= 0
  BY DEF FifoInv
<1>. QED
  BY <1>1, <1>2, SizesAssumption DEF LinkType

LEMMA StaleBounds ==
  ASSUME LinkType
  PROVE  MayBeStale \in Nat /\ MayBeStale <= FifoDepth
BY SizesAssumption DEF LinkType, MayBeStale

LEMMA StaleSame ==
  ASSUME UNCHANGED <<shorts, sinceShort>>
  PROVE  MayBeStale' = MayBeStale
BY DEF MayBeStale

-----------------------------------------------------------------------------
(* What the TX half of an action preserves.                                 *)
LEMMA FallType ==
  ASSUME LinkType, FifoInv, CsFall
  PROVE  /\ LinkType' /\ fifo # <<>> /\ LinkType /\ Pull(Zero) /\ Zero \in Item
         /\ cs = "high" /\ cs' = "low" /\ txn' = txn + 1 /\ sent' = <<>> /\ Len(sent') = 0
         /\ missed = 0 /\ missed' = 0
         /\ UNCHANGED <<shorts, sinceShort, frame, rx, received, spliced>>
<1>1. /\ cs = "high" /\ cs' = "low" /\ txn' = txn + 1 /\ sent' = <<>> /\ txn < MaxTxn
      /\ UNCHANGED <<missed, shorts, sinceShort, frame, rx, received, spliced>> /\ Pull(Zero)
  BY DEF CsFall, rcv
<1>2. Zero \in Item
  BY ByteItem DEF Zero
<1>3. fifo # <<>>
  BY <1>1, SizesAssumption DEF FifoInv
<1>4. /\ osr' \in Item /\ dmaNext' \in 0 .. N /\ fifo' \in Seq(Item) /\ Len(fifo') <= FifoDepth
  BY <1>1, <1>2, <1>3, PullItems
<1>5. /\ sent' \in Seq(Item) /\ Len(sent') = 0 /\ Len(sent') <= N
      /\ missed = 0 /\ missed' = 0 /\ missed' \in 0 .. N - 1 /\ missed' + Len(sent') <= N
  BY <1>1, SizesAssumption DEF LinkType
<1>6. /\ cs' \in {"wait", "high", "low", "risen"}
      /\ txn' \in 0 .. MaxTxn /\ shorts' \in 0 .. MaxShort /\ sinceShort' \in Nat
      /\ shorts' < txn' /\ sinceShort' < txn' /\ txn' > 0 /\ frame' = txn' - 1
  BY <1>1, BoundsAssumption DEF LinkType
<1>7. LinkType'
  BY <1>1, <1>4, <1>5, <1>6 DEF LinkType
<1>. QED
  BY <1>1, <1>2, <1>3, <1>5, <1>7

LEMMA FallFifo ==
  ASSUME LinkType, FifoInv, ResponseInv, CsFall
  PROVE  FifoInv' /\ ResponseInv'
<1>1. /\ LinkType' /\ fifo # <<>> /\ Pull(Zero) /\ Zero \in Item
      /\ cs = "high" /\ cs' = "low" /\ txn' = txn + 1 /\ sent' = <<>> /\ Len(sent') = 0
      /\ UNCHANGED <<shorts, sinceShort, frame, rx, received, spliced>>
  BY FallType
<1>2. /\ osr' = fifo[1]
      /\ dmaNext' \in 0 .. N /\ Len(fifo') <= FifoDepth
      /\ Len(fifo') = FifoDepth \/ dmaNext' = N
      /\ Len(fifo') - dmaNext' = Len(fifo) - 1 - dmaNext
      /\ \A i \in 1 .. Len(fifo) - 1 : fifo'[i] = fifo[i + 1]
      /\ \A i \in Len(fifo) .. Len(fifo') : fifo'[i] = Byte(frame, dmaNext + i - Len(fifo))
  BY <1>1, PullItems
<1>3. MayBeStale' = MayBeStale /\ MayBeStale \in Nat
  BY <1>1, StaleSame, StaleBounds
<1>4. Len(fifo) = FifoDepth /\ FifoDepth - dmaNext \in 0 .. MayBeStale /\ txn \in Nat /\ frame = txn
  BY <1>1 DEF FifoInv, LinkType
<1>5. dmaNext \in Nat /\ Len(fifo') \in Nat /\ FifoDepth \in Nat \ {0} /\ N \in Nat \ {0}
  BY <1>1, SizesAssumption DEF LinkType
<1>6. Len(sent') + 1 + Len(fifo') - dmaNext' = FifoDepth - dmaNext
  BY <1>1, <1>2, <1>4, <1>5
<1>7. FifoInv'
  BY <1>1, <1>2, <1>3, <1>4, <1>5, <1>6 DEF FifoInv
<1>8. ASSUME MayBeStale = 0
      PROVE  /\ osr' = Byte(txn, 0)
             /\ \A i \in 1 .. Len(fifo') : fifo'[i] = Byte(txn, i)
  <2>1. dmaNext = FifoDepth /\ \A i \in 1 .. FifoDepth : fifo[i] = Byte(txn, i - 1)
    BY <1>1, <1>4, <1>5, <1>8 DEF ResponseInv
  <2>2. osr' = Byte(txn, 0)
    BY <1>2, <1>5, <2>1
  <2>3. ASSUME NEW i \in 1 .. Len(fifo') PROVE fifo'[i] = Byte(txn, i)
    <3>1. CASE i < FifoDepth
      <4>1. fifo'[i] = fifo[i + 1]
        BY <1>2, <1>4, <1>5, <3>1
      <4>2. fifo[i + 1] = Byte(txn, (i + 1) - 1)
        BY <1>5, <2>1, <3>1
      <4>. QED
        BY <4>1, <4>2
    <3>2. CASE i >= FifoDepth
      <4>1. fifo'[i] = Byte(txn, dmaNext + i - FifoDepth)
        BY <1>2, <1>4, <1>5, <3>2
      <4>2. dmaNext + i - FifoDepth = i
        BY <1>5, <2>1
      <4>. QED
        BY <4>1, <4>2
    <3>. QED
      BY <1>5, <3>1, <3>2
  <2>. QED
    BY <2>2, <2>3
<1>9. ResponseInv'
  <2>. SUFFICES ASSUME MayBeStale = 0 PROVE ResponseInv'
    BY <1>3 DEF ResponseInv
  <2>1. txn' - 1 = txn
    BY <1>1, <1>4
  <2>2. osr' = Byte(txn' - 1, Len(sent'))
    BY <1>1, <1>8, <2>1
  <2>3. \A i \in 1 .. Len(fifo') : fifo'[i] = Byte(txn' - 1, Len(sent') + i)
    BY <1>1, <1>8, <2>1
  <2>. QED
    BY <1>1, <2>2, <2>3 DEF ResponseInv
<1>. QED
  BY <1>7, <1>9

LEMMA ClockFacts ==
  ASSUME LinkType, Clock
  PROVE  /\ cs = "low" /\ cs' = "low" /\ Len(sent) < N /\ Len(sent) \in Nat
         /\ missed + Len(sent) < N /\ missed \in Nat /\ missed' = missed
         /\ sent' \in Seq(Item) /\ Len(sent') = Len(sent) + 1
         /\ \A i \in 1 .. Len(sent) : sent'[i] = sent[i]
         /\ sent'[Len(sent) + 1] = osr
         /\ Pull(Ones) /\ Ones \in Item /\ Store(Byte(txn, missed + Len(sent)))
         /\ UNCHANGED <<txn, shorts, sinceShort, frame>>
<1>1. /\ cs = "low" /\ cs' = "low" /\ missed + Len(sent) < N /\ sent' = Append(sent, osr)
      /\ Pull(Ones) /\ Store(Byte(txn, missed + Len(sent)))
      /\ UNCHANGED <<missed, txn, shorts, sinceShort, frame>>
  BY DEF Clock, bus
<1>2. sent \in Seq(Item) /\ osr \in Item /\ missed \in Nat
  BY SizesAssumption DEF LinkType
<1>3. Ones \in Item
  BY ByteItem DEF Ones
<1>4. /\ sent' \in Seq(Item) /\ Len(sent') = Len(sent) + 1 /\ Len(sent) \in Nat
      /\ \A i \in 1 .. Len(sent) + 1 : sent'[i] = IF i <= Len(sent) THEN sent[i] ELSE osr
  BY <1>1, <1>2, QueueItems
<1>5. Len(sent) < N
  BY <1>1, <1>2, <1>4, SizesAssumption
<1>. QED
  BY <1>1, <1>2, <1>3, <1>4, <1>5

(* The buffer the byte goes to, and whether it is full now.                 *)
LEMMA StoreFacts ==
  ASSUME LinkType, Clock
  PROVE  LET b   == Byte(txn, missed + Len(sent))
             got == Append(rx, b)
         IN /\ got \in Seq(Item) /\ Len(got) = Len(rx) + 1 /\ Len(rx) \in Nat
            /\ \A i \in 1 .. Len(rx) : got[i] = rx[i]
            /\ got[Len(rx) + 1] = b
            /\ \/ Len(rx) + 1 < N /\ rx' = got /\ UNCHANGED <<received, spliced>>
               \/ /\ Len(rx) + 1 = N /\ rx' = <<>> /\ received' = got
                  /\ \/ HeaderOk(got) /\ ~IsWhole(got) /\ spliced' = spliced + 1
                     \/ (~HeaderOk(got) \/ IsWhole(got)) /\ spliced' = spliced
<1>. DEFINE b   == Byte(txn, missed + Len(sent))
            got == Append(rx, b)
<1>1. b \in Item /\ rx \in Seq(Item)
  BY ByteItem, ClockFacts DEF LinkType
<1>. HIDE DEF b
<1>2. /\ got \in Seq(Item) /\ Len(got) = Len(rx) + 1 /\ Len(rx) \in Nat
      /\ \A i \in 1 .. Len(rx) + 1 : got[i] = IF i <= Len(rx) THEN rx[i] ELSE b
  BY <1>1, QueueItems
<1>. HIDE DEF got
<1>3. (\A i \in 1 .. Len(rx) : got[i] = rx[i]) /\ got[Len(rx) + 1] = b
  BY <1>2
<1>4. Store(b)
  BY ClockFacts DEF b
<1>5. \/ Len(rx) + 1 < N /\ rx' = got /\ UNCHANGED <<received, spliced>>
      \/ /\ Len(rx) + 1 = N /\ rx' = <<>> /\ received' = got
         /\ spliced' = IF HeaderOk(got) /\ ~IsWhole(got) THEN spliced + 1 ELSE spliced
  <2>1. IF Len(got) < N
          THEN rx' = got /\ UNCHANGED <<received, spliced>>
          ELSE /\ rx' = <<>> /\ received' = got
               /\ spliced' = IF HeaderOk(got) /\ ~IsWhole(got) THEN spliced + 1 ELSE spliced
    BY <1>4 DEF Store, TransCount, got
  <2>2. Len(rx) < N /\ N \in Nat
    BY SizesAssumption DEF LinkType
  <2>. QED
    BY <1>2, <2>1, <2>2
<1>. QED
  BY <1>2, <1>3, <1>5 DEF got, b

LEMMA ClockType ==
  ASSUME LinkType, FifoInv, Clock
  PROVE  LinkType'
<1>1. /\ cs = "low" /\ cs' = "low" /\ Len(sent) < N /\ Len(sent) \in Nat
      /\ missed + Len(sent) < N /\ missed \in Nat /\ missed' = missed
      /\ sent' \in Seq(Item) /\ Len(sent') = Len(sent) + 1 /\ Pull(Ones) /\ Ones \in Item
      /\ UNCHANGED <<txn, shorts, sinceShort, frame>>
  BY ClockFacts
<1>2. N \in Nat \ {0}
  BY SizesAssumption
<1>3. /\ osr' \in Item /\ dmaNext' \in 0 .. N /\ fifo' \in Seq(Item) /\ Len(fifo') <= FifoDepth
  <2>1. CASE fifo = <<>>
    BY <1>1, <2>1 DEF Pull, LinkType
  <2>2. CASE fifo # <<>>
    BY <1>1, <2>2, PullItems
  <2>. QED
    BY <2>1, <2>2
<1>4. rx' \in Seq(Item) /\ Len(rx') < N /\ received' \in Seq(Item) /\ Len(received') \in {0, N}
      /\ spliced' \in Nat
  <2>. DEFINE got == Append(rx, Byte(txn, missed + Len(sent)))
  <2>1. /\ got \in Seq(Item) /\ Len(got) = Len(rx) + 1 /\ Len(rx) \in Nat
        /\ \/ Len(rx) + 1 < N /\ rx' = got /\ UNCHANGED <<received, spliced>>
           \/ Len(rx) + 1 = N /\ rx' = <<>> /\ received' = got /\ spliced' \in {spliced, spliced + 1}
    BY StoreFacts
  <2>. HIDE DEF got
  <2>2. CASE Len(rx) + 1 < N /\ rx' = got /\ UNCHANGED <<received, spliced>>
    BY <2>1, <2>2 DEF LinkType
  <2>3. CASE Len(rx) + 1 = N /\ rx' = <<>> /\ received' = got /\ spliced' \in {spliced, spliced + 1}
    <3>1. rx' \in Seq(Item) /\ Len(rx') = 0
      BY <2>3
    <3>. QED
      BY <1>2, <2>1, <2>3, <3>1 DEF LinkType
  <2>. QED
    BY <2>1, <2>2, <2>3
<1>5. /\ missed' \in 0 .. N - 1 /\ missed' + Len(sent') <= N /\ Len(sent') <= N
      /\ missed' > 0 => cs' = "low" /\ sinceShort' = 0 /\ shorts' > 0
      /\ cs' = "low" => sinceShort' < txn' /\ (missed' = 0 => shorts' < txn')
  BY <1>1, <1>2 DEF LinkType
<1>. QED
  BY <1>1, <1>2, <1>3, <1>4, <1>5 DEF LinkType

LEMMA ClockFifo ==
  ASSUME LinkType, FifoInv, ResponseInv, Clock
  PROVE  FifoInv' /\ ResponseInv'
<1>1. /\ cs = "low" /\ cs' = "low" /\ Len(sent) < N /\ Len(sent) \in Nat
      /\ sent' \in Seq(Item) /\ Len(sent') = Len(sent) + 1 /\ Pull(Ones) /\ Ones \in Item
      /\ \A i \in 1 .. Len(sent) : sent'[i] = sent[i]
      /\ sent'[Len(sent) + 1] = osr
      /\ UNCHANGED <<txn, shorts, sinceShort, frame>>
  BY ClockFacts
<1>2. MayBeStale' = MayBeStale /\ MayBeStale \in Nat /\ MayBeStale <= FifoDepth
  BY <1>1, StaleSame, StaleBounds
<1>3. N \in Nat \ {0} /\ FifoDepth \in Nat \ {0} /\ FifoDepth + 1 < N
  BY SizesAssumption
<1>4. Len(sent) + 1 + Len(fifo) - dmaNext \in 0 .. MayBeStale
  BY <1>1 DEF FifoInv
<1>5. Len(fifo) \in Nat /\ dmaNext \in 0 .. N /\ Len(fifo) <= FifoDepth /\ txn \in Nat /\ frame = txn - 1
  BY <1>1 DEF LinkType
<1>6. MayBeStale = 0 => \A i \in 1 .. Len(sent') : sent'[i] = Byte(txn' - 1, i - 1)
  <2>. SUFFICES ASSUME MayBeStale = 0, NEW i \in 1 .. Len(sent')
                PROVE  sent'[i] = Byte(txn - 1, i - 1)
    BY <1>1
  <2>1. osr = Byte(txn - 1, Len(sent)) /\ \A k \in 1 .. Len(sent) : sent[k] = Byte(txn - 1, k - 1)
    BY <1>1 DEF ResponseInv
  <2>2. CASE i <= Len(sent)
    BY <1>1, <2>1, <2>2
  <2>3. CASE i = Len(sent) + 1
    <3>1. i - 1 = Len(sent)
      BY <1>1, <2>3
    <3>. QED
      BY <1>1, <2>1, <2>3, <3>1
  <2>. QED
    BY <1>1, <2>2, <2>3
<1>7. CASE fifo = <<>>
  <2>1. dmaNext = N /\ Len(sent) = N - 1 /\ Len(fifo) = 0
    BY <1>1, <1>7, EmptyOnlyAtEnd
  <2>2. UNCHANGED <<fifo, dmaNext>>
    BY <1>1, <1>7 DEF Pull
  <2>3. Len(sent') = N /\ Len(fifo') = 0 /\ dmaNext' = N
    BY <1>1, <1>3, <2>1, <2>2
  <2>4. FifoInv'
    BY <1>1, <1>3, <2>3 DEF FifoInv
  <2>5. ResponseInv'
    BY <1>1, <1>2, <1>3, <1>6, <2>3 DEF ResponseInv
  <2>. QED
    BY <2>4, <2>5
<1>8. CASE fifo # <<>>
  <2>1. /\ osr' = fifo[1]
        /\ dmaNext' \in 0 .. N /\ Len(fifo') <= FifoDepth /\ fifo' \in Seq(Item)
        /\ Len(fifo') = FifoDepth \/ dmaNext' = N
        /\ Len(fifo) > 0 /\ Len(fifo') >= Len(fifo) - 1
        /\ Len(fifo') - dmaNext' = Len(fifo) - 1 - dmaNext
        /\ \A i \in 1 .. Len(fifo) - 1 : fifo'[i] = fifo[i + 1]
        /\ \A i \in Len(fifo) .. Len(fifo') : fifo'[i] = Byte(frame, dmaNext + i - Len(fifo))
    BY <1>1, <1>8, PullItems
  <2>2. Len(fifo') \in Nat
    BY <2>1
  <2>3. Len(sent') + 1 + Len(fifo') - dmaNext' \in 0 .. MayBeStale
    <3>1. Len(sent') + 1 + Len(fifo') - dmaNext' = Len(sent) + 1 + Len(fifo) - dmaNext
      <4>1. Len(sent') = Len(sent) + 1 /\ Len(sent) \in Nat
        BY <1>1
      <4>2. Len(fifo') - dmaNext' = Len(fifo) - 1 - dmaNext
        BY <2>1
      <4>3. Len(fifo) \in Int /\ dmaNext \in Int /\ Len(fifo') \in Int /\ dmaNext' \in Int
        BY <1>5, <2>1, <2>2
      <4>. QED
        BY <4>1, <4>2, <4>3
    <3>. QED
      BY <1>4, <3>1
  <2>4. Len(sent') = N => dmaNext' = N /\ (Len(fifo') > 0 => Len(fifo') < MayBeStale)
    BY <1>1, <1>2, <1>3, <2>1, <2>2, <2>3
  <2>5. FifoInv'
    BY <1>1, <1>2, <2>1, <2>3, <2>4 DEF FifoInv
  <2>6. ASSUME MayBeStale = 0, Len(sent') < N
        PROVE  /\ osr' = Byte(txn - 1, Len(sent'))
               /\ \A i \in 1 .. Len(fifo') : fifo'[i] = Byte(txn - 1, Len(sent') + i)
    <3>1. \A i \in 1 .. Len(fifo) : fifo[i] = Byte(txn - 1, Len(sent) + i)
      BY <1>1, <2>6 DEF ResponseInv
    <3>2. osr' = Byte(txn - 1, Len(sent'))
      BY <1>1, <1>5, <2>1, <3>1
    <3>3. ASSUME NEW i \in 1 .. Len(fifo') PROVE fifo'[i] = Byte(txn - 1, Len(sent') + i)
      <4>1. CASE i < Len(fifo)
        <5>1. fifo'[i] = fifo[i + 1] /\ fifo[i + 1] = Byte(txn - 1, Len(sent) + (i + 1))
          <6>1. i \in 1 .. Len(fifo) - 1 /\ i + 1 \in 1 .. Len(fifo)
            BY <1>5, <4>1
          <6>. QED
            BY <2>1, <3>1, <6>1
        <5>2. Len(sent) + (i + 1) = Len(sent') + i
          BY <1>1
        <5>. QED
          BY <5>1, <5>2
      <4>2. CASE i >= Len(fifo)
        <5>1. fifo'[i] = Byte(txn - 1, dmaNext + i - Len(fifo))
          BY <1>5, <2>1, <2>2, <4>2
        <5>2. dmaNext + i - Len(fifo) = Len(sent') + i
          BY <1>1, <1>4, <1>5, <2>6
        <5>. QED
          BY <5>1, <5>2
      <4>. QED
        BY <1>5, <2>2, <4>1, <4>2
    <3>. QED
      BY <3>2, <3>3
  <2>7. ResponseInv'
    BY <1>1, <1>2, <1>6, <2>6 DEF ResponseInv
  <2>. QED
    BY <2>5, <2>7
<1>. QED
  BY <1>7, <1>8

LEMMA RiseFacts ==
  ASSUME LinkType, CsRise
  PROVE  /\ cs = "low" /\ cs' = "risen" /\ Len(sent) \in Nat /\ Len(sent) <= N
         /\ \/ /\ Len(sent) < N /\ missed = 0
               /\ shorts' = shorts + 1 /\ shorts < MaxShort /\ sinceShort' = 0
            \/ Len(sent) < N /\ missed > 0 /\ shorts' = shorts /\ sinceShort' = 0
            \/ Len(sent) = N /\ missed = 0 /\ shorts' = shorts /\ sinceShort' = sinceShort + 1
         /\ missed' = 0
         /\ UNCHANGED <<txn, frame, dmaNext, fifo, osr, sent, rx, received, spliced>>
<1>. DEFINE k == Len(sent)
<1>1. k \in Nat /\ k <= N /\ N \in Nat /\ missed \in Nat /\ missed + k <= N
  BY SizesAssumption DEF LinkType
<1>2. /\ cs = "low" /\ cs' = "risen" /\ missed' = 0
      /\ IF k < N /\ missed = 0 THEN shorts < MaxShort /\ shorts' = shorts + 1 ELSE shorts' = shorts
      /\ sinceShort' = IF k < N THEN 0 ELSE sinceShort + 1
      /\ UNCHANGED <<txn, frame, dmaNext, fifo, osr, sent, rx, received, spliced>>
  BY DEF CsRise, tx, rcv
<1>. HIDE DEF k
<1>3. \/ k < N /\ missed = 0 /\ shorts' = shorts + 1 /\ shorts < MaxShort /\ sinceShort' = 0
      \/ k < N /\ missed > 0 /\ shorts' = shorts /\ sinceShort' = 0
      \/ k = N /\ missed = 0 /\ shorts' = shorts /\ sinceShort' = sinceShort + 1
  BY <1>1, <1>2
<1>. QED
  BY <1>1, <1>2, <1>3 DEF k

LEMMA RiseFifo ==
  ASSUME LinkType, FifoInv, ResponseInv, CsRise
  PROVE  LinkType' /\ FifoInv' /\ ResponseInv'
<1>1. /\ cs = "low" /\ cs' = "risen" /\ Len(sent) \in Nat /\ Len(sent) <= N
      /\ \/ /\ Len(sent) < N /\ missed = 0
            /\ shorts' = shorts + 1 /\ shorts < MaxShort /\ sinceShort' = 0
         \/ Len(sent) < N /\ missed > 0 /\ shorts' = shorts /\ sinceShort' = 0
         \/ Len(sent) = N /\ missed = 0 /\ shorts' = shorts /\ sinceShort' = sinceShort + 1
      /\ missed' = 0
      /\ UNCHANGED <<txn, frame, dmaNext, fifo, osr, sent, rx, received, spliced>>
  BY RiseFacts
<1>2. LinkType'
  <2>1. /\ shorts' \in 0 .. MaxShort /\ sinceShort' \in Nat /\ shorts' <= txn' /\ sinceShort' <= txn'
        /\ txn' > 0 /\ missed' \in 0 .. N - 1 /\ missed' + Len(sent') <= N
    <3>1. /\ missed \in 0 .. N - 1 /\ N \in Nat \ {0} /\ MaxShort \in Nat
          /\ shorts \in 0 .. MaxShort /\ sinceShort \in Nat /\ txn \in Nat /\ txn > 0
          /\ shorts <= txn /\ sinceShort < txn /\ (missed = 0 => shorts < txn)
      BY <1>1, SizesAssumption, BoundsAssumption DEF LinkType
    <3>2. missed' = 0 /\ sent' = sent /\ txn' = txn
      BY <1>1
    <3>3. missed' \in 0 .. N - 1 /\ missed' + Len(sent') <= N
      BY <1>1, <3>1, <3>2
    <3>4. /\ shorts' \in 0 .. MaxShort /\ sinceShort' \in Nat
          /\ shorts' <= txn /\ sinceShort' <= txn
      BY <1>1, <3>1
    <3>. QED
      BY <3>1, <3>2, <3>3, <3>4
  <2>. QED
    BY <1>1, <2>1 DEF LinkType
<1>3. FifoDepth \in Nat \ {0} /\ Len(fifo) \in Nat /\ Len(fifo) <= FifoDepth
      /\ shorts \in Nat /\ sinceShort \in Nat
  BY SizesAssumption, BoundsAssumption DEF LinkType
<1>4. Len(fifo) <= MayBeStale'
  <2>1. CASE Len(sent) < N
    <3>1. shorts' > 0 /\ sinceShort' = 0
      BY <1>1, <1>3, <2>1 DEF LinkType
    <3>. QED
      BY <1>1, <1>3, <3>1 DEF MayBeStale
  <2>2. CASE Len(sent) = N
    <3>1. Len(fifo) > 0 => Len(fifo) < MayBeStale
      BY <1>1, <2>2 DEF FifoInv
    <3>2. shorts' = shorts /\ sinceShort' = sinceShort + 1
      BY <1>1, <2>2
    <3>. QED
      BY <1>3, <3>1, <3>2 DEF MayBeStale
  <2>. QED
    BY <1>1, <2>1, <2>2
<1>5. FifoInv'
  BY <1>1, <1>4 DEF FifoInv
<1>6. ResponseInv'
  BY <1>1 DEF ResponseInv
<1>. QED
  BY <1>2, <1>5, <1>6

(* The DMA is started over a FIFO that still holds what was not sent.       *)
LEMMA RearmFifo ==
  ASSUME LinkType, FifoInv, handleNssInterrupt
  PROVE  LinkType' /\ FifoInv' /\ ResponseInv'
<1>1. /\ cs = "risen" /\ cs' = "high" /\ frame' = txn
      /\ fifo' = Filled(fifo, txn, 0) /\ dmaNext' = Room(fifo, 0)
      /\ UNCHANGED <<missed, txn, shorts, sinceShort, osr, sent, rx, received, spliced>>
  BY DEF handleNssInterrupt, RearmTx, rcv
<1>2. /\ fifo \in Seq(Item) /\ Len(fifo) \in 0 .. FifoDepth /\ Len(fifo) <= FifoDepth
      /\ txn \in Int /\ 0 \in 0 .. N /\ N \in Nat /\ FifoDepth \in Nat /\ FifoDepth + 1 < N
  BY SizesAssumption DEF LinkType
<1>3. Room(fifo, 0) = FifoDepth - Len(fifo)
  BY <1>2 DEF Room, Lesser
<1>4. /\ fifo' \in Seq(Item) /\ Len(fifo') = FifoDepth
      /\ \A i \in Len(fifo) + 1 .. FifoDepth : fifo'[i] = Byte(txn, 0 + i - Len(fifo) - 1)
  <2>1. /\ fifo' \in Seq(Item) /\ Len(fifo') = Len(fifo) + Room(fifo, 0)
        /\ \A i \in Len(fifo) + 1 .. Len(fifo) + Room(fifo, 0) :
             fifo'[i] = Byte(txn, 0 + i - Len(fifo) - 1)
    BY <1>1, <1>2, FilledItems
  <2>2. Len(fifo) + Room(fifo, 0) = FifoDepth
    BY <1>2, <1>3
  <2>. QED
    BY <2>1, <2>2
<1>5. dmaNext' = FifoDepth - Len(fifo) /\ dmaNext' \in 0 .. N
  BY <1>1, <1>2, <1>3
<1>6. LinkType'
  BY <1>1, <1>2, <1>4, <1>5 DEF LinkType
<1>7. MayBeStale' = MayBeStale /\ MayBeStale \in Nat
  BY <1>1, StaleSame, StaleBounds
<1>8. Len(fifo) <= MayBeStale
  BY <1>1 DEF FifoInv
<1>9. FifoDepth - dmaNext' \in 0 .. MayBeStale'
  BY <1>2, <1>5, <1>7, <1>8
<1>10. FifoInv'
  BY <1>1, <1>4, <1>9 DEF FifoInv
<1>11. ResponseInv'
  <2>. SUFFICES ASSUME MayBeStale = 0, NEW i \in 1 .. Len(fifo')
                PROVE  fifo'[i] = Byte(txn, i - 1)
    BY <1>1, <1>7 DEF ResponseInv
  <2>1. Len(fifo) = 0
    BY <1>2, <1>8
  <2>2. fifo'[i] = Byte(txn, 0 + i - 0 - 1)
    BY <1>4, <2>1
  <2>3. 0 + i - 0 - 1 = i - 1
    OBVIOUS
  <2>. QED
    BY <2>2, <2>3
<1>. QED
  BY <1>6, <1>10, <1>11

-----------------------------------------------------------------------------
(* What the RX half of an action preserves.                                 *)
LEMMA FallRx ==
  ASSUME LinkType, FifoInv, SpliceInv, ShiftInv, CsFall
  PROVE  SpliceInv' /\ ShiftInv'
<1>1. /\ cs = "high" /\ cs' = "low" /\ txn' = txn + 1 /\ Len(sent') = 0 /\ missed' = 0
      /\ UNCHANGED <<shorts, sinceShort, rx, received, spliced>>
  BY FallType
<1>2. rx \in Seq(Item) /\ txn \in Nat /\ Len(rx) \in Nat
  BY DEF LinkType
<1>3. rx # <<>> => rx[1] \in Item /\ rx[1].of \in Int /\ rx[1].of <= txn /\ rx[1].of # txn'
  <2>1. rx # <<>> => rx[1] \in Item
    BY <1>2
  <2>2. rx # <<>> => rx[1].of \in Int /\ rx[1].of <= txn
    BY <2>1 DEF Item, SpliceInv
  <2>. QED
    BY <1>1, <1>2, <2>1, <2>2
<1>4. Pending' => Pending
  BY <1>1 DEF Pending
<1>5. rx # <<>> => rx[1].of <= txn'
  BY <1>1, <1>2, <1>3
<1>6. rx # <<>> => rx[1] # Byte(txn', 0)
  BY <1>1, <1>2, <1>3, ByteItem
<1>7. SpliceInv'
  BY <1>1, <1>4, <1>5, <1>6 DEF SpliceInv
<1>8. Len(rx) > 0 => rx # <<>>
  OBVIOUS
<1>9. ShiftInv'
  BY <1>1, <1>2, <1>8 DEF ShiftInv
<1>. QED
  BY <1>7, <1>9

LEMMA ClockSplice ==
  ASSUME LinkType, SpliceInv, Clock
  PROVE  SpliceInv'
<1>. DEFINE b   == Byte(txn, missed + Len(sent))
            got == Append(rx, b)
<1>1. /\ cs = "low" /\ cs' = "low" /\ Len(sent) < N /\ Len(sent) \in Nat
      /\ missed + Len(sent) < N /\ missed \in Nat /\ missed' = missed
      /\ Len(sent') = Len(sent) + 1 /\ UNCHANGED <<txn, shorts>>
  BY ClockFacts
<1>2. /\ got \in Seq(Item) /\ Len(got) = Len(rx) + 1 /\ Len(rx) \in Nat
      /\ \A i \in 1 .. Len(rx) : got[i] = rx[i]
      /\ got[Len(rx) + 1] = b
      /\ \/ Len(rx) + 1 < N /\ rx' = got /\ UNCHANGED <<received, spliced>>
         \/ /\ Len(rx) + 1 = N /\ rx' = <<>> /\ received' = got
            /\ \/ HeaderOk(got) /\ ~IsWhole(got) /\ spliced' = spliced + 1
               \/ (~HeaderOk(got) \/ IsWhole(got)) /\ spliced' = spliced
  BY StoreFacts
<1>3. /\ txn \in Int /\ b \in Item /\ b.of = txn /\ b.at = missed + Len(sent)
      /\ b = Byte(txn, missed + Len(sent))
  <2>1. txn \in Int /\ missed + Len(sent) \in Int
    BY <1>1 DEF LinkType
  <2>. QED
    BY <2>1, ByteItem
<1>. HIDE DEF b, got
<1>4. N \in Nat /\ H \in Nat \ {0} /\ H < N /\ shorts \in Nat /\ spliced \in Nat /\ rx \in Seq(Item)
  BY SizesAssumption, BoundsAssumption DEF LinkType
<1>5. rx # <<>> => got[1] = rx[1] /\ rx[1] \in Item /\ Len(rx) > 0
  BY <1>2, <1>4
<1>6. rx = <<>> => got[1] = b
  <2>1. rx = <<>> => Len(rx) + 1 = 1
    BY <1>2
  <2>. QED
    BY <1>2, <2>1
<1>10. Len(rx) + 1 = N => missed = 0
  <2>1. missed > 0 => Len(rx) = Len(sent)
    BY DEF SpliceInv
  <2>. QED
    BY <1>1, <1>2, <1>4, <2>1
<1>7. CASE Len(rx) + 1 < N /\ rx' = got /\ UNCHANGED <<received, spliced>>
  <2>1. Pending' => Pending
    BY <1>1, <1>3, <1>5, <1>6, <1>7 DEF Pending
  <2>2. got[1].of <= txn
    BY <1>3, <1>5, <1>6 DEF SpliceInv
  <2>3. ASSUME got[1] = Byte(txn, 0)
        PROVE  Len(got) = Len(sent') /\ \A i \in 1 .. Len(got) : got[i] = Byte(txn, i - 1)
    <3>1. /\ missed = 0 /\ Len(rx) = Len(sent)
          /\ \A i \in 1 .. Len(rx) : rx[i] = Byte(txn, i - 1)
      <4>1. CASE rx = <<>>
        <5>1. b.at = 0
          BY <1>3, <1>6, <2>3, <4>1, ByteItem
        <5>2. Len(rx) = 0
          BY <4>1
        <5>3. missed = 0 /\ Len(sent) = 0
          BY <1>1, <1>3, <5>1
        <5>. QED
          BY <5>2, <5>3
      <4>2. CASE rx # <<>>
        <5>1. rx[1] = Byte(txn, 0) /\ rx[1].at = 0
          BY <1>3, <1>5, <2>3, <4>2, ByteItem
        <5>2. missed = 0
          BY <1>1, <4>2, <5>1 DEF SpliceInv
        <5>. QED
          BY <1>1, <4>2, <5>1, <5>2 DEF SpliceInv
      <4>. QED
        BY <4>1, <4>2
    <3>2. ASSUME NEW i \in 1 .. Len(rx) + 1 PROVE got[i] = Byte(txn, i - 1)
      <4>1. CASE i <= Len(rx)
        BY <1>2, <3>1, <4>1
      <4>2. CASE i = Len(rx) + 1
        <5>1. i - 1 = missed + Len(sent)
          BY <1>1, <1>2, <3>1, <4>2
        <5>. QED
          BY <1>2, <1>3, <4>2, <5>1
      <4>. QED
        BY <1>2, <4>1, <4>2
    <3>. QED
      BY <1>1, <1>2, <3>1, <3>2
  <2>4. ASSUME missed > 0
        PROVE  spliced < shorts /\ Len(got) = Len(sent') /\ got[1].at # 0
    <3>1. spliced < shorts /\ Len(rx) = Len(sent) /\ (rx # <<>> => rx[1].at # 0)
      BY <2>4 DEF SpliceInv
    <3>2. b.at # 0
      BY <1>1, <1>3, <2>4
    <3>. QED
      BY <1>1, <1>2, <1>5, <1>6, <3>1, <3>2
  <2>5. spliced <= shorts /\ (Pending => spliced < shorts)
    BY DEF SpliceInv
  <2>. HIDE DEF Pending
  <2>. QED
    BY <1>1, <1>7, <2>1, <2>2, <2>3, <2>4, <2>5 DEF SpliceInv
<1>8. CASE Len(rx) + 1 = N /\ rx' = <<>> /\ received' = got /\ spliced' = spliced
  BY <1>1, <1>8, <1>10 DEF SpliceInv, Pending
<1>9. CASE /\ Len(rx) + 1 = N /\ rx' = <<>> /\ received' = got
           /\ HeaderOk(got) /\ ~IsWhole(got) /\ spliced' = spliced + 1
  <2>1. rx # <<>>
    <3>1. Len(rx) > 0
      BY <1>2, <1>4, <1>9
    <3>. QED
      BY <3>1
  <2>2. rx[1] = Byte(rx[1].of, 0) /\ rx[1].of \in Int
    <3>1. 1 \in 1 .. H /\ 1 - 1 = 0
      BY <1>4
    <3>2. got[1] = Byte(got[1].of, 1 - 1)
      BY <1>9, <3>1 DEF HeaderOk
    <3>. QED
      BY <1>5, <2>1, <3>1, <3>2 DEF Item
  <2>3. rx[1].at = 0
    BY <2>2, ByteItem
  <2>4. rx[1].of # txn
    <3>. SUFFICES ASSUME rx[1].of = txn PROVE IsWhole(got)
      BY <1>9
    <3>1. /\ missed = 0 /\ Len(rx) = Len(sent)
          /\ \A i \in 1 .. Len(rx) : rx[i] = Byte(txn, i - 1)
      BY <1>1, <1>9, <1>10, <2>1, <2>2 DEF SpliceInv
    <3>2. got[1].of = txn
      BY <1>5, <2>1
    <3>3. ASSUME NEW i \in 1 .. Len(got) PROVE got[i] = Byte(txn, i - 1)
      <4>1. CASE i <= Len(rx)
        BY <1>2, <3>1, <4>1
      <4>2. CASE i = Len(rx) + 1
        <5>1. i - 1 = missed + Len(sent)
          BY <1>1, <1>2, <3>1, <4>2
        <5>. QED
          BY <1>2, <1>3, <4>2, <5>1
      <4>. QED
        BY <1>2, <4>1, <4>2
    <3>. QED
      BY <3>2, <3>3 DEF IsWhole
  <2>5. Pending
    BY <2>1, <2>3, <2>4 DEF Pending
  <2>6. spliced < shorts
    BY <2>5 DEF SpliceInv
  <2>7. spliced' <= shorts'
    BY <1>1, <1>4, <1>9, <2>6
  <2>. QED
    BY <1>1, <1>9, <1>10, <2>7 DEF SpliceInv, Pending
<1>. QED
  BY <1>2, <1>7, <1>8, <1>9

LEMMA ClockShift ==
  ASSUME LinkType, ShiftInv, Clock
  PROVE  ShiftInv'
<1>. DEFINE b   == Byte(txn, missed + Len(sent))
            got == Append(rx, b)
<1>1. /\ cs = "low" /\ cs' = "low" /\ Len(sent) < N /\ Len(sent) \in Nat
      /\ missed \in Nat /\ missed' = missed
      /\ Len(sent') = Len(sent) + 1 /\ UNCHANGED sinceShort
  BY ClockFacts
<1>2. /\ got \in Seq(Item) /\ Len(got) = Len(rx) + 1 /\ Len(rx) \in Nat
      /\ \A i \in 1 .. Len(rx) : got[i] = rx[i]
      /\ got[Len(rx) + 1] = b
      /\ \/ Len(rx) + 1 < N /\ rx' = got /\ UNCHANGED received
         \/ Len(rx) + 1 = N /\ rx' = <<>> /\ received' = got
  BY StoreFacts
<1>3. txn \in Int /\ b.at = missed + Len(sent)
  <2>1. txn \in Int /\ missed + Len(sent) \in Int
    BY <1>1 DEF LinkType
  <2>. QED
    BY <2>1, ByteItem
<1>. HIDE DEF b, got
<1>4. N \in Nat /\ N > 1 /\ rx \in Seq(Item)
  BY SizesAssumption DEF LinkType
<1>5. rx # <<>> => got[1] = rx[1] /\ Len(rx) > 0
  BY <1>2, <1>4
<1>6. rx = <<>> => Len(rx) = 0 /\ got[1] = b
  <2>1. rx = <<>> => Len(rx) = 0 /\ Len(rx) + 1 = 1
    BY <1>2
  <2>. QED
    BY <1>2, <2>1
<1>7. CASE Len(rx) + 1 < N /\ rx' = got /\ UNCHANGED received
  <2>1. sinceShort > 0 /\ Len(got) > Len(sent') => got[1].at # 0
    <3>. SUFFICES ASSUME sinceShort > 0, Len(rx) > Len(sent) PROVE got[1].at # 0
      BY <1>1, <1>2
    <3>. QED
      BY <1>1, <1>5, <1>6 DEF ShiftInv
  <2>2. missed = 0 /\ Len(got) < Len(sent') => got[1].at # 0
    <3>. SUFFICES ASSUME missed = 0, Len(rx) < Len(sent) PROVE got[1].at # 0
      BY <1>1, <1>2
    <3>. QED
      BY <1>1, <1>2, <1>3, <1>5, <1>6 DEF ShiftInv
  <2>3. missed = 0 /\ Len(got) < Len(sent') /\ sinceShort > 0 => received # <<>> /\ received[1].at # 0
    <3>. SUFFICES ASSUME missed = 0, Len(rx) < Len(sent), sinceShort > 0 PROVE received # <<>> /\ received[1].at # 0
      BY <1>1, <1>2
    <3>1. Len(rx) + N > Len(sent)
      BY <1>1, <1>2, <1>4
    <3>. QED
      BY <1>1, <3>1 DEF ShiftInv
  <2>. QED
    BY <1>1, <1>7, <2>1, <2>2, <2>3 DEF ShiftInv
<1>8. CASE Len(rx) + 1 = N /\ rx' = <<>> /\ received' = got
  <2>1. Len(rx') = 0
    BY <1>8
  <2>2. rx # <<>> /\ got # <<>>
    <3>1. Len(rx) > 0 /\ Len(got) > 0
      BY <1>2, <1>4, <1>8
    <3>. QED
      BY <3>1
  <2>3. ASSUME sinceShort > 0, Len(rx') + N > Len(sent')
        PROVE  got[1].at # 0
    <3>1. Len(rx) > Len(sent)
      BY <1>1, <1>2, <1>4, <1>8, <2>1, <2>3
    <3>. QED
      BY <1>1, <1>5, <2>2, <2>3, <3>1 DEF ShiftInv
  <2>. QED
    BY <1>1, <1>8, <2>1, <2>2, <2>3 DEF ShiftInv
<1>. QED
  BY <1>2, <1>7, <1>8

LEMMA RiseRx ==
  ASSUME LinkType, SpliceInv, ShiftInv, CsRise
  PROVE  SpliceInv' /\ ShiftInv'
<1>1. /\ cs = "low" /\ cs' = "risen" /\ Len(sent) \in Nat /\ Len(sent) <= N
      /\ \/ /\ Len(sent) < N /\ missed = 0
            /\ shorts' = shorts + 1 /\ shorts < MaxShort /\ sinceShort' = 0
         \/ Len(sent) < N /\ missed > 0 /\ shorts' = shorts /\ sinceShort' = 0
         \/ Len(sent) = N /\ missed = 0 /\ shorts' = shorts /\ sinceShort' = sinceShort + 1
      /\ missed' = 0
      /\ UNCHANGED <<txn, rx, received, spliced>>
  BY RiseFacts
<1>2. /\ N \in Nat /\ shorts \in Nat /\ sinceShort \in Nat /\ spliced \in Nat
      /\ rx \in Seq(Item) /\ Len(rx) < N /\ Len(rx) \in Nat /\ txn \in Int
  BY SizesAssumption, BoundsAssumption DEF LinkType
<1>3. CASE Len(sent) < N /\ shorts' = shorts + 1 /\ sinceShort' = 0
  <2>1. spliced' <= shorts' /\ spliced' < shorts'
    BY <1>1, <1>2, <1>3 DEF SpliceInv
  <2>2. SpliceInv'
    BY <1>1, <2>1 DEF SpliceInv
  <2>3. ShiftInv'
    BY <1>1, <1>3 DEF ShiftInv
  <2>. QED
    BY <2>2, <2>3
<1>5. CASE missed > 0 /\ shorts' = shorts /\ sinceShort' = 0
  <2>1. spliced' < shorts' /\ spliced' <= shorts'
    BY <1>1, <1>2, <1>5 DEF SpliceInv
  <2>2. SpliceInv'
    BY <1>1, <2>1 DEF SpliceInv
  <2>3. ShiftInv'
    BY <1>1, <1>5 DEF ShiftInv
  <2>. QED
    BY <2>2, <2>3
<1>4. CASE Len(sent) = N /\ missed = 0 /\ shorts' = shorts /\ sinceShort' = sinceShort + 1
  <2>1. Pending' => Pending
    <3>. SUFFICES ASSUME rx # <<>>, rx[1].at = 0, rx[1].of = txn PROVE FALSE
      BY <1>1 DEF Pending
    <3>1. rx[1] \in Item
      BY <1>2
    <3>2. rx[1] = Byte(txn, 0)
      BY <3>1 DEF Item, Byte
    <3>3. Len(rx) = Len(sent)
      BY <1>1, <3>2 DEF SpliceInv
    <3>. QED
      BY <1>2, <1>4, <3>3
  <2>2. SpliceInv'
    BY <1>1, <1>4, <2>1 DEF SpliceInv
  <2>3. Len(rx) < Len(sent)
    BY <1>2, <1>4
  <2>4. rx # <<>> => rx[1].at # 0
    BY <1>1, <1>4, <2>3 DEF ShiftInv
  <2>5. rx # <<>> /\ sinceShort > 0 => received # <<>> /\ received[1].at # 0
    <3>. SUFFICES ASSUME rx # <<>>, sinceShort > 0 PROVE received # <<>> /\ received[1].at # 0
      OBVIOUS
    <3>1. Len(rx) > 0
      BY <1>2
    <3>2. Len(rx) + N > Len(sent)
      BY <1>2, <1>4, <3>1
    <3>. QED
      BY <1>1, <1>4, <2>3, <3>2 DEF ShiftInv
  <2>6. sinceShort' > 1 => sinceShort > 0
    BY <1>2, <1>4
  <2>7. ShiftInv'
    BY <1>1, <2>4, <2>5, <2>6 DEF ShiftInv
  <2>. QED
    BY <2>2, <2>7
<1>. QED
  BY <1>1, <1>3, <1>4, <1>5

LEMMA RearmRx ==
  ASSUME SpliceInv, ShiftInv, handleNssInterrupt
  PROVE  SpliceInv' /\ ShiftInv'
<1>1. cs = "risen" /\ cs' = "high" /\ UNCHANGED <<missed, txn, shorts, sinceShort, sent, rx, received, spliced>>
  BY DEF handleNssInterrupt, rcv
<1>. QED
  BY <1>1 DEF SpliceInv, ShiftInv, Pending

-----------------------------------------------------------------------------
(* The three ways start() leaves its loop.                                  *)
LEMMA StartFacts ==
  ASSUME LinkType, FifoInv, SpliceInv, cs = "wait"
  PROVE  /\ txn = 0 /\ shorts = 0 /\ sinceShort = 0 /\ missed = 0 /\ frame = 0
         /\ spliced = 0 /\ rx = <<>> /\ Len(fifo) = FifoDepth /\ fifo # <<>> /\ dmaNext = FifoDepth
         /\ N \in Nat /\ N > 1 /\ FifoDepth \in Nat \ {0} /\ Len(sent) \in Nat
<1>1. /\ txn = 0 /\ shorts = 0 /\ sinceShort = 0 /\ frame = 0 /\ rx = <<>>
      /\ missed \in Nat /\ missed = 0 /\ Len(fifo) = FifoDepth /\ FifoDepth - dmaNext \in 0 .. MayBeStale
      /\ Len(sent) \in Nat
  BY SizesAssumption DEF LinkType, FifoInv, SpliceInv
<1>2. N \in Nat /\ N > 1 /\ FifoDepth \in Nat \ {0} /\ dmaNext \in Nat
  BY SizesAssumption DEF LinkType
<1>3. spliced = 0
  BY <1>1 DEF SpliceInv, LinkType
<1>4. MayBeStale = 0
  BY <1>1 DEF MayBeStale
<1>5. dmaNext = FifoDepth
  BY <1>1, <1>2, <1>4
<1>6. fifo # <<>>
  BY <1>1, <1>2
<1>. QED
  BY <1>1, <1>2, <1>3, <1>5, <1>6

LEMMA StartHigh ==
  ASSUME LinkType, FifoInv, ResponseInv, SpliceInv, ShiftInv, StartAtHigh
  PROVE  LinkType' /\ FifoInv' /\ ResponseInv' /\ SpliceInv' /\ ShiftInv'
<1>1. /\ cs = "wait" /\ cs' = "high"
      /\ UNCHANGED <<missed, txn, shorts, sinceShort, frame, dmaNext, fifo, osr, sent, rx, received, spliced>>
  BY DEF StartAtHigh, tx, rcv
<1>2. rx = <<>> /\ missed = 0 /\ spliced = 0 /\ shorts = 0
  BY <1>1, StartFacts
<1>3. LinkType'
  BY <1>1 DEF LinkType
<1>4. MayBeStale' = MayBeStale
  BY <1>1, StaleSame
<1>5. FifoInv' /\ ResponseInv'
  BY <1>1, <1>4 DEF FifoInv, ResponseInv
<1>6. SpliceInv' /\ ShiftInv'
  BY <1>1, <1>2 DEF SpliceInv, ShiftInv, Pending
<1>. QED
  BY <1>3, <1>5, <1>6

(* The interrupt will find the FIFO full of the preloaded response.         *)
LEMMA StartRise ==
  ASSUME LinkType, FifoInv, SpliceInv, ShiftInv, StartAtRise
  PROVE  LinkType' /\ FifoInv' /\ ResponseInv' /\ SpliceInv' /\ ShiftInv'
<1>1. /\ cs = "wait" /\ cs' = "risen" /\ txn < MaxTxn /\ txn' = txn + 1
      /\ shorts < MaxShort /\ shorts' = shorts + 1 /\ sinceShort' = 0
      /\ UNCHANGED <<missed, frame, dmaNext, fifo, osr, sent, rx, received, spliced>>
  BY DEF StartAtRise, tx, rcv
<1>2. /\ txn = 0 /\ shorts = 0 /\ missed = 0 /\ frame = 0 /\ spliced = 0 /\ rx = <<>>
      /\ Len(fifo) = FifoDepth /\ FifoDepth \in Nat \ {0}
  BY <1>1, StartFacts
<1>3. LinkType'
  <2>1. /\ txn' = 1 /\ shorts' = 1 /\ 1 \in 0 .. MaxTxn /\ 1 \in 0 .. MaxShort
        /\ frame' = txn' - 1
    BY <1>1, <1>2, BoundsAssumption
  <2>. QED
    BY <1>1, <1>2, <2>1 DEF LinkType
<1>4. MayBeStale' = FifoDepth
  BY <1>1, <1>2 DEF MayBeStale
<1>5. FifoInv' /\ ResponseInv'
  BY <1>1, <1>2, <1>4 DEF FifoInv, ResponseInv
<1>6. SpliceInv' /\ ShiftInv'
  BY <1>1, <1>2 DEF SpliceInv, ShiftInv, Pending
<1>. QED
  BY <1>3, <1>5, <1>6

(* The state machine is in the middle of a transaction, and the FIFO at its *)
(* first byte.                                                              *)
LEMMA StartTimeout ==
  ASSUME LinkType, FifoInv, SpliceInv, ShiftInv, NEW j \in 1 .. N - 1, StartAtTimeout(j)
  PROVE  LinkType' /\ FifoInv' /\ ResponseInv' /\ SpliceInv' /\ ShiftInv'
<1>1. /\ cs = "wait" /\ cs' = "low" /\ missed' = j /\ txn < MaxTxn /\ txn' = txn + 1
      /\ sent' = <<>> /\ shorts < MaxShort /\ shorts' = shorts + 1 /\ sinceShort' = 0
      /\ Pull(Zero) /\ UNCHANGED <<frame, rx, received, spliced>>
  BY DEF StartAtTimeout, rcv
<1>2. /\ txn = 0 /\ shorts = 0 /\ frame = 0 /\ spliced = 0 /\ rx = <<>>
      /\ Len(fifo) = FifoDepth /\ fifo # <<>> /\ dmaNext = FifoDepth
      /\ FifoDepth \in Nat \ {0} /\ N \in Nat /\ N > 1
  BY <1>1, StartFacts
<1>3. Zero \in Item
  BY ByteItem DEF Zero
<1>4. /\ osr' \in Item /\ dmaNext' \in 0 .. N /\ fifo' \in Seq(Item) /\ Len(fifo') <= FifoDepth
      /\ Len(fifo') = FifoDepth \/ dmaNext' = N
      /\ Len(fifo') - dmaNext' = Len(fifo) - 1 - dmaNext
  BY <1>1, <1>2, <1>3, PullItems
<1>5. LinkType'
  <2>1. /\ txn' = 1 /\ shorts' = 1 /\ 1 \in 0 .. MaxTxn /\ 1 \in 0 .. MaxShort
        /\ frame' = txn' - 1 /\ Len(sent') = 0 /\ sent' \in Seq(Item)
        /\ missed' \in 0 .. N - 1 /\ missed' + Len(sent') <= N /\ missed' > 0
    BY <1>1, <1>2, BoundsAssumption
  <2>. QED
    BY <1>1, <1>2, <1>4, <2>1 DEF LinkType
<1>6. MayBeStale' = FifoDepth
  BY <1>1, <1>2 DEF MayBeStale
<1>7. Len(sent') = 0 /\ Len(fifo') \in Nat /\ dmaNext' \in Nat
  BY <1>1, <1>2, <1>4
<1>8. Len(sent') + 1 + Len(fifo') - dmaNext' = 0
  BY <1>2, <1>4, <1>7
<1>9. FifoInv'
  BY <1>1, <1>2, <1>4, <1>6, <1>7, <1>8 DEF FifoInv
<1>10. ResponseInv'
  BY <1>2, <1>6 DEF ResponseInv
<1>11. SpliceInv' /\ ShiftInv'
  BY <1>1, <1>2, <1>7 DEF SpliceInv, ShiftInv, Pending
<1>. QED
  BY <1>5, <1>9, <1>10, <1>11

-----------------------------------------------------------------------------
LinkInv == LinkType /\ FifoInv /\ ResponseInv /\ SpliceInv /\ ShiftInv

LEMMA LinkInitially == Init => LinkInv
<1>. SUFFICES ASSUME Init PROVE LinkInv
  OBVIOUS
<1>1. /\ cs = "wait" /\ missed = 0 /\ txn = 0 /\ shorts = 0 /\ sinceShort = 0 /\ frame = 0
      /\ fifo = Filled(<<>>, 0, 0) /\ dmaNext = FifoDepth /\ osr = Zero /\ sent = <<>>
      /\ rx = <<>> /\ received = <<>> /\ spliced = 0
  BY DEF Init
<1>2. N \in Nat \ {0} /\ FifoDepth \in Nat \ {0} /\ FifoDepth + 1 < N /\ MaxTxn \in Nat /\ MaxShort \in Nat
  BY SizesAssumption, BoundsAssumption
<1>3. Room(<<>>, 0) = FifoDepth
  BY <1>2 DEF Room, Lesser
<1>4. /\ <<>> \in Seq(Item) /\ Len(<<>>) = 0 /\ Len(<<>>) <= FifoDepth /\ 0 \in Int /\ 0 \in 0 .. N
  BY <1>2
<1>5. /\ fifo \in Seq(Item) /\ Len(fifo) = FifoDepth
      /\ \A i \in 1 .. FifoDepth : fifo[i] = Byte(0, i - 1)
  <2>. DEFINE empty == <<>>
  <2>1. /\ empty \in Seq(Item) /\ Len(empty) = 0 /\ Len(empty) <= FifoDepth
        /\ Room(empty, 0) = FifoDepth /\ fifo = Filled(empty, 0, 0)
    BY <1>1, <1>3, <1>4
  <2>. HIDE DEF empty
  <2>2. /\ fifo \in Seq(Item) /\ Len(fifo) = Len(empty) + FifoDepth
        /\ \A i \in Len(empty) + 1 .. Len(empty) + FifoDepth :
             fifo[i] = Byte(0, 0 + i - Len(empty) - 1)
    BY <1>4, <2>1, FilledItems
  <2>3. /\ Len(empty) + FifoDepth = FifoDepth
        /\ \A i \in 1 .. FifoDepth : 0 + i - Len(empty) - 1 = i - 1
    BY <1>2, <2>1
  <2>. QED
    BY <2>1, <2>2, <2>3
<1>6. LinkType
  <2>1. /\ 0 \in 0 .. N - 1 /\ 0 + Len(sent) <= N /\ 0 \in 0 .. MaxTxn /\ 0 \in 0 .. MaxShort
        /\ dmaNext \in 0 .. N /\ Len(fifo) <= FifoDepth /\ Len(sent) <= N /\ Len(rx) < N
        /\ Len(received) = 0 /\ sent \in Seq(Item) /\ rx \in Seq(Item) /\ received \in Seq(Item)
    BY <1>1, <1>2, <1>5
  <2>2. osr \in Item
    BY <1>1, ByteItem DEF Zero
  <2>. QED
    BY <1>1, <1>5, <2>1, <2>2 DEF LinkType
<1>7. FifoInv
  BY <1>1, <1>2, <1>5 DEF FifoInv, MayBeStale
<1>8. ResponseInv
  BY <1>1, <1>5 DEF ResponseInv
<1>9. SpliceInv /\ ShiftInv
  BY <1>1 DEF SpliceInv, ShiftInv, Pending
<1>. QED
  BY <1>6, <1>7, <1>8, <1>9 DEF LinkInv

LEMMA LinkStep == LinkInv /\ [Next]_vars => LinkInv'
<1>. SUFFICES ASSUME LinkInv, [Next]_vars PROVE LinkInv'
  OBVIOUS
<1>. USE DEF LinkInv
<1>1. CASE CsFall
  BY <1>1, FallType, FallFifo, FallRx
<1>2. CASE Clock
  BY <1>2, ClockType, ClockFifo, ClockSplice, ClockShift
<1>3. CASE CsRise
  BY <1>3, RiseFifo, RiseRx
<1>4. CASE handleNssInterrupt
  BY <1>4, RearmFifo, RearmRx
<1>6. CASE start
  BY <1>6, StartHigh, StartRise, StartTimeout DEF start
<1>5. CASE Idle \/ UNCHANGED vars
  <2>1. UNCHANGED vars
    BY <1>5 DEF Idle
  <2>2. UNCHANGED <<cs, missed, txn, shorts, sinceShort, frame, dmaNext, fifo, osr, sent, rx, received, spliced>>
    BY <2>1 DEF vars, bus, tx, rcv
  <2>3. LinkType'
    BY <2>2 DEF LinkType
  <2>4. MayBeStale' = MayBeStale /\ Pending' = Pending
    BY <2>2 DEF MayBeStale, Pending
  <2>5. FifoInv' /\ ResponseInv'
    BY <2>2, <2>4 DEF FifoInv, ResponseInv
  <2>6. SpliceInv' /\ ShiftInv'
    BY <2>2, <2>4 DEF SpliceInv, ShiftInv
  <2>. QED
    BY <2>3, <2>5, <2>6
<1>. QED
  BY <1>1, <1>2, <1>3, <1>4, <1>5, <1>6 DEF Next

(* Types and bounds: the FIFO and the buffers are never overrun, and there  *)
(* are at most as many mixed packets as transactions.                       *)
THEOREM TypeCorrect == Spec => []TypeOK
<1>1. LinkInv => TypeOK
  <2>. SUFFICES ASSUME LinkInv PROVE TypeOK
    OBVIOUS
  <2>1. txn \in Nat /\ txn <= MaxTxn /\ shorts <= txn /\ spliced <= shorts /\ frame \in Nat /\ frame <= txn
    BY BoundsAssumption DEF LinkInv, LinkType, SpliceInv
  <2>2. sinceShort \in Nat /\ sinceShort <= txn /\ spliced \in Nat /\ shorts \in Nat
    BY BoundsAssumption DEF LinkInv, LinkType
  <2>3. sinceShort \in 0 .. MaxTxn /\ spliced \in 0 .. MaxTxn /\ frame \in 0 .. txn
    BY <2>1, <2>2, BoundsAssumption
  <2>. QED
    BY <2>3 DEF LinkInv, LinkType, TypeOK
<1>. QED
  BY <1>1, LinkInitially, LinkStep, PTL DEF Spec

(* The host reads each response whole and from its first byte on, from      *)
(* FifoDepth full transactions after a short one, for a FIFO of any depth   *)
(* and packets of any size greater than the FIFO.                           *)
THEOREM ResponseTheorem == Spec => []ResponseAligned
<1>1. LinkInv => ResponseAligned
  BY DEF LinkInv, ResponseInv, MayBeStale, ResponseAligned
<1>. QED
  BY <1>1, LinkInitially, LinkStep, PTL DEF Spec

(* However many transactions are cut short, and wherever, each leads to at  *)
(* most one mixed packet that checkHeader takes for a good one.             *)
THEOREM SpliceTheorem == Spec => []SplicedOncePerShort
<1>1. LinkInv => SplicedOncePerShort
  BY DEF LinkInv, SpliceInv, SplicedOncePerShort
<1>. QED
  BY <1>1, LinkInitially, LinkStep, PTL DEF Spec

(* A buffer that checkHeader accepts begins with the first byte of a packet,*)
(* and while the stream is shifted none does.                               *)
THEOREM ShiftTheorem == Spec => []ShiftedStreamIsDead
<1>1. LinkInv => ShiftedStreamIsDead
  <2>. SUFFICES ASSUME LinkInv, cs # "low", rx # <<>>, sinceShort > 1, HeaderOk(received) PROVE FALSE
    BY DEF ShiftedStreamIsDead
  <2>1. received # <<>> /\ received[1].at # 0
    BY DEF LinkInv, ShiftInv
  <2>2. received[1] \in Item
    BY <2>1 DEF LinkInv, LinkType
  <2>3. 1 \in 1 .. H /\ 1 - 1 = 0
    BY SizesAssumption
  <2>4. received[1] = Byte(received[1].of, 1 - 1)
    BY <2>3 DEF HeaderOk
  <2>. QED
    BY <2>1, <2>2, <2>3, <2>4, ByteItem DEF Item
<1>. QED
  BY <1>1, LinkInitially, LinkStep, PTL DEF Spec

-----------------------------------------------------------------------------
(* As long as no transaction was short, each fills one buffer: SpiSlaveRx   *)
(* takes this for granted.                                                  *)
Holds(b, t) == Len(b) = N /\ \A i \in 1 .. N : b[i] = Byte(t, i - 1)
BufferPerTransaction == shorts = 0 /\ cs # "low" => rx = <<>> /\ (txn > 0 => Holds(received, txn))

WholeInv ==
  /\ BufferPerTransaction
  /\ shorts = 0 /\ cs = "low" /\ Len(sent) < N =>
       Len(rx) = Len(sent) /\ \A i \in 1 .. Len(rx) : rx[i] = Byte(txn, i - 1)
  /\ shorts = 0 /\ cs = "low" /\ Len(sent) = N => rx = <<>> /\ Holds(received, txn)

LEMMA WholeClock ==
  ASSUME LinkType, WholeInv, Clock
  PROVE  WholeInv'
<1>. DEFINE b   == Byte(txn, missed + Len(sent))
            got == Append(rx, b)
<1>1. /\ cs = "low" /\ cs' = "low" /\ Len(sent) < N /\ Len(sent) \in Nat
      /\ Len(sent') = Len(sent) + 1 /\ UNCHANGED <<txn, shorts>>
  BY ClockFacts
<1>2. /\ Len(got) = Len(rx) + 1 /\ Len(rx) \in Nat
      /\ \A i \in 1 .. Len(rx) : got[i] = rx[i]
      /\ got[Len(rx) + 1] = b
      /\ \/ Len(rx) + 1 < N /\ rx' = got /\ UNCHANGED received
         \/ Len(rx) + 1 = N /\ rx' = <<>> /\ received' = got
  BY StoreFacts
<1>. HIDE DEF got
<1>. SUFFICES ASSUME shorts = 0 PROVE WholeInv'
  BY <1>1 DEF WholeInv, BufferPerTransaction
<1>7. missed = 0 /\ missed + Len(sent) = Len(sent)
  <2>1. missed \in Nat /\ (missed > 0 => shorts > 0)
    BY SizesAssumption DEF LinkType
  <2>. QED
    BY <1>1, <2>1
<1>3. Len(rx) = Len(sent) /\ \A i \in 1 .. Len(rx) : rx[i] = Byte(txn, i - 1)
  BY <1>1 DEF WholeInv
<1>4. ASSUME NEW i \in 1 .. Len(got) PROVE got[i] = Byte(txn, i - 1)
  <2>1. CASE i <= Len(rx)
    BY <1>2, <1>3, <2>1
  <2>2. CASE i = Len(rx) + 1
    <3>1. i - 1 = Len(sent)
      BY <1>2, <1>3, <2>2
    <3>. QED
      BY <1>2, <1>7, <2>2, <3>1
  <2>. QED
    BY <1>2, <2>1, <2>2
<1>5. CASE Len(rx) + 1 < N /\ rx' = got /\ UNCHANGED received
  <2>1. Len(sent') < N /\ Len(rx') = Len(sent') /\ Len(sent') # N
    BY <1>1, <1>2, <1>3, <1>5, SizesAssumption
  <2>2. \A i \in 1 .. Len(rx') : rx'[i] = Byte(txn', i - 1)
    BY <1>1, <1>4, <1>5
  <2>. QED
    BY <1>1, <2>1, <2>2 DEF WholeInv, BufferPerTransaction
<1>6. CASE Len(rx) + 1 = N /\ rx' = <<>> /\ received' = got
  <2>1. Len(sent') = N /\ ~(Len(sent') < N) /\ Len(received') = N
    BY <1>1, <1>2, <1>3, <1>6, SizesAssumption
  <2>2. Holds(received, txn)'
    BY <1>1, <1>2, <1>4, <1>6, <2>1 DEF Holds
  <2>. QED
    BY <1>1, <1>6, <2>1, <2>2 DEF WholeInv, BufferPerTransaction
<1>. QED
  BY <1>2, <1>5, <1>6

LEMMA WholeStep == LinkInv /\ WholeInv /\ [Next]_vars => WholeInv'
<1>. SUFFICES ASSUME LinkInv, WholeInv, [Next]_vars PROVE WholeInv'
  OBVIOUS
<1>1. CASE CsFall
  <2>1. /\ cs = "high" /\ cs' = "low" /\ Len(sent') = 0 /\ UNCHANGED <<shorts, rx, received>>
    BY <1>1, FallType DEF LinkInv
  <2>2. N > 0 /\ N \in Nat
    BY SizesAssumption
  <2>3. shorts = 0 => rx = <<>>
    BY <2>1 DEF WholeInv, BufferPerTransaction
  <2>4. shorts' = 0 => rx' = <<>> /\ Len(rx') = 0
    BY <2>1, <2>3
  <2>. QED
    BY <2>1, <2>2, <2>4 DEF WholeInv, BufferPerTransaction
<1>2. CASE Clock
  BY <1>2, WholeClock DEF LinkInv
<1>3. CASE CsRise
  <2>1. /\ cs = "low" /\ cs' = "risen"
        /\ \/ Len(sent) < N /\ shorts' = shorts + 1
           \/ Len(sent) < N /\ missed > 0 /\ shorts' = shorts
           \/ Len(sent) = N /\ shorts' = shorts
        /\ UNCHANGED <<txn, sent, rx, received>>
    BY <1>3, RiseFacts DEF LinkInv
  <2>2. shorts \in Nat /\ (missed > 0 => shorts > 0)
    BY BoundsAssumption DEF LinkInv, LinkType
  <2>3. shorts' = 0 => shorts = 0 /\ Len(sent) = N
    BY <2>1, <2>2
  <2>. QED
    BY <2>1, <2>3 DEF WholeInv, BufferPerTransaction, Holds
<1>4. CASE handleNssInterrupt
  <2>1. cs = "risen" /\ cs' = "high" /\ UNCHANGED <<txn, shorts, rx, received>>
    BY <1>4 DEF handleNssInterrupt, rcv
  <2>. QED
    BY <2>1 DEF WholeInv, BufferPerTransaction, Holds
<1>6. CASE start
  <2>1. /\ cs = "wait" /\ UNCHANGED <<rx, received>>
        /\ (cs' = "high" /\ UNCHANGED <<txn, shorts>>) \/ shorts' = shorts + 1
    BY <1>6 DEF start, StartAtHigh, StartAtRise, StartAtTimeout, rcv
  <2>2. shorts = 0 /\ rx = <<>> /\ txn = 0
    BY <2>1, StartFacts DEF LinkInv
  <2>. QED
    BY <2>1, <2>2 DEF WholeInv, BufferPerTransaction
<1>5. CASE Idle \/ UNCHANGED vars
  <2>1. UNCHANGED <<cs, txn, shorts, sent, rx, received>>
    BY <1>5 DEF Idle, vars, bus, tx, rcv
  <2>. QED
    BY <2>1 DEF WholeInv, BufferPerTransaction, Holds
<1>. QED
  BY <1>1, <1>2, <1>3, <1>4, <1>5, <1>6 DEF Next

(* Where no transaction is short, the buffer the RX channels completed last *)
(* holds the last transaction, all of it and nothing else, at each CS rise. *)
THEOREM BufferTheorem == Spec => []BufferPerTransaction
<1>1. Init => WholeInv
  BY DEF Init, WholeInv, BufferPerTransaction
<1>2. WholeInv => BufferPerTransaction
  BY DEF WholeInv
<1>. QED
  BY <1>1, <1>2, LinkInitially, LinkStep, WholeStep, PTL DEF Spec
=============================================================================
