---------------------------- MODULE EthLink_proofs ----------------------------
(***************************************************************************)
(* Proofs about EthLink, for every watchdog limit and any number of late   *)
(* replies.  What the driver does with status and errCount does not depend *)
(* on the network: the inductive invariant speaks of the driver alone.     *)
(***************************************************************************)
EXTENDS EthLink, SequenceTheorems, TLAPS

(* Between the two errors of a read and a write, pru_read may have switched *)
(* status on again, but then pru_write is still to come in the same cycle.  *)
TripInv == errCount > MaxErrors /\ status => pc \in {"write", "awaitWrite"}

(* A read is under way with status off only on the rising edge of reset.    *)
EdgeInv == pc = "awaitRead" /\ ~status => ~resetOld

(* The network's part of TypeOK, with the room pru_transfer finds to send.  *)
NetType ==
  /\ toFw \in Seq(Message(Requests)) /\ toHost \in Seq(Message(Headers \ {"none"}))
  /\ Coming <= MaxLate + 1
  /\ pc \in {"read", "write"} => Coming <= MaxLate

IInv == TypeOK /\ NetType /\ TripInv /\ EdgeInv

-----------------------------------------------------------------------------
(* Ageing the datagrams under way changes neither their number nor type. *)
LEMMA AgedType ==
  ASSUME NEW S, NEW q \in Seq(Message(S))
  PROVE  Aged(q) \in Seq(Message(S)) /\ Len(Aged(q)) = Len(q)
<1>1. DOMAIN q = 1 .. Len(q) /\ Len(q) \in Nat
  BY LenProperties
<1>2. ASSUME NEW i \in 1 .. Len(q)
      PROVE  [q[i] EXCEPT !.current = FALSE] \in Message(S)
  <2>1. q[i] \in Message(S)
    BY ElementOfSeq
  <2>. QED
    BY <2>1 DEF Message
<1>3. Aged(q) = [i \in 1 .. Len(q) |-> [q[i] EXCEPT !.current = FALSE]]
  BY <1>1 DEF Aged
<1>. QED
  BY <1>1, <1>2, <1>3, IsASeq

(* Losing one datagram leaves the others. *)
LEMMA RemoveAtType ==
  ASSUME NEW S, NEW q \in Seq(S), NEW i \in 1 .. Len(q)
  PROVE  RemoveAt(q, i) \in Seq(S) /\ Len(RemoveAt(q, i)) = Len(q) - 1
<1>1. Len(q) \in Nat
  BY LenProperties
<1>2. /\ SubSeq(q, 1, i - 1) \in Seq(S) /\ Len(SubSeq(q, 1, i - 1)) = i - 1
      /\ SubSeq(q, i + 1, Len(q)) \in Seq(S) /\ Len(SubSeq(q, i + 1, Len(q))) = Len(q) - i
  BY <1>1, SubSeqProperties
<1>. DEFINE front == SubSeq(q, 1, i - 1)
            back == SubSeq(q, i + 1, Len(q))
<1>3. RemoveAt(q, i) = front \o back
  BY DEF RemoveAt
<1>4. /\ front \in Seq(S) /\ Len(front) = i - 1
      /\ back \in Seq(S) /\ Len(back) = Len(q) - i
  BY <1>2
<1>. HIDE DEF front, back
<1>5. front \o back \in Seq(S) /\ Len(front \o back) = Len(front) + Len(back)
  BY <1>4, ConcatProperties
<1>. QED
  BY <1>1, <1>3, <1>4, <1>5

-----------------------------------------------------------------------------
LEMMA SendType ==
  ASSUME NetType, pc \in {"read", "write"}, NEW req \in Requests, Send(req)
  PROVE  /\ toFw' \in Seq(Message(Requests)) /\ toHost' \in Seq(Message(Headers \ {"none"}))
         /\ Coming' <= MaxLate + 1
<1>. USE MaxLateAssumption DEF NetType, Send, Coming
<1>1. Len(toFw) \in Nat /\ Len(toHost) \in Nat
  BY LenProperties
<1>2. toHost' \in Seq(Message(Headers \ {"none"})) /\ Len(toHost') = Len(toHost)
  BY AgedType
<1>3. CASE net = "cut"
  <2>1. toFw' = <<>>
    BY <1>3
  <2>2. toFw' \in Seq(Message(Requests)) /\ Len(toFw') = 0
    BY <2>1, EmptySeq
  <2>. QED
    BY <1>1, <1>2, <2>2
<1>4. CASE net # "cut"
  <2>1. Aged(toFw) \in Seq(Message(Requests)) /\ Len(Aged(toFw)) = Len(toFw)
    BY AgedType
  <2>2. [header |-> req, current |-> TRUE] \in Message(Requests)
    BY DEF Message
  <2>3. toFw' = Append(Aged(toFw), [header |-> req, current |-> TRUE])
    BY <1>4
  <2>4. toFw' \in Seq(Message(Requests)) /\ Len(toFw') = Len(toFw) + 1
    BY <2>1, <2>2, <2>3, AppendProperties
  <2>. QED
    BY <1>1, <1>2, <2>4
<1>. QED
  BY <1>3, <1>4

LEMMA ReceivedType ==
  ASSUME NetType, Received
  PROVE  /\ toFw' = toFw /\ toHost' \in Seq(Message(Headers \ {"none"}))
         /\ Coming' <= MaxLate
         /\ Head(toHost) \in Message(Headers \ {"none"})
<1>1. Len(toFw) \in Nat /\ Len(toHost) \in Nat
  BY LenProperties DEF NetType
<1>2. /\ Head(toHost) \in Message(Headers \ {"none"})
      /\ Tail(toHost) \in Seq(Message(Headers \ {"none"})) /\ Len(Tail(toHost)) = Len(toHost) - 1
  BY HeadTailProperties DEF NetType, Received
<1>. QED
  BY <1>1, <1>2, MaxLateAssumption DEF NetType, Received, Coming

LEMMA NetStep == IInv /\ [Next]_vars => NetType'
<1>. SUFFICES ASSUME IInv, [Next]_vars PROVE NetType'
  OBVIOUS
<1>. USE MaxLateAssumption DEF IInv
<1>1. Len(toFw) \in Nat /\ Len(toHost) \in Nat
  BY LenProperties DEF NetType
<1>2. CASE UNCHANGED <<pc, network>>
  BY <1>2 DEF NetType, Coming, network
<1>3. CASE Lose
  <2>1. CASE \E i \in DOMAIN toFw : toFw' = RemoveAt(toFw, i) /\ UNCHANGED toHost
    <3>1. PICK i \in 1 .. Len(toFw) : toFw' = RemoveAt(toFw, i) /\ toHost' = toHost
      BY <2>1, LenProperties DEF NetType
    <3>2. toFw' \in Seq(Message(Requests)) /\ Len(toFw') = Len(toFw) - 1
      BY <3>1, RemoveAtType DEF NetType
    <3>. QED
      BY <1>1, <1>3, <3>1, <3>2 DEF Lose, NetType, Coming, driver
  <2>2. CASE \E i \in DOMAIN toHost : toHost' = RemoveAt(toHost, i) /\ UNCHANGED toFw
    <3>1. PICK i \in 1 .. Len(toHost) : toHost' = RemoveAt(toHost, i) /\ toFw' = toFw
      BY <2>2, LenProperties DEF NetType
    <3>2. toHost' \in Seq(Message(Headers \ {"none"})) /\ Len(toHost') = Len(toHost) - 1
      BY <3>1, RemoveAtType DEF NetType
    <3>. QED
      BY <1>1, <1>3, <3>1, <3>2 DEF Lose, NetType, Coming, driver
  <2>. QED
    BY <1>3, <2>1, <2>2 DEF Lose
<1>4. CASE Cut
  <2>1. /\ toFw' \in Seq(Message(Requests)) /\ toHost' \in Seq(Message(Headers \ {"none"}))
        /\ Len(toFw') = 0 /\ Len(toHost') = 0
    BY <1>4, EmptySeq DEF Cut
  <2>. QED
    BY <2>1 DEF NetType, Coming
<1>5. CASE Calm
  BY <1>5 DEF Calm, NetType, Coming, driver
<1>6. ASSUME pc \in {"read", "write"}, NEW req \in Requests, Send(req),
             pc' \notin {"read", "write"}
      PROVE  NetType'
  BY <1>6, SendType DEF NetType
<1>7. CASE pru_read
  <2>1. CASE enable /\ MayTransfer
    BY <1>6, <1>7, <2>1 DEF pru_read, Requests
  <2>2. CASE ~(enable /\ MayTransfer)
    BY <1>7, <2>2 DEF pru_read, NetType, Coming, network
  <2>. QED
    BY <2>1, <2>2
<1>8. CASE pru_write
  <2>1. CASE status
    BY <1>6, <1>8, <2>1 DEF pru_write, Requests
  <2>2. CASE ~status
    BY <1>8, <2>2 DEF pru_write, NetType, Coming, network
  <2>. QED
    BY <2>1, <2>2
<1>9. CASE ReadDone \/ WriteDone
  <2>1. CASE Received
    BY <1>1, <2>1, ReceivedType DEF NetType, Coming
  <2>2. CASE TimedOut
    BY <1>1, <2>2 DEF TimedOut, NetType, Coming, network
  <2>. QED
    BY <1>9, <2>1, <2>2 DEF ReadDone, WriteDone
<1>10. CASE EthernetTasks
  <2>1. /\ Head(toFw) \in Message(Requests)
        /\ Tail(toFw) \in Seq(Message(Requests)) /\ Len(Tail(toFw)) = Len(toFw) - 1
    BY <1>10, HeadTailProperties DEF EthernetTasks, NetType
  <2>. DEFINE reply == [Head(toFw) EXCEPT !.header = Reply(@)]
  <2>2. reply \in Message(Headers \ {"none"})
    BY <2>1 DEF Message, Reply, Headers
  <2>3. toHost' \in Seq(Message(Headers \ {"none"})) /\ Len(toHost') = Len(toHost) + 1
    BY <1>10, <2>2, AppendProperties DEF EthernetTasks, NetType
  <2>. QED
    BY <1>1, <1>10, <2>1, <2>3 DEF EthernetTasks, NetType, Coming, driver
<1>. QED
  BY <1>2, <1>3, <1>4, <1>5, <1>7, <1>8, <1>9, <1>10
     DEF Next, Environment, ServoThread, SetEnable, SetReset, tasks, CommsUpdate,
         CoreRun, vars, driver

-----------------------------------------------------------------------------
(* The rest of TypeOK. *)
DriverType ==
  /\ enable \in BOOLEAN /\ reset \in BOOLEAN /\ resetOld \in BOOLEAN
  /\ pc \in {"read", "awaitRead", "write", "awaitWrite"}
  /\ status \in BOOLEAN /\ errCount \in 0 .. MaxErrors + 1 /\ header \in Headers
  /\ payload \in BOOLEAN /\ published \in BOOLEAN
  /\ net \in {"lossy", "calm", "cut"}

FirmwareType ==
  /\ goodHeader \in BOOLEAN /\ newDataFlagged \in BOOLEAN /\ data \in BOOLEAN
  /\ noDataCount \in 0 .. Watchdog + 1 /\ fwStatus \in BOOLEAN
  /\ core \in {"idle", "running", "reset"}

LEMMA TypeParts == TypeOK <=> /\ DriverType /\ FirmwareType
                              /\ toFw \in Seq(Message(Requests))
                              /\ toHost \in Seq(Message(Headers \ {"none"}))
                              /\ Coming <= MaxLate + 1
BY DEF TypeOK, DriverType, FirmwareType

LEMMA FirmwareStep == IInv /\ [Next]_vars => FirmwareType'
<1>. SUFFICES ASSUME FirmwareType, [Next]_vars PROVE FirmwareType'
  BY TypeParts DEF IInv
<1>. USE WatchdogAssumption DEF FirmwareType
<1>1. CASE UNCHANGED firmware
  BY <1>1 DEF firmware
<1>2. CASE EthernetTasks
  BY <1>2 DEF EthernetTasks
<1>3. CASE tasks
  BY <1>3 DEF tasks, ClearFlag
<1>4. CASE CommsUpdate
  <2>1. noDataCount' \in 0 .. Watchdog + 1
    BY <1>4 DEF CommsUpdate, Lesser
  <2>2. data' \in BOOLEAN /\ fwStatus' \in BOOLEAN
    BY <1>4, Zenon DEF CommsUpdate
  <2>. QED
    BY <1>4, <2>1, <2>2 DEF CommsUpdate
<1>5. CASE CoreRun
  BY <1>5 DEF CoreRun
<1>. QED
  BY <1>1, <1>2, <1>3, <1>4, <1>5
     DEF Next, Environment, ServoThread, SetEnable, SetReset, Lose, Calm, Cut,
         pru_read, ReadDone, pru_write, WriteDone, vars

LEMMA DriverStep == IInv /\ [Next]_vars => DriverType' /\ TripInv' /\ EdgeInv'
<1>. SUFFICES ASSUME IInv, [Next]_vars PROVE DriverType' /\ TripInv' /\ EdgeInv'
  OBVIOUS
<1>1. DriverType /\ TripInv /\ EdgeInv
  BY TypeParts DEF IInv
<1>. USE <1>1 DEF DriverType, TripInv, EdgeInv, MaxErrors
<1>2. CASE UNCHANGED <<pins, driver, net>>
  BY <1>2 DEF pins, driver
<1>3. CASE SetEnable \/ SetReset
  <2>1. enable' \in BOOLEAN /\ reset' \in BOOLEAN
    BY <1>3, Zenon DEF SetEnable, SetReset
  <2>. QED
    BY <1>3, <2>1 DEF SetEnable, SetReset, driver, network
<1>4. CASE Calm \/ Cut
  BY <1>4 DEF Calm, Cut, driver, pins
<1>5. CASE pru_read
  <2>1. CASE enable /\ MayTransfer
    <3>1. payload' \in BOOLEAN /\ published' \in BOOLEAN
      BY <1>5, <2>1, Zenon DEF pru_read, Send
    <3>. QED
      BY <1>5, <2>1, <3>1 DEF pru_read, Send, MayTransfer, pins
  <2>2. CASE ~(enable /\ MayTransfer)
    <3>1. status' \in BOOLEAN
      BY <1>5, <2>2, Zenon DEF pru_read
    <3>. QED
      BY <1>5, <2>2, <3>1 DEF pru_read, network, pins
  <2>. QED
    BY <2>1, <2>2
<1>6. CASE pru_write
  <2>1. CASE status
    <3>1. payload' \in BOOLEAN /\ published' \in BOOLEAN
      BY <1>6, <2>1, Zenon DEF pru_write, Send
    <3>. QED
      BY <1>6, <2>1, <3>1 DEF pru_write, Send, pins
  <2>2. CASE ~status
    BY <1>6, <2>2 DEF pru_write, network, pins
  <2>. QED
    BY <2>1, <2>2
<1>7. ASSUME Received
      PROVE  /\ errCount' = 0 /\ header' \in Headers
             /\ Head(toHost).current \in BOOLEAN /\ net' = net
  <2>1. Head(toHost) \in Message(Headers \ {"none"})
    BY <1>7, ReceivedType DEF IInv
  <2>. QED
    BY <1>7, <2>1 DEF Received, Message
<1>8. ASSUME TimedOut
      PROVE  /\ errCount' \in 0 .. MaxErrors + 1
             /\ header' \in Headers /\ payload' = payload /\ net' = net
  BY <1>8 DEF TimedOut, GiveUp, Lesser, network
<1>9. CASE ReadDone
  <2>1. CASE /\ Received /\ payload' = ReadPayload /\ ReadSwitch(status)
    <3>1. payload' \in BOOLEAN
      BY <1>7, <2>1 DEF ReadPayload
    <3>2. status' \in BOOLEAN /\ published' \in BOOLEAN
      BY <2>1, <3>1, Zenon DEF ReadSwitch
    <3>3. pc' = "write" /\ resetOld' = reset /\ enable' = enable /\ reset' = reset
      BY <1>9, <2>1, Zenon DEF ReadDone, ReadSwitch, pins
    <3>. QED
      BY <1>7, <2>1, <3>1, <3>2, <3>3
  <2>2. CASE TimedOut /\ ReadSwitch(status /\ ~Tripped)
    <3>1. status' \in BOOLEAN /\ published' \in BOOLEAN
      BY <1>8, <2>2, Zenon DEF ReadSwitch
    <3>. QED
      BY <1>8, <1>9, <2>2, <3>1 DEF ReadDone, ReadSwitch, pins
  <2>. QED
    BY <1>9, <2>1, <2>2 DEF ReadDone
<1>10. CASE WriteDone
  <2>1. CASE Received /\ UNCHANGED payload /\ WriteSwitch(status)
    <3>1. status' \in BOOLEAN
      BY <2>1, Zenon DEF WriteSwitch
    <3>. QED
      BY <1>7, <1>10, <2>1, <3>1 DEF WriteDone, pins
  <2>2. CASE TimedOut /\ WriteSwitch(status /\ ~Tripped)
    <3>1. status' \in BOOLEAN
      BY <2>2, Zenon DEF WriteSwitch
    <3>2. status' => ~Tripped
      BY <2>2 DEF WriteSwitch
    <3>. QED
      BY <1>8, <1>10, <2>2, <3>1, <3>2 DEF WriteDone, Tripped, pins
  <2>. QED
    BY <1>10, <2>1, <2>2 DEF WriteDone
<1>. QED
  BY <1>2, <1>3, <1>4, <1>5, <1>6, <1>9, <1>10
     DEF Next, Environment, ServoThread, Lose, EthernetTasks, tasks, CommsUpdate,
         CoreRun, vars, network

LEMMA InitInv == Init => IInv
<1>. SUFFICES ASSUME Init PROVE IInv
  OBVIOUS
<1>1. DriverType /\ FirmwareType
  <2>1. /\ enable \in BOOLEAN /\ reset \in BOOLEAN /\ resetOld \in BOOLEAN
        /\ status \in BOOLEAN /\ payload \in BOOLEAN /\ published \in BOOLEAN
        /\ goodHeader \in BOOLEAN /\ newDataFlagged \in BOOLEAN
        /\ data \in BOOLEAN /\ fwStatus \in BOOLEAN
    BY Zenon DEF Init
  <2>. QED
    BY <2>1, WatchdogAssumption DEF Init, DriverType, FirmwareType, MaxErrors, Headers
<1>2. /\ toFw \in Seq(Message(Requests)) /\ toHost \in Seq(Message(Headers \ {"none"}))
      /\ Len(toFw) = 0 /\ Len(toHost) = 0
  BY EmptySeq DEF Init
<1>3. TripInv /\ EdgeInv
  BY DEF Init, TripInv, EdgeInv, MaxErrors
<1>. QED
  BY <1>1, <1>2, <1>3, TypeParts, MaxLateAssumption DEF IInv, NetType, Coming

LEMMA StepInv == IInv /\ [Next]_vars => IInv'
<1>1. TypeOK' <=> /\ DriverType' /\ FirmwareType'
                  /\ (toFw \in Seq(Message(Requests)))'
                  /\ (toHost \in Seq(Message(Headers \ {"none"})))'
                  /\ (Coming <= MaxLate + 1)'
  BY DEF TypeOK, DriverType, FirmwareType
<1>. QED
  BY <1>1, NetStep, DriverStep, FirmwareStep DEF IInv, NetType

-----------------------------------------------------------------------------
(* Every variable keeps its type; no more replies are ever under way than   *)
(* the late ones and the one that is awaited.                               *)
THEOREM TypeCorrect == Spec => []TypeOK
<1>1. IInv => TypeOK
  BY DEF IInv
<1>. QED
  BY InitInv, StepInv, <1>1, PTL DEF Spec

(* Three unanswered transfers leave the driver off at the end of the cycle. *)
THEOREM LossTrips == Spec => []LossTripsCycle
<1>1. IInv => LossTripsCycle
  BY DEF IInv, TripInv, LossTripsCycle
<1>. QED
  BY InitInv, StepInv, <1>1, PTL DEF Spec

(* The driver stays off until a read on the rising edge of reset.           *)
THEOREM OffLatchesTheorem == Spec => OffLatches
<1>1. IInv /\ [Next]_vars => [~status /\ status' => pc = "awaitRead" /\ ~resetOld]_vars
  <2>. SUFFICES ASSUME IInv, [Next]_vars, ~status, status'
                PROVE  pc = "awaitRead" /\ ~resetOld
    OBVIOUS
  <2>1. ReadDone
    BY DEF Next, Environment, ServoThread, SetEnable, SetReset, Lose, Calm, Cut,
           pru_read, pru_write, WriteDone, WriteSwitch, EthernetTasks, tasks,
           CommsUpdate, CoreRun, vars, driver
  <2>. QED
    BY <2>1 DEF ReadDone, IInv, EdgeInv
<1>. QED
  BY InitInv, StepInv, <1>1, PTL DEF Spec, OffLatches
=============================================================================
