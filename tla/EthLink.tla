------------------------------- MODULE EthLink -------------------------------
(***************************************************************************)
(* The Ethernet link end to end: the LinuxCNC driver's servo thread        *)
(* (pru_read, then pru_write, each a request and a wait for the reply),    *)
(* the UDP path, RP2350_EthComms with the W5500 driver below it, and the   *)
(* comms watchdog and state machine of remora-core.                        *)
(*                                                                         *)
(* Requests and replies carry no sequence number: the driver takes         *)
(* whatever datagram is next on its socket for the answer to the request   *)
(* it has just sent.  The model knows better, and marks each message as    *)
(* "current" while it belongs to the last request.                         *)
(***************************************************************************)
EXTENDS Integers, Sequences, SequencesExt

CONSTANTS
  MaxLate,    \* bounds the model: replies that may come late at the same time
  Watchdog    \* servo ticks without data that CommsHandler forgives (100)

ASSUME MaxLateAssumption  == MaxLate \in Nat
ASSUME WatchdogAssumption == Watchdog \in Nat

VARIABLES
  \* HAL pins LinuxCNC drives
  enable, reset,
  \* the driver
  pc,              \* "read", "awaitRead", "write", "awaitWrite"
  status, resetOld, errCount,
  header,          \* rxData.header, as the last recv() left it
  payload,         \* rxData's payload came in reply to the last request
  published,       \* ... and so did what pru_read put on the feedback pins
  \* the network
  net,             \* "lossy", or for good: "calm" or "cut"
  toFw, toHost,    \* datagrams under way, toHost with the socket's queue
  \* the firmware
  goodHeader,      \* ptrRxData->header is pruRead or pruWrite
  newDataFlagged, data,
  noDataCount, fwStatus,   \* CommsHandler
  core                     \* the state of remora-core's main loop

pins     == <<enable, reset>>
driver   == <<pc, status, resetOld, errCount, header, payload, published>>
network  == <<net, toFw, toHost>>
firmware == <<goodHeader, newDataFlagged, data, noDataCount, fwStatus, core>>
vars     == <<pins, driver, network, firmware>>

Requests == {"READ", "WRITE"}
Headers  == {"none", "DATA", "ACKNOWLEDGE"}      \* "none": zeros
Message(h) == [header : h, current : BOOLEAN]

Coming      == Len(toFw) + Len(toHost)
Lesser(a, b) == IF a < b THEN a ELSE b

Init ==
  /\ enable = FALSE /\ reset = FALSE
  /\ pc = "read" /\ status = FALSE /\ resetOld = FALSE /\ errCount = 0
  /\ header = "none" /\ payload = FALSE /\ published = FALSE
  /\ net = "lossy" /\ toFw = <<>> /\ toHost = <<>>
  /\ goodHeader = FALSE /\ newDataFlagged = FALSE /\ data = FALSE
  /\ noDataCount = 0 /\ fwStatus = FALSE /\ core = "idle"

-----------------------------------------------------------------------------
(* LinuxCNC changes the pins whenever it likes. *)
SetEnable == enable' = ~enable /\ UNCHANGED <<reset, driver, network, firmware>>
SetReset  == reset' = ~reset /\ UNCHANGED <<enable, driver, network, firmware>>

(* A datagram or its reply is lost. *)
Lose ==
  /\ net = "lossy"
  /\ \/ \E i \in DOMAIN toFw : toFw' = RemoveAt(toFw, i) /\ UNCHANGED toHost
     \/ \E i \in DOMAIN toHost : toHost' = RemoveAt(toHost, i) /\ UNCHANGED toFw
  /\ UNCHANGED <<net, pins, driver, firmware>>

(* From some time on no datagram is lost or late, or the cable is cut. *)
Calm == net = "lossy" /\ net' = "calm" /\ UNCHANGED <<toFw, toHost, pins, driver, firmware>>
Cut  == /\ net = "lossy" /\ net' = "cut" /\ toFw' = <<>> /\ toHost' = <<>>
        /\ UNCHANGED <<pins, driver, firmware>>

-----------------------------------------------------------------------------
(* pru_transfer(): send() ... *)

Aged(q) == [i \in DOMAIN q |-> [q[i] EXCEPT !.current = FALSE]]

Send(req) ==
  /\ toFw' = IF net = "cut" THEN <<>>
             ELSE Append(Aged(toFw), [header |-> req, current |-> TRUE])
  /\ toHost' = Aged(toHost)
  /\ payload' = FALSE /\ published' = FALSE
  /\ UNCHANGED net

(* ... then recv() until there is a datagram ... *)
Received ==
  /\ toHost # <<>> /\ toHost' = Tail(toHost)
  /\ header' = Head(toHost).header
  /\ errCount' = 0
  /\ UNCHANGED <<net, toFw>>

(* ... or 200 ms are over; rxData is then what it was before. *)
MaxErrors  == 2
Tripped    == errCount' > MaxErrors
GiveUpForgets == errCount' = 1                                \* mutant
GiveUp        == errCount' = Lesser(errCount + 1, MaxErrors + 1)

TimedOut ==
  /\ Coming = 0 \/ (net = "lossy" /\ Coming <= MaxLate)
  /\ GiveUp
  /\ UNCHANGED <<header, payload, network>>

-----------------------------------------------------------------------------
(* pru_read() and pru_write(), each cut in two at the wait. *)

MayTransferLevel == status \/ reset                           \* mutant
MayTransfer == status \/ (reset /\ ~resetOld)

pru_read ==
  /\ pc = "read"
  /\ IF enable /\ MayTransfer
       THEN /\ pc' = "awaitRead" /\ Send("READ") /\ UNCHANGED <<status, resetOld>>
       ELSE /\ pc' = "write" /\ resetOld' = reset
            /\ status' = (enable /\ status)
            /\ UNCHANGED <<payload, published, network>>
  /\ UNCHANGED <<errCount, header, pins, firmware>>

(* The switch on rxData.header; up is status as pru_transfer left it. *)
ReadSwitch(up) ==
  /\ status' = CASE header' = "DATA" -> TRUE
                 [] header' = "ACKNOWLEDGE" -> up
                 [] OTHER -> FALSE
  /\ published' = IF header' = "DATA" THEN payload' ELSE published
  /\ resetOld' = reset
  /\ pc' = "write"

(* A read's recv() has room for the whole packet. *)
ReadPayloadCut == payload                                     \* mutant
ReadPayload == IF header' = "DATA" THEN Head(toHost).current ELSE payload

ReadDone ==
  /\ pc = "awaitRead"
  /\ \/ /\ Received
        /\ payload' = ReadPayload
        /\ ReadSwitch(status)
     \/ TimedOut /\ ReadSwitch(status /\ ~Tripped)
  /\ UNCHANGED <<pins, firmware>>

pru_write ==
  /\ pc = "write"
  /\ IF status
       THEN pc' = "awaitWrite" /\ Send("WRITE")
       ELSE pc' = "read" /\ UNCHANGED <<payload, published, network>>
  /\ UNCHANGED <<status, resetOld, errCount, header, pins, firmware>>

WriteSwitchTrusts(up) == status' = (header' # "none")         \* mutant
WriteSwitch(up) == status' = (up /\ header' # "none")

(* Only the header is received: of a late feedback packet, the rest is lost. *)
WriteDone ==
  /\ pc = "awaitWrite" /\ pc' = "read"
  /\ \/ Received /\ UNCHANGED payload /\ WriteSwitch(status)
     \/ TimedOut /\ WriteSwitch(status /\ ~Tripped)
  /\ UNCHANGED <<resetOld, published, pins, firmware>>

-----------------------------------------------------------------------------
(* Core 1: tasks() lets the W5500 driver handle a datagram, which copies it, *)
(* replies at once and calls flag_new_data(), then reports to CommsHandler.  *)

ReplyEchoes(req) == req                                       \* mutant
Reply(req) == IF req = "READ" THEN "DATA" ELSE "ACKNOWLEDGE"

EthernetTasks ==
  /\ toFw # <<>> /\ toFw' = Tail(toFw)
  /\ goodHeader' = TRUE
  /\ toHost' = Append(toHost, [Head(toFw) EXCEPT !.header = Reply(@)])
  /\ newDataFlagged' = TRUE
  /\ UNCHANGED <<net, data, noDataCount, fwStatus, core, pins, driver>>

KeepFlag  == UNCHANGED newDataFlagged                         \* mutant
ClearFlag == newDataFlagged' = FALSE

tasks ==
  /\ newDataFlagged /\ ClearFlag
  /\ data' = goodHeader
  /\ UNCHANGED <<goodHeader, noDataCount, fwStatus, core, pins, driver, network>>

(* Core 0: CommsHandler::update() on each servo tick ... *)
CommsUpdate ==
  /\ data' = FALSE
  /\ noDataCount' = IF data THEN 0 ELSE Lesser(noDataCount + 1, Watchdog + 1)
  /\ fwStatus' = IF data THEN TRUE ELSE fwStatus /\ noDataCount' <= Watchdog
  /\ UNCHANGED <<goodHeader, newDataFlagged, core, pins, driver, network>>

(* ... and Remora::run(), which leaves ST_RESET with a zeroed rxBuffer. *)
CoreRun ==
  /\ \/ core = "idle" /\ fwStatus /\ core' = "running" /\ UNCHANGED goodHeader
     \/ core = "running" /\ ~fwStatus /\ core' = "reset" /\ UNCHANGED goodHeader
     \/ core = "reset" /\ core' = "idle" /\ goodHeader' = FALSE
  /\ UNCHANGED <<newDataFlagged, data, noDataCount, fwStatus, pins, driver, network>>

-----------------------------------------------------------------------------
ServoThread == pru_read \/ ReadDone \/ pru_write \/ WriteDone
Environment == SetEnable \/ SetReset \/ Lose \/ Calm \/ Cut

Next == Environment \/ ServoThread \/ EthernetTasks \/ tasks \/ CommsUpdate \/ CoreRun

Spec == Init /\ [][Next]_vars

(* The servo thread's period, core 1's loop, core 0's servo tick and its     *)
(* main loop keep going; the network owes nothing while it is "lossy".       *)
Fairness == /\ WF_vars(ServoThread) /\ WF_vars(EthernetTasks) /\ WF_vars(tasks)
            /\ WF_vars(CommsUpdate) /\ WF_vars(CoreRun)

FairSpec == Spec /\ Fairness

-----------------------------------------------------------------------------
TypeOK ==
  /\ enable \in BOOLEAN /\ reset \in BOOLEAN /\ resetOld \in BOOLEAN
  /\ pc \in {"read", "awaitRead", "write", "awaitWrite"}
  /\ status \in BOOLEAN /\ errCount \in 0 .. MaxErrors + 1 /\ header \in Headers
  /\ payload \in BOOLEAN /\ published \in BOOLEAN
  /\ net \in {"lossy", "calm", "cut"}
  /\ toFw \in Seq(Message(Requests)) /\ toHost \in Seq(Message(Headers \ {"none"}))
  /\ Coming <= MaxLate + 1
  /\ goodHeader \in BOOLEAN /\ newDataFlagged \in BOOLEAN /\ data \in BOOLEAN
  /\ noDataCount \in 0 .. Watchdog + 1 /\ fwStatus \in BOOLEAN
  /\ core \in {"idle", "running", "reset"}

(* After three transfers without a reply the driver ends its cycle with     *)
(* status off, even though pru_read may just have switched it back on over  *)
(* a stale header (pru_transfer's errCount against the switch statements).  *)
LossTripsCycle == pc = "read" /\ errCount > MaxErrors => ~status

(* Once off, status comes back only in a pru_read that saw reset rise: an   *)
(* E-stop, a bad payload or a lost link latches until LinuxCNC resets.      *)
OffLatches == [][~status /\ status' => pc = "awaitRead" /\ ~resetOld]_vars

(* When the link fails for good the driver notices, whatever rxData still   *)
(* holds and however often LinuxCNC resets (pru_transfer, errCount).        *)
LossIsNoticed == (net = "cut") ~> ~status

(* Lost datagrams alone do no lasting harm: if nothing is under way when    *)
(* losses and delays end, pru_read publishes the answer to its own request  *)
(* again, or the driver is off.                                             *)
RecoversFromLoss ==
  (net = "calm" /\ Coming = 0 /\ pc = "read") ~> (published \/ ~status)

(* The firmware stops when the host does: with the driver off for good, the *)
(* watchdog ends ST_RUNNING for good.                                       *)
HostOffStopsCore == (<>[](~status /\ ~enable)) => <>[](core # "running")

(* "We've dropped a packet somewhere but comms are still up": after a late  *)
(* datagram, on a link with no further trouble, the feedback resumes.       *)
FeedbackResumes == (net = "calm") ~> (published \/ ~status)
=============================================================================
