-------------------------- MODULE ConfigUpload_proofs --------------------------
(***************************************************************************)
(* Proofs about the lockout in ConfigUpload, for any files, areas, hosts   *)
(* and power losses: whoever touches flash has the other core parked, and  *)
(* the cores never park each other.                                        *)
(***************************************************************************)
EXTENDS ConfigUpload, TLAPS

LockType ==
  /\ lock \in [Core -> {"free", "wait", "asked", "held", "done", "ending"}]
  /\ fifo \in [Core -> {"none", "start", "end", "ack"}]
  /\ parked \in [Core -> BOOLEAN]
  /\ mutex \in {0, 1, Nobody}

(* c's message is still in the FIFO of o, or o has taken it and answered.   *)
Sent(c, o, word)     == fifo[o] = word /\ fifo[c] # "ack"
Answered(c, o)       == fifo[o] = "none" /\ fifo[c] = "ack"
Silent(c, o)         == fifo[o] \notin {"start", "end"} /\ fifo[c] # "ack"

(* How far c's lockout of o has got.                                        *)
Lockout(c, o) ==
  /\ lock[c] \in {"free", "wait"} => ~parked[o] /\ Silent(c, o)
  /\ lock[c] = "asked"  => \/ ~parked[o] /\ Sent(c, o, "start")
                           \/ parked[o] /\ Answered(c, o)
  /\ lock[c] \in {"held", "done"} => parked[o] /\ Silent(c, o)
  /\ lock[c] = "ending" => \/ parked[o] /\ Sent(c, o, "end")
                           \/ ~parked[o] /\ Answered(c, o)

(* Only one core is in a lockout of the other, and it has the mutex while   *)
(* a message of it is on its way.                                           *)
OneAtATime ==
  /\ lock[0] \in {"free", "wait"} \/ lock[1] \in {"free", "wait"}
  /\ \A c \in Core : mutex = c <=> lock[c] \in {"asked", "ending"}

LockInv == LockType /\ OneAtATime /\ Lockout(0, 1) /\ Lockout(1, 0)

-----------------------------------------------------------------------------
LEMMA LockInit == Init => LockInv
BY DEF Init, LockInv, LockType, OneAtATime, Lockout, Silent, Both, Core, Nobody

(* A core that touches no flash and takes no interrupt leaves it alone, but *)
(* for going from free to wait.                                             *)
LEMMA Untouched ==
  ASSUME LockInv, NEW c \in Core, UNCHANGED <<mutex, fifo, parked>>,
         \/ UNCHANGED lock
         \/ lock[c] \in {"free", "held"} /\ lock' = Set(lock, c, IF lock[c] = "free" THEN "wait" ELSE "done")
  PROVE  LockInv'
BY DEF LockInv, LockType, OneAtATime, Lockout, Silent, Sent, Answered, Set, Core, Nobody

LEMMA RequestStep ==
  ASSUME LockInv, NEW c \in Core, StartLockout(c) \/ EndLockout(c)
  PROVE  LockInv'
<1>1. CASE c = 0
  BY <1>1 DEF StartLockout, EndLockout, Request, Step, LockInv, LockType, OneAtATime, Lockout,
     Silent, Sent, Answered, Set, Core, Nobody, Other
<1>2. CASE c = 1
  BY <1>2 DEF StartLockout, EndLockout, Request, Step, LockInv, LockType, OneAtATime, Lockout,
     Silent, Sent, Answered, Set, Core, Nobody, Other
<1>. QED
  BY <1>1, <1>2 DEF Core

LEMMA AcknowledgedStep ==
  ASSUME LockInv, NEW c \in Core, LockedOut(c) \/ Erased(c) \/ Written(c)
  PROVE  LockInv'
<1>1. /\ fifo[c] = "ack" /\ fifo' = Set(fifo, c, "none") /\ mutex' = Nobody /\ UNCHANGED parked
      /\ \/ lock[c] = "asked" /\ lock' = Set(lock, c, "held")
         \/ lock[c] = "ending" /\ \E l \in {"free", "wait"} : lock' = Set(lock, c, l)
  BY DEF LockedOut, Erased, Written, Acknowledged, Step
<1>2. CASE c = 0
  BY <1>1, <1>2 DEF LockInv, LockType, OneAtATime, Lockout, Silent, Sent, Answered, Set, Core, Nobody
<1>3. CASE c = 1
  BY <1>1, <1>3 DEF LockInv, LockType, OneAtATime, Lockout, Silent, Sent, Answered, Set, Core, Nobody
<1>. QED
  BY <1>2, <1>3 DEF Core

LEMMA HandlerStep ==
  ASSUME LockInv, NEW c \in Core, Interrupt(c)
  PROVE  LockInv'
<1>. DEFINE o == Other(c)
<1>1. /\ \/ fifo[c] = "start" /\ ~parked[c] /\ parked' = [parked EXCEPT ![c] = TRUE]
         \/ fifo[c] = "end" /\ parked[c] /\ parked' = [parked EXCEPT ![c] = FALSE]
      /\ fifo' = [fifo EXCEPT ![c] = "none", ![o] = "ack"] /\ UNCHANGED <<lock, mutex>>
  <2>1. parked[c] \in BOOLEAN
    BY DEF LockInv, LockType
  <2>. QED
    BY <2>1 DEF Interrupt, Park, Unpark, Handler, Set
<1>2. o = 1 - c
  BY DEF Other
<1>. HIDE DEF o
<1>3. /\ o \in Core /\ o # c /\ Lockout(c, o) /\ Lockout(o, c)
      /\ (c = 0 /\ o = 1) \/ (c = 1 /\ o = 0)
  <2>1. (c = 0 /\ o = 1) \/ (c = 1 /\ o = 0)
    BY <1>2 DEF Core
  <2>2. Lockout(c, o) /\ Lockout(o, c)
    BY <2>1, Zenon DEF LockInv
  <2>. QED
    BY <2>1, <2>2 DEF Core
<1>4. LockType' /\ OneAtATime'
  <2>1. LockType'
    BY <1>1, <1>3 DEF LockInv, LockType
  <2>. QED
    BY <2>1, <1>1 DEF LockInv, OneAtATime
<1>5. lock[o] \in {"asked", "ending"} /\ lock[c] \in {"free", "wait"}
  <2>1. lock[o] \in {"asked", "ending"}
    BY <1>1, <1>3 DEF LockInv, LockType, Lockout, Silent, Sent, Answered
  <2>. QED
    BY <2>1, <1>3 DEF LockInv, OneAtATime
<1>6. fifo'[c] = "none" /\ fifo'[o] = "ack" /\ parked'[o] = parked[o] /\ lock' = lock
  BY <1>1, <1>3 DEF LockInv, LockType
<1>7. Lockout(c, o)'
  BY <1>3, <1>5, <1>6 DEF Lockout, Silent
<1>8. Lockout(o, c)'
  <2>1. CASE fifo[c] = "start"
    <3>1. parked'[c] /\ lock[o] = "asked"
      BY <1>1, <1>3, <1>5, <2>1 DEF LockInv, LockType, Lockout, Sent, Answered
    <3>. QED
      BY <3>1, <1>6 DEF Lockout, Answered
  <2>2. CASE fifo[c] = "end"
    <3>1. ~parked'[c] /\ lock[o] = "ending"
      BY <1>1, <1>3, <1>5, <2>2 DEF LockInv, LockType, Lockout, Sent, Answered
    <3>. QED
      BY <3>1, <1>6 DEF Lockout, Answered
  <2>. QED
    BY <1>1, <2>1, <2>2
<1>. QED
  BY <1>3, <1>4, <1>7, <1>8 DEF LockInv

LEMMA ResetStep ==
  ASSUME LockInv, Reset
  PROVE  LockInv'
BY DEF Reset, LockInv, LockType, OneAtATime, Lockout, Silent, Both, Core, Nobody

LEMMA LockStep ==
  ASSUME LockInv, [Next]_vars
  PROVE  LockInv'
<1>1. CASE StartCore0 \/ Construct \/ LaunchCore1 \/ StartCore1 \/ Idle \/ UNCHANGED vars
  <2>1. UNCHANGED <<lock, mutex, fifo, parked>>
    BY <1>1 DEF StartCore0, Construct, LaunchCore1, StartCore1, Idle, Register, vars, ram, lockout
  <2>. QED
    BY <2>1, Untouched DEF Core
<1>2. CASE CheckUpload \/ CopyBlock
  <2>1. UNCHANGED <<mutex, fifo, parked>> /\ lock[0] = "free" /\ (UNCHANGED lock \/ lock' = Set(lock, 0, "wait"))
    BY <1>2 DEF CheckUpload, CopyBlock, Store, Operate, At, lockout
  <2>. QED
    BY <2>1, Untouched DEF Core
<1>3. CASE Host
  <2>1. UNCHANGED <<mutex, fifo, parked>> /\ lock[1] = "free" /\ lock' = Set(lock, 1, "wait")
    BY <1>3 DEF Host, WriteRequest, DataBlock, Operate, At
  <2>. QED
    BY <2>1, Untouched DEF Core
<1>4. ASSUME NEW c \in Core, Program(c)
      PROVE  LockInv'
  <2>1. UNCHANGED <<mutex, fifo, parked>> /\ lock[c] = "held" /\ lock' = Set(lock, c, "done")
    BY <1>4 DEF Program, Operation, Step
  <2>. QED
    BY <2>1, Untouched
<1>5. CASE Reboot \/ PowerLoss
  BY <1>5, ResetStep DEF Reboot, PowerLoss
<1>6. ASSUME NEW c \in Core, FlashOp(c)
      PROVE  LockInv'
  BY <1>4, <1>6, RequestStep, AcknowledgedStep DEF FlashOp
<1>. QED
  BY <1>1, <1>2, <1>3, <1>5, <1>6, HandlerStep DEF Next, Core0, Core1, Core

LEMMA LockAlways == Spec => []LockInv
BY LockInit, LockStep, PTL DEF Spec

(* hal_utils.cpp:16: for any number of uploads and power losses, a core     *)
(* that erases or programs flash has the other one parked.                  *)
THEOREM FlashAloneTheorem == Spec => []FlashAlone
<1>1. LockInv => FlashAlone
  BY DEF LockInv, LockType, FlashAlone, Lockout, Core, Other
<1>. QED
  BY <1>1, LockAlways, PTL

(* The cores never park each other: a parked core's requester is on its way *)
(* through the flash operation, and is not parked itself.                   *)
THEOREM ParkedForOneTheorem == Spec => [](ParkedForOne /\ ~(parked[0] /\ parked[1]))
<1>1. LockInv => ParkedForOne /\ ~(parked[0] /\ parked[1])
  BY DEF LockInv, LockType, OneAtATime, ParkedForOne, Lockout, Core, Other
<1>. QED
  BY <1>1, LockAlways, PTL

-----------------------------------------------------------------------------
(* What a store may leave behind. *)

Content == File \cup {Blank, Torn}
Busy    == {"erase", "fill", "write"}

StoreType ==
  /\ phase \in [Core -> {"start", "construct", "launch", "run", "rom", "entry", "poll"} \cup Busy]
  /\ lock \in [Core -> {"free", "wait", "asked", "held", "done", "ending"}]
  /\ block \in [Core -> Block] /\ page \in [Core -> Content]
  /\ flash \in [Core -> [Block -> Content]]

(* A core that is in a lockout has an operation, core 0 begins a store with *)
(* the first block, and core 1 is in the boot ROM until it is launched.     *)
WorkInv ==
  /\ \A c \in Core : lock[c] = "free" <=> phase[c] \notin {"erase", "write"}
  /\ phase[0] \notin Busy => block[0] = 1
  /\ phase[0] \in {"start", "construct", "launch"} => phase[1] = "rom"

(* With a host that waits, core 1 works on an upload only while core 0 has  *)
(* none to store, and core 0 reboots with none.                             *)
QuietInv ==
  /\ phase[1] \in Busy => ~new_flash_json /\ phase[0] = "run" /\ ~armed
  /\ armed => ~new_flash_json /\ phase[0] = "run"

(* How far the store of f has got: the blocks before the current one are    *)
(* done, and so is the current one if the operation on it is.               *)
Progress(f) ==
  /\ phase[0] = "erase" =>
       /\ page[0] = Blank
       /\ \A b \in Block : b < block[0] => Storage[b] = Blank
       /\ lock[0] \in {"done", "ending"} => Storage[block[0]] = Blank
  /\ phase[0] = "fill" =>
       \A b \in Block : Storage[b] = IF b < block[0] THEN f ELSE Blank
  /\ phase[0] = "write" =>
       /\ page[0] = f
       /\ \A b \in Block : Storage[b] =
            IF b < block[0] \/ (b = block[0] /\ lock[0] \in {"done", "ending"}) THEN f ELSE Blank

CopyInv ==
  Storing => ~new_flash_json /\ ~armed /\ \E f \in File : Whole(Upload, f) /\ Progress(f)

Sound   == Storage[1] = Blank \/ \E f \in File : Whole(Storage, f)
KeptInv == ~Storing /\ ~cut => Sound

StoreInv ==
  /\ StoreType /\ WorkInv
  /\ ~restless => QuietInv /\ CopyInv /\ KeptInv /\ LoadedWhole

LEMMA CombinedType ==
  ASSUME NEW x \in Content, NEW y \in Content
  PROVE  Combined(x, y) \in Content
BY DEF Combined, Content

LEMMA NextBlockType ==
  ASSUME block \in [Core -> Block], NEW c \in Core, NextBlock(c)
  PROVE  block' \in [Core -> Block]
BY BoundsAssumption DEF NextBlock, Set, Block

LEMMA StoreTypeStep ==
  ASSUME StoreType, [Next]_vars
  PROVE  StoreType'
<1>. DEFINE Places == {"start", "construct", "launch", "run", "rom", "entry", "poll"} \cup Busy
            Locks  == {"free", "wait", "asked", "held", "done", "ending"}
<1>. USE DEF Busy
<1>1. 1 \in Block /\ Blank \in Content /\ Torn \in Content /\ File \subseteq Content
  BY BoundsAssumption DEF Block, Content
<1>2. ASSUME NEW c \in Core, NEW p \in Places, NEW x \in Content, Operate(c, p, x), block' \in [Core -> Block]
      PROVE  StoreType'
  BY <1>2 DEF StoreType, Operate, Goto, Set
<1>3. CASE Core0 /\ ~FlashOp(0)
  <2>1. CASE StartCore0 \/ Construct
    BY <2>1 DEF StartCore0, Construct, Register, Goto, Set, StoreType, lockout
  <2>2. CASE LaunchCore1
    BY <2>2 DEF LaunchCore1, Both, StoreType, lockout
  <2>3. CASE CheckUpload
    <3>1. CASE Store
      BY <2>3, <3>1, <1>1, <1>2 DEF CheckUpload, Store, StoreType, Core
    <3>. QED
      BY <2>3, <3>1 DEF CheckUpload, StoreType, lockout
  <2>4. CASE CopyBlock
    <3>1. Upload[block[0]] \in Content
      BY DEF StoreType, Upload, Core
    <3>. QED
      BY <2>4, <3>1, <1>2 DEF CopyBlock, StoreType, Core
  <2>. QED
    BY <1>3, <2>1, <2>2, <2>3, <2>4 DEF Core0
<1>4. CASE StartCore1
  BY <1>4 DEF StartCore1, Register, Goto, Set, StoreType
<1>5. CASE Host
  <2>1. CASE WriteRequest
    BY <2>1, <1>1, <1>2 DEF WriteRequest, StoreType, Set, Core
  <2>2. ASSUME NEW f \in File, DataBlock(f)
        PROVE  StoreType'
    BY <2>2, <1>1, <1>2 DEF DataBlock, StoreType, Core
  <2>. QED
    BY <1>5, <2>1, <2>2 DEF Host
<1>6. ASSUME NEW c \in Core, FlashOp(c)
      PROVE  StoreType'
  <2>1. CASE StartLockout(c) \/ EndLockout(c)
    BY <2>1 DEF StartLockout, EndLockout, Request, Step, Set, StoreType
  <2>2. CASE LockedOut(c)
    BY <2>2 DEF LockedOut, Acknowledged, Step, Set, StoreType
  <2>3. CASE Program(c)
    <3>1. flash[c][block[c]] \in Content /\ page[c] \in Content
      BY DEF StoreType
    <3>2. flash' \in [Core -> [Block -> Content]]
      BY <2>3, <3>1, CombinedType DEF Program, Operation, StoreType
    <3>. QED
      BY <2>3, <3>2 DEF Program, Operation, Step, Set, StoreType
  <2>4. CASE Erased(c)
    <3>1. block' \in [Core -> Block]
      BY <2>4, NextBlockType DEF Erased, StoreType
    <3>. QED
      BY <2>4, <3>1 DEF Erased, Acknowledged, Step, Goto, Set, StoreType
  <2>5. CASE Written(c)
    <3>1. block' \in [Core -> Block]
      BY <2>5, NextBlockType DEF Written, StoreType
    <3>. QED
      BY <2>5, <3>1 DEF Written, Stored, Acknowledged, Step, Goto, Set, StoreType, Core
  <2>. QED
    BY <1>6, <2>1, <2>2, <2>3, <2>4, <2>5 DEF FlashOp
<1>7. ASSUME NEW c \in Core, Interrupt(c)
      PROVE  StoreType'
  BY <1>7 DEF Interrupt, Park, Unpark, Handler, StoreType
<1>8. CASE Reset
  <2>1. PICK torn \in SUBSET Core : flash' = [c \in Core |-> IF c \in torn THEN Set(flash[c], block[c], Torn) ELSE flash[c]]
    BY <1>8 DEF Reset
  <2>2. flash' \in [Core -> [Block -> Content]]
    BY <2>1, <1>1 DEF StoreType, Set
  <2>. QED
    BY <1>8, <2>2, <1>1 DEF Reset, Both, Start0, StoreType
<1>9. CASE Idle \/ UNCHANGED vars
  BY <1>9 DEF Idle, vars, ram, lockout, StoreType
<1>. QED
  BY <1>3, <1>4, <1>5, <1>6, <1>7, <1>8, <1>9 DEF Next, Core0, Core1, Reboot, PowerLoss, Core

LEMMA StoreInit == Init => StoreInv
<1>. SUFFICES ASSUME Init PROVE StoreInv
  OBVIOUS
<1>1. 1 \in Block /\ Blank \in Content /\ File \subseteq Content
  BY BoundsAssumption DEF Block, Content
<1>2. PICK f \in File \cup {Blank} : flash = Both([b \in Block |-> f], [b \in Block |-> Blank])
  BY DEF Init
<1>3. StoreType /\ WorkInv /\ QuietInv /\ CopyInv
  BY <1>1, <1>2 DEF Init, Both, Start0, StoreType, WorkInv, QuietInv, CopyInv, Storing, Busy, Core
<1>4. KeptInv
  BY <1>1, <1>2 DEF KeptInv, Sound, Storage, Whole, Both, Core
<1>. QED
  BY <1>3, <1>4 DEF Init, StoreInv, LoadedWhole, Both, Start0, Core

(* A step of core 1, or one that only moves a lockout on, leaves what a     *)
(* store has done as it is.                                                 *)
Aside ==
  /\ phase'[0] = phase[0] /\ block'[0] = block[0] /\ page'[0] = page[0]
  /\ lock'[0] \in {"done", "ending"} <=> lock[0] \in {"done", "ending"}
  /\ Storage' = Storage /\ config' = config /\ cut' = cut /\ restless' = restless
  /\ armed' = armed
  /\ ~restless /\ Storing => Upload' = Upload /\ new_flash_json' = new_flash_json

LEMMA AsideStep ==
  ASSUME StoreInv, StoreType', WorkInv', Aside, ~restless => QuietInv'
  PROVE  StoreInv'
<1>. SUFFICES ASSUME ~restless PROVE CopyInv' /\ KeptInv' /\ LoadedWhole'
  BY DEF StoreInv, Aside
<1>1. CopyInv'
  <2>. SUFFICES ASSUME Storing' PROVE ~new_flash_json' /\ ~armed' /\ \E f \in File : Whole(Upload, f)' /\ Progress(f)'
    BY DEF CopyInv
  <2>1. Storing /\ ~new_flash_json' /\ ~armed'
    BY DEF StoreInv, Aside, CopyInv, Storing
  <2>2. PICK f \in File : Whole(Upload, f) /\ Progress(f)
    BY <2>1 DEF StoreInv, CopyInv
  <2>3. Whole(Upload, f)'
    BY <2>1, <2>2 DEF Aside, Whole
  <2>4. Progress(f)'
    BY <2>2 DEF Aside, Progress
  <2>. QED
    BY <2>1, <2>3, <2>4
<1>2. KeptInv'
  BY DEF StoreInv, Aside, KeptInv, Storing, Sound, Whole
<1>3. LoadedWhole'
  BY DEF StoreInv, Aside, LoadedWhole
<1>. QED
  BY <1>1, <1>2, <1>3

LEMMA Core1Step ==
  ASSUME StoreInv, StoreType', StartCore1 \/ Host
  PROVE  StoreInv'
<1>. USE DEF Core, Set, Goto, Busy
<1>1. CASE StartCore1
  <2>1. Aside /\ WorkInv' /\ (~restless => QuietInv')
    BY <1>1 DEF StartCore1, Register, counts, At, StoreInv, StoreType, Aside, WorkInv, QuietInv, Storage, Upload
  <2>. QED
    BY <2>1, AsideStep
<1>2. CASE WriteRequest
  <2>1. Aside /\ WorkInv' /\ (~restless => QuietInv')
    BY <1>2 DEF WriteRequest, MayUpload, Operate, At, StoreInv, StoreType, Aside, WorkInv, QuietInv, Storage, Upload
  <2>. QED
    BY <2>1, AsideStep
<1>3. ASSUME NEW f \in File, DataBlock(f)
      PROVE  StoreInv'
  <2>1. Aside /\ WorkInv' /\ (~restless => QuietInv')
    BY <1>3 DEF DataBlock, Operate, At, StoreInv, StoreType, Aside, WorkInv, QuietInv, Storage, Upload
  <2>. QED
    BY <2>1, AsideStep
<1>. QED
  BY <1>1, <1>2, <1>3 DEF Host

LEMMA LockoutStep ==
  ASSUME StoreInv, StoreType', NEW c \in Core,
         StartLockout(c) \/ LockedOut(c) \/ EndLockout(c) \/ Interrupt(c)
  PROVE  StoreInv'
<1>1. /\ UNCHANGED <<phase, block, page, flash, config, cut, restless, armed, new_flash_json>>
      /\ \/ UNCHANGED lock
         \/ lock[c] = "wait" /\ lock' = [lock EXCEPT ![c] = "asked"]
         \/ lock[c] = "asked" /\ lock' = [lock EXCEPT ![c] = "held"]
         \/ lock[c] = "done" /\ lock' = [lock EXCEPT ![c] = "ending"]
  BY DEF StartLockout, LockedOut, EndLockout, Request, Acknowledged, Step, Set, Interrupt, Park, Unpark, Handler, counts
<1>2. Aside /\ WorkInv' /\ (~restless => QuietInv')
  BY <1>1 DEF StoreInv, StoreType, Aside, WorkInv, QuietInv, Core, Storage, Upload
<1>. QED
  BY <1>2, AsideStep

LEMMA Operation1Step ==
  ASSUME StoreInv, StoreType', Program(1) \/ Erased(1) \/ Written(1)
  PROVE  StoreInv'
<1>. USE DEF Core, Set, Goto, Busy, Step
<1>1. CASE Program(1)
  <2>1. Aside /\ WorkInv' /\ (~restless => QuietInv')
    BY <1>1 DEF Program, Operation, counts, StoreInv, StoreType, Aside, WorkInv, QuietInv, Storing, Storage, Upload
  <2>. QED
    BY <2>1, AsideStep
<1>2. CASE Erased(1)
  <2>1. Aside /\ WorkInv' /\ (~restless => QuietInv')
    BY <1>2 DEF Erased, NextBlock, Acknowledged, StoreInv, StoreType, Aside, WorkInv, QuietInv, Storage, Upload
  <2>. QED
    BY <2>1, AsideStep
<1>3. CASE Written(1)
  <2>1. Aside /\ WorkInv' /\ (~restless => QuietInv')
    BY <1>3 DEF Written, NextBlock, Acknowledged, StoreInv, StoreType, Aside, WorkInv, QuietInv, Storing, Storage, Upload
  <2>. QED
    BY <2>1, AsideStep
<1>. QED
  BY <1>1, <1>2, <1>3

(* Start-up reads the configuration, and writes nothing.                    *)
LEMMA StartStep ==
  ASSUME StoreInv, StoreType', StartCore0 \/ Construct \/ LaunchCore1
  PROVE  StoreInv'
<1>. USE DEF Core, Set, Goto, Busy
<1>1. /\ UNCHANGED <<lock, block, page, flash, cut, restless, armed, new_flash_json>>
      /\ phase[0] \in {"start", "construct", "launch"} /\ phase'[0] \in {"construct", "launch", "run"}
      /\ (phase'[1] = phase[1] /\ phase'[0] # "run") \/ (phase'[1] = "entry" /\ phase'[0] = "run")
  BY DEF StoreInv, StoreType, StartCore0, Construct, LaunchCore1, Register, At, Both, lockout, counts
<1>2. ~Storing /\ ~Storing'
  BY <1>1 DEF Storing
<1>3. WorkInv' /\ (~restless => QuietInv')
  BY <1>1 DEF StoreInv, StoreType, WorkInv, QuietInv
<1>4. ~restless => CopyInv' /\ KeptInv'
  <2>1. Sound' <=> Sound
    BY <1>1 DEF Sound, Storage, Whole
  <2>. QED
    BY <1>1, <1>2, <2>1 DEF StoreInv, CopyInv, KeptInv
<1>5. ~restless => LoadedWhole'
  <2>1. CASE Construct
    <3>1. Sound => Loaded # Torn
      BY BlankAssumption, BoundsAssumption DEF Sound, Loaded, Whole, Block
    <3>2. ~restless /\ ~cut => Sound
      BY <1>2 DEF StoreInv, KeptInv
    <3>3. config' = Loaded /\ cut' = cut
      BY <2>1 DEF Construct, counts
    <3>. QED
      BY <3>1, <3>2, <3>3 DEF LoadedWhole
  <2>2. CASE StartCore0
    BY <2>2, <1>1 DEF StartCore0, StoreInv, StoreType, LoadedWhole
  <2>3. CASE LaunchCore1
    BY <2>3 DEF LaunchCore1, Both, LoadedWhole
  <2>. QED
    BY <2>1, <2>2, <2>3
<1>. QED
  BY <1>1, <1>3, <1>4, <1>5 DEF StoreInv

-----------------------------------------------------------------------------
(* Core 0's store, and the resets. *)

LEMMA BeginStep ==
  ASSUME FlagCleared = TRUE, StoreInv, StoreType', CheckUpload
  PROVE  StoreInv'
<1>. USE DEF Core, Set, Goto, Busy
<1>1. CASE ~Checked
  <2>1. /\ UNCHANGED <<phase, block, page, lock, flash, config, cut, restless, armed>>
        /\ ~new_flash_json' /\ phase[0] = "run"
    BY <1>1 DEF CheckUpload, At, lockout
  <2>2. Aside /\ WorkInv' /\ (~restless => QuietInv')
    BY <2>1 DEF StoreInv, Aside, WorkInv, QuietInv, Storing, Storage, Upload
  <2>. QED
    BY <2>2, AsideStep
<1>2. CASE Checked
  <2>1. /\ phase[0] = "run" /\ phase' = [phase EXCEPT ![0] = "erase"] /\ page' = [page EXCEPT ![0] = Blank]
        /\ lock' = [lock EXCEPT ![0] = "wait"] /\ new_flash_json /\ new_flash_json' = FALSE
        /\ UNCHANGED <<block, flash, config, cut, restless, armed>>
    BY <1>2 DEF CheckUpload, Store, Operate, At
  <2>2. WorkInv' /\ (~restless => QuietInv')
    BY <2>1 DEF StoreInv, StoreType, WorkInv, QuietInv
  <2>3. PICK f \in File : Whole(Upload, f)
    BY <1>2 DEF Checked
  <2>4. Progress(f)'
    BY <2>1, BoundsAssumption DEF StoreInv, StoreType, WorkInv, Progress, Block
  <2>5. Whole(Upload, f)'
    BY <2>1, <2>3 DEF Whole, Upload
  <2>6. ~restless => ~armed'
    BY <2>1 DEF StoreInv, QuietInv
  <2>7. Storing' /\ (~restless => CopyInv')
    BY <2>1, <2>4, <2>5, <2>6 DEF CopyInv, Storing, StoreInv, StoreType
  <2>8. KeptInv' /\ LoadedWhole'
    BY <2>1, <2>7 DEF KeptInv, LoadedWhole, StoreInv, StoreType
  <2>. QED
    BY <2>1, <2>2, <2>7, <2>8 DEF StoreInv
<1>. QED
  BY <1>1, <1>2

(* A step of the store: what it has to show is the next state's progress.   *)
LEMMA StoringStep ==
  ASSUME StoreInv, StoreType', WorkInv', Storing, Storing',
         UNCHANGED <<config, cut, restless, armed, new_flash_json>>, phase'[1] = phase[1], Upload' = Upload,
         ASSUME NEW f \in File, ~restless, Whole(Upload, f), Progress(f) PROVE Progress(f)'
  PROVE  StoreInv'
<1>. SUFFICES ASSUME ~restless PROVE QuietInv' /\ CopyInv' /\ KeptInv' /\ LoadedWhole'
  BY DEF StoreInv
<1>1. CopyInv /\ QuietInv
  BY DEF StoreInv
<1>2. PICK f \in File : Whole(Upload, f) /\ Progress(f)
  BY <1>1 DEF CopyInv
<1>3. CopyInv'
  BY <1>1, <1>2 DEF CopyInv, Whole
<1>4. QuietInv'
  BY <1>1 DEF QuietInv, Storing, Busy, CopyInv
<1>5. KeptInv' /\ LoadedWhole'
  BY DEF KeptInv, LoadedWhole, Storing
<1>. QED
  BY <1>3, <1>4, <1>5

LEMMA ProgramStep ==
  ASSUME StoreInv, StoreType', Program(0)
  PROVE  StoreInv'
<1>. USE DEF Core, Set, Busy
<1>1. /\ lock[0] = "held" /\ lock' = [lock EXCEPT ![0] = "done"]
      /\ flash' = [flash EXCEPT ![0][block[0]] = Combined(flash[0][block[0]], page[0])]
      /\ UNCHANGED <<phase, block, page, config, cut, restless, armed, new_flash_json>>
  BY DEF Program, Operation, Step, counts
<1>2. phase[0] \in {"erase", "write"}
  BY <1>1 DEF StoreInv, WorkInv
<1>3. WorkInv' /\ Storing /\ Storing'
  BY <1>1, <1>2 DEF StoreInv, StoreType, WorkInv, Storing
<1>4. /\ Upload' = Upload /\ block[0] \in Block
      /\ Storage' = [Storage EXCEPT ![block[0]] = Combined(Storage[block[0]], page[0])]
      /\ Storage \in [Block -> Content]
  BY <1>1 DEF StoreInv, StoreType, Upload, Storage
<1>5. ASSUME NEW f \in File, Progress(f)
      PROVE  Progress(f)'
  <2>1. CASE phase[0] = "erase"
    <3>1. Combined(Storage[block[0]], page[0]) = Blank
      BY <1>5, <2>1 DEF Progress, Combined
    <3>. QED
      BY <1>1, <1>4, <1>5, <2>1, <3>1 DEF Progress
  <2>2. CASE phase[0] = "write"
    <3>1. Combined(Storage[block[0]], page[0]) = f
      BY <1>1, <1>4, <1>5, <2>2, BoundsAssumption DEF Progress, Combined, Block
    <3>2. ASSUME NEW b \in Block
          PROVE  Storage'[b] = IF b < block[0] \/ b = block[0] THEN f ELSE Blank
      <4>1. CASE b = block[0]
        BY <1>4, <3>1, <4>1
      <4>2. CASE b # block[0]
        BY <1>4, <1>5, <2>2, <4>2 DEF Progress
      <4>. QED
        BY <4>1, <4>2
    <3>3. lock'[0] = "done" /\ page' = page /\ block' = block /\ phase' = phase /\ page[0] = f
      BY <1>1, <1>5, <2>2 DEF Progress, StoreInv, StoreType
    <3>. QED
      BY <2>2, <3>2, <3>3 DEF Progress
  <2>. QED
    BY <1>2, <2>1, <2>2
<1>. QED
  BY <1>1, <1>3, <1>4, <1>5, StoringStep

LEMMA CopyStep ==
  ASSUME StoreInv, StoreType', CopyBlock
  PROVE  StoreInv'
<1>. USE DEF Core, Set, Busy
<1>1. /\ phase[0] = "fill" /\ phase' = [phase EXCEPT ![0] = "write"]
      /\ page' = [page EXCEPT ![0] = Upload[block[0]]]
      /\ lock[0] = "free" /\ lock' = [lock EXCEPT ![0] = "wait"]
      /\ UNCHANGED <<block, flash, config, cut, restless, armed, new_flash_json>>
  BY DEF CopyBlock, Operate, Goto, At
<1>2. WorkInv' /\ Storing /\ Storing' /\ phase'[1] = phase[1] /\ Upload' = Upload /\ Storage' = Storage
  BY <1>1 DEF StoreInv, StoreType, WorkInv, Storing, Upload, Storage
<1>3. ASSUME NEW f \in File, Whole(Upload, f), Progress(f)
      PROVE  Progress(f)'
  <2>1. phase'[0] = "write" /\ page'[0] = Upload[block[0]] /\ lock'[0] = "wait" /\ block' = block
    BY <1>1 DEF StoreInv, StoreType
  <2>2. Upload[block[0]] = f
    BY <1>3 DEF Whole, StoreInv, StoreType
  <2>. QED
    BY <1>1, <1>2, <1>3, <2>1, <2>2 DEF Progress
<1>. QED
  BY <1>1, <1>2, <1>3, StoringStep

LEMMA ErasedStep ==
  ASSUME StoreInv, StoreType', Erased(0)
  PROVE  StoreInv'
<1>. USE DEF Core, Set, Busy
<1>1. /\ phase[0] = "erase" /\ lock[0] = "ending"
      /\ block' = [block EXCEPT ![0] = IF block[0] = Blocks THEN 1 ELSE block[0] + 1]
      /\ IF block[0] < Blocks
           THEN phase' = phase /\ lock' = [lock EXCEPT ![0] = "wait"]
           ELSE phase' = [phase EXCEPT ![0] = "fill"] /\ lock' = [lock EXCEPT ![0] = "free"]
      /\ UNCHANGED <<page, flash, config, cut, restless, armed, new_flash_json>>
  BY DEF Erased, NextBlock, Acknowledged, Step, Goto
<1>2. WorkInv' /\ Storing /\ Storing' /\ phase'[1] = phase[1] /\ Upload' = Upload /\ Storage' = Storage
  BY <1>1 DEF StoreInv, StoreType, WorkInv, Storing, Upload, Storage
<1>3. ASSUME NEW f \in File, Progress(f)
      PROVE  Progress(f)'
  <2>1. block[0] \in Block /\ page'[0] = Blank
    BY <1>1, <1>3 DEF Progress, StoreInv, StoreType
  <2>2. \A b \in Block : b <= block[0] => Storage[b] = Blank
    BY <1>1, <1>3, <2>1, BoundsAssumption DEF Progress, Block
  <2>3. CASE block[0] < Blocks
    <3>1. phase'[0] = "erase" /\ block'[0] = block[0] + 1 /\ lock'[0] = "wait"
      BY <1>1, <2>1, <2>3, BoundsAssumption DEF StoreInv, StoreType, Block
    <3>2. \A b \in Block : b < block[0] + 1 => Storage[b] = Blank
      BY <2>1, <2>2, BoundsAssumption DEF Block
    <3>. QED
      BY <1>2, <2>1, <3>1, <3>2 DEF Progress
  <2>4. CASE ~(block[0] < Blocks)
    <3>1. phase'[0] = "fill" /\ block'[0] = 1
      BY <1>1, <2>1, <2>4, BoundsAssumption DEF StoreInv, StoreType, Block
    <3>2. \A b \in Block : Storage[b] = Blank /\ ~(b < 1)
      BY <2>1, <2>2, <2>4, BoundsAssumption DEF Block
    <3>. QED
      BY <1>2, <3>1, <3>2 DEF Progress
  <2>. QED
    BY <2>3, <2>4
<1>. QED
  BY <1>1, <1>2, <1>3, StoringStep

LEMMA WrittenStep ==
  ASSUME StoreInv, StoreType', Written(0)
  PROVE  StoreInv'
<1>. USE DEF Core, Set, Busy
<1>1. /\ phase[0] = "write" /\ lock[0] = "ending" /\ lock' = [lock EXCEPT ![0] = "free"]
      /\ block' = [block EXCEPT ![0] = IF block[0] = Blocks THEN 1 ELSE block[0] + 1]
      /\ UNCHANGED <<page, flash, config, restless, new_flash_json>>
  BY DEF Written, Stored, NextBlock, Acknowledged, Step
<1>2. Storing /\ block[0] \in Block /\ Upload' = Upload /\ Storage' = Storage
  BY <1>1 DEF Storing, StoreInv, StoreType, Upload, Storage
<1>3. ASSUME NEW f \in File, Progress(f)
      PROVE  \A b \in Block : Storage[b] = IF b <= block[0] THEN f ELSE Blank
  BY <1>1, <1>2, <1>3, BoundsAssumption DEF Progress, Block
<1>4. CASE block[0] < Blocks
  <2>1. phase' = [phase EXCEPT ![0] = "fill"] /\ armed' = armed /\ cut' = cut
    BY <1>4 DEF Written, Goto
  <2>2. block'[0] = block[0] + 1
    BY <1>1, <1>2, <1>4, BoundsAssumption DEF StoreInv, StoreType, Block
  <2>3. WorkInv' /\ Storing' /\ phase'[1] = phase[1] /\ phase'[0] = "fill"
    BY <1>1, <2>1 DEF StoreInv, StoreType, WorkInv, Storing
  <2>4. ASSUME NEW f \in File, Progress(f)
        PROVE  Progress(f)'
    <3>1. \A b \in Block : Storage[b] = IF b < block[0] + 1 THEN f ELSE Blank
      BY <1>2, <1>3, <2>4, BoundsAssumption DEF Block
    <3>. QED
      BY <1>2, <2>2, <2>3, <3>1 DEF Progress
  <2>. QED
    BY <1>1, <1>2, <2>1, <2>3, <2>4, StoringStep
<1>5. CASE ~(block[0] < Blocks)
  <2>1. /\ phase' = [phase EXCEPT ![0] = "run"] /\ armed' = TRUE /\ cut' = FALSE /\ block'[0] = 1
    BY <1>1, <1>2, <1>5, BoundsAssumption DEF Written, Stored, Goto, Block, StoreInv, StoreType
  <2>2. WorkInv' /\ ~Storing' /\ phase'[0] = "run" /\ phase'[1] = phase[1]
    BY <1>1, <2>1 DEF StoreInv, StoreType, WorkInv, Storing
  <2>3. ~restless => QuietInv'
    BY <1>1, <1>2, <2>2 DEF StoreInv, QuietInv, CopyInv
  <2>4. ~restless => Sound'
    <3>1. SUFFICES ASSUME ~restless PROVE Sound'
      OBVIOUS
    <3>2. PICK f \in File : Progress(f)
      BY <1>2, <3>1 DEF StoreInv, CopyInv
    <3>3. \A b \in Block : Storage[b] = f
      BY <1>2, <1>3, <1>5, <3>2, BoundsAssumption DEF Block
    <3>. QED
      BY <1>2, <3>3 DEF Sound, Whole
  <2>. QED
    BY <1>1, <2>2, <2>3, <2>4 DEF StoreInv, CopyInv, KeptInv, LoadedWhole
<1>. QED
  BY <1>4, <1>5

(* The watchdog fires with no store under way; power lost in the middle of  *)
(* one is a cut.                                                            *)
LEMMA ResetStore ==
  ASSUME StoreInv, StoreType', Reset, restless \/ ~Storing \/ cut', cut => cut'
  PROVE  StoreInv'
<1>. USE DEF Core, Set, Busy
<1>1. /\ phase' = Start0 /\ block' = Both(1, 1) /\ lock' = Both("free", "free")
      /\ ~new_flash_json' /\ ~armed' /\ restless' = restless
  BY DEF Reset
<1>2. /\ phase'[0] = "start" /\ phase'[1] = "rom" /\ ~Storing'
      /\ WorkInv' /\ QuietInv' /\ CopyInv' /\ LoadedWhole'
  BY <1>1 DEF Both, Start0, WorkInv, QuietInv, CopyInv, Storing, LoadedWhole
<1>3. ~restless => KeptInv'
  <2>1. SUFFICES ASSUME ~restless, ~cut' PROVE Sound'
    BY DEF KeptInv
  <2>2. ~Storing
    BY <2>1
  <2>3. Storage' = Storage
    <3>1. lock[0] # "held"
      BY <2>2 DEF Storing, StoreInv, WorkInv
    <3>. QED
      BY <3>1 DEF Reset, Storage
  <2>. QED
    BY <2>1, <2>2, <2>3 DEF StoreInv, KeptInv, Sound, Whole
<1>. QED
  BY <1>1, <1>2, <1>3 DEF StoreInv

LEMMA StoreStep ==
  ASSUME FlagCleared = TRUE, StoreInv, [Next]_vars
  PROVE  StoreInv'
<1>0. StoreType'
  BY StoreTypeStep DEF StoreInv
<1>1. CASE Core0 /\ ~FlashOp(0)
  BY <1>0, <1>1, StartStep, BeginStep, CopyStep DEF Core0
<1>2. ASSUME NEW c \in Core, FlashOp(c)
      PROVE  StoreInv'
  <2>1. CASE c = 0
    BY <1>0, <1>2, <2>1, LockoutStep, ProgramStep, ErasedStep, WrittenStep DEF FlashOp
  <2>2. CASE c = 1
    BY <1>0, <1>2, <2>2, LockoutStep, Operation1Step DEF FlashOp
  <2>. QED
    BY <2>1, <2>2 DEF Core
<1>3. CASE StartCore1 \/ Host \/ \E c \in Core : Interrupt(c)
  BY <1>0, <1>3, Core1Step, LockoutStep
<1>4. CASE Reboot
  <2>1. ~restless => ~Storing
    BY <1>4 DEF Reboot, StoreInv, QuietInv, Storing
  <2>. QED
    BY <1>0, <1>4, <2>1, ResetStore DEF Reboot
<1>5. CASE PowerLoss
  BY <1>0, <1>5, ResetStore DEF PowerLoss
<1>6. CASE Idle \/ UNCHANGED vars
  <2>1. UNCHANGED <<phase, block, page, lock, flash, config, cut, restless, armed, new_flash_json>>
    BY <1>6 DEF Idle, vars, ram, lockout, counts
  <2>2. Aside /\ WorkInv' /\ (~restless => QuietInv')
    BY <2>1 DEF StoreInv, Aside, WorkInv, QuietInv, Storage, Upload
  <2>. QED
    BY <1>0, <2>2, AsideStep
<1>. QED
  BY <1>1, <1>2, <1>3, <1>4, <1>5, <1>6 DEF Next, Core0, Core1, Core

(* If Remora::run clears new_flash_json before it stores, then for areas of *)
(* any size, any number of uploads and any number of power losses, a host   *)
(* that waits finds the firmware with a whole configuration, unless power   *)
(* was lost in the middle of a store.                                       *)
THEOREM LoadedTheorem ==
  ASSUME FlagCleared = TRUE
  PROVE  Spec => []LoadedWhole
<1>1. StoreInv => (~restless => LoadedWhole)
  BY DEF StoreInv
<1>2. StoreInv => LoadedWhole
  BY <1>1 DEF LoadedWhole
<1>. QED
  BY <1>2, StoreInit, StoreStep, PTL DEF Spec
=============================================================================
