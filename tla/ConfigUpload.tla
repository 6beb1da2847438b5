----------------------------- MODULE ConfigUpload -----------------------------
(***************************************************************************)
(* The Ethernet firmware from reset to reset: core 0 starts, reads its     *)
(* configuration from flash and launches core 1; core 1 receives a new     *)
(* configuration into the upload area; core 0 checks it, copies it to the  *)
(* storage area and reboots.  Whoever erases or programs flash parks the   *)
(* other core with the SDK's multicore lockout.  Power may be lost.        *)
(*                                                                         *)
(* An area is a row of blocks, each erased and each programmed in one      *)
(* flash operation; the first holds the length.  Core 0 writes the storage *)
(* area and core 1 the upload area: areas go by the number of their core.  *)
(***************************************************************************)
EXTENDS Integers

CONSTANTS
  File,          \* configurations a host may upload
  Blank, Torn,   \* an erased block; one that was half written
  Default,       \* the built-in configuration
  Blocks,        \* blocks of an area
  MaxUploads, MaxCuts,   \* bounds: uploads begun, power losses
  FlagCleared    \* Remora::run clears new_flash_json before it stores

ASSUME BlankAssumption  == {Blank, Torn, Default} \cap File = {} /\ Torn \notin {Blank, Default}
ASSUME BoundsAssumption == Blocks \in Nat \ {0} /\ MaxUploads \in Nat /\ MaxCuts \in Nat

VARIABLES
  phase,           \* where each core is
  block, page,     \* the block its flash operation is for; what will be in it
  registered,      \* multicore_lockout_victim_init() was called
  lock,            \* a core's way through start_blocking .. end_blocking
  mutex, fifo,     \* the SDK's mutex; the word in the FIFO towards each core
  parked,          \* held by the lockout handler
  flash,
  new_flash_json,  \* core 1 to core 0: an upload is complete
  armed,           \* watchdog_reboot() was called
  config,          \* what the firmware runs with
  uploads, cuts,   \* counted for the bounds
  cut,             \* history: a store was begun and power lost before its end
  restless         \* this host may upload again before the firmware is back

lockout == <<registered, lock, mutex, fifo, parked>>
ram     == <<phase, block, page, lockout, new_flash_json, armed>>
counts  == <<uploads, cuts, cut, restless>>
vars    == <<ram, flash, config, counts>>

Core  == {0, 1}
Block == 1 .. Blocks
Other(c) == 1 - c
Nobody   == -1
Storage  == flash[0]
Upload   == flash[1]
Whole(area, f) == \A b \in Block : area[b] = f

Both(x, y) == [c \in Core |-> IF c = 0 THEN x ELSE y]
Set(f, c, x) == [f EXCEPT ![c] = x]

Start0 == Both("start", "rom")    \* core 1 waits in the boot ROM

Init ==
  /\ phase = Start0 /\ block = Both(1, 1) /\ page = Both(Blank, Blank)
  /\ registered = Both(FALSE, FALSE) /\ lock = Both("free", "free") /\ mutex = Nobody
  /\ fifo = Both("none", "none") /\ parked = Both(FALSE, FALSE)
  /\ \E f \in File \cup {Blank} : flash = Both([b \in Block |-> f], [b \in Block |-> Blank])
  /\ new_flash_json = FALSE /\ armed = FALSE /\ config = Default
  /\ uploads = 0 /\ cuts = 0 /\ cut = FALSE /\ restless \in BOOLEAN

(* A core runs its own code unless it is parked or waits for the other.     *)
At(c, p)   == phase[c] = p /\ lock[c] = "free" /\ ~parked[c]
Goto(c, p) == phase' = Set(phase, c, p)

-----------------------------------------------------------------------------
(* Start-up. *)

Register(c) ==
  /\ registered' = Set(registered, c, TRUE)
  /\ UNCHANGED <<block, page, lock, mutex, fifo, parked, new_flash_json, armed, flash, config, counts>>

StartCore0 == At(0, "start") /\ Goto(0, "construct") /\ Register(0)

Loaded ==
  IF Storage[1] = Blank THEN Default
  ELSE IF \E f \in File : Whole(Storage, f) THEN Storage[1] ELSE Torn

(* The Remora constructor. *)
Construct ==
  /\ At(0, "construct") /\ Goto(0, "launch") /\ config' = Loaded
  /\ UNCHANGED <<block, page, lockout, new_flash_json, armed, flash, counts>>

LaunchCore1 ==
  /\ At(0, "launch") /\ phase' = Both("run", "entry")
  /\ UNCHANGED <<block, page, lockout, new_flash_json, armed, flash, config, counts>>

StartCore1Deaf == At(1, "entry") /\ Goto(1, "poll") /\ Register(0)        \* mutant
StartCore1 == At(1, "entry") /\ Goto(1, "poll") /\ Register(1)

-----------------------------------------------------------------------------
(* One flash operation: multicore_lockout_start_blocking(), the operation,  *)
(* multicore_lockout_end_blocking().                                        *)

Step(c, from, to) == lock[c] = from /\ lock' = Set(lock, c, to)

Request(c, from, word, to) ==
  /\ mutex = Nobody /\ mutex' = c /\ ~parked[c]
  /\ Step(c, from, to) /\ fifo' = Set(fifo, Other(c), word)
  /\ UNCHANGED <<phase, block, page, registered, parked, new_flash_json, armed, flash, config, counts>>

Acknowledged(c, from, to) ==
  /\ fifo[c] = "ack" /\ fifo' = Set(fifo, c, "none") /\ mutex' = Nobody
  /\ Step(c, from, to)
  /\ UNCHANGED <<page, registered, parked, flash, config, uploads, cuts, restless>>

StartUnasked(c) ==                                            \* mutant
  /\ Step(c, "wait", "held")
  /\ UNCHANGED <<phase, block, page, registered, mutex, fifo, parked, new_flash_json, armed, flash, config, counts>>
StartLockout(c) == Request(c, "wait", "start", "asked")
LockedOut(c)    == Acknowledged(c, "asked", "held") /\ UNCHANGED <<phase, block, new_flash_json, armed, cut>>

(* Erasing sets every bit, programming only clears bits.                    *)
Combined(old, new) == IF new = Blank \/ old = Blank THEN new ELSE Torn

Operation(c, from) ==
  /\ Step(c, from, "done")
  /\ flash' = [flash EXCEPT ![c][block[c]] = Combined(@, page[c])]
  /\ UNCHANGED <<phase, block, page, registered, mutex, fifo, parked, new_flash_json, armed, config, counts>>

Program(c) == Operation(c, "held")

EndUnsaid(c) == Request(c, "done", "none", "free")            \* mutant
EndLockout(c) == Request(c, "done", "end", "ending")

(* multicore_lockout_handler() of the SDK, on the other core.               *)
Handler(c, word, p) ==
  /\ fifo[c] = word /\ fifo' = [fifo EXCEPT ![c] = "none", ![Other(c)] = "ack"]
  /\ parked[c] = ~p /\ parked' = Set(parked, c, p)
  /\ UNCHANGED <<phase, block, page, registered, lock, mutex, new_flash_json, armed, flash, config, counts>>

Park(c)   == registered[c] /\ lock[c] \in {"free", "wait", "done"} /\ Handler(c, "start", TRUE)
Unpark(c) == Handler(c, "end", FALSE)

-----------------------------------------------------------------------------
(* The operations: an area is erased block by block, then filled.           *)

Operate(c, p, content) ==
  /\ Goto(c, p) /\ page' = Set(page, c, content) /\ lock' = Set(lock, c, "wait")
  /\ UNCHANGED <<registered, mutex, fifo, parked, armed, flash, config, cuts, restless>>

NextBlock(c) == block' = Set(block, c, IF block[c] = Blocks THEN 1 ELSE block[c] + 1)

Erased(c) ==
  /\ phase[c] = "erase" /\ NextBlock(c)
  /\ IF block[c] < Blocks
       THEN Acknowledged(c, "ending", "wait") /\ UNCHANGED phase
       ELSE Acknowledged(c, "ending", "free") /\ Goto(c, "fill")
  /\ UNCHANGED <<new_flash_json, armed, cut>>

StoredNoReboot ==                                             \* mutant
  Goto(0, "run") /\ cut' = FALSE /\ UNCHANGED <<new_flash_json, armed>>
Stored == Goto(0, "run") /\ armed' = TRUE /\ cut' = FALSE /\ UNCHANGED new_flash_json

(* The upload ends with new_flash_json; the store with watchdog_reboot(),   *)
(* which returns, so that core 0 is back in Remora::run for half a second.  *)
Written(c) ==
  /\ phase[c] = "write" /\ NextBlock(c) /\ Acknowledged(c, "ending", "free")
  /\ IF block[c] < Blocks
       THEN Goto(c, "fill") /\ UNCHANGED <<new_flash_json, armed, cut>>
       ELSE IF c = 1
         THEN Goto(1, "poll") /\ new_flash_json' = TRUE /\ UNCHANGED <<armed, cut>>
         ELSE Stored

(* Core 1: the TFTP server of remora-core, and the host behind it.  A host  *)
(* that breaks off starts again with a new request.                         *)
MayUpload == restless \/ (~new_flash_json /\ phase[0] = "run" /\ ~armed)

WriteRequest ==
  /\ At(1, "poll") \/ At(1, "fill")
  /\ MayUpload /\ uploads < MaxUploads /\ uploads' = uploads + 1
  /\ Operate(1, "erase", Blank) /\ block' = Set(block, 1, 1)
  /\ UNCHANGED <<new_flash_json, cut>>

DataBlock(f) ==
  /\ At(1, "fill") /\ (block[1] > 1 => f = Upload[1])
  /\ Operate(1, "write", f)
  /\ UNCHANGED <<block, new_flash_json, uploads, cut>>

(* Core 0: Remora::run. *)
Checked == \E f \in File : Whole(Upload, f)

StoreUnerased ==                                              \* mutant
  Goto(0, "fill") /\ UNCHANGED <<page, lockout, armed, flash, config, cuts, restless>>
Store == Operate(0, "erase", Blank)

CheckUpload ==
  /\ At(0, "run") /\ new_flash_json
  /\ IF Checked
       THEN Store /\ new_flash_json' = ~FlagCleared
       ELSE /\ new_flash_json' = FALSE
            /\ UNCHANGED <<phase, page, lockout, armed, flash, config, cuts, restless>>
  /\ UNCHANGED <<block, uploads, cut>>

CopyBlock ==
  /\ At(0, "fill") /\ Operate(0, "write", Upload[block[0]])
  /\ UNCHANGED <<block, new_flash_json, uploads, cut>>

-----------------------------------------------------------------------------
(* The watchdog of pru_reboot(), or a power loss.                           *)
Storing == phase[0] \in {"erase", "fill", "write"}

Reset ==
  /\ phase' = Start0 /\ block' = Both(1, 1) /\ page' = Both(Blank, Blank)
  /\ registered' = Both(FALSE, FALSE) /\ lock' = Both("free", "free") /\ mutex' = Nobody
  /\ fifo' = Both("none", "none") /\ parked' = Both(FALSE, FALSE)
  /\ new_flash_json' = FALSE /\ armed' = FALSE
  /\ \E torn \in SUBSET {c \in Core : lock[c] = "held"} :
       flash' = [c \in Core |-> IF c \in torn THEN Set(flash[c], block[c], Torn) ELSE flash[c]]
  /\ UNCHANGED <<config, uploads, restless>>

Reboot    == armed /\ Reset /\ UNCHANGED <<cuts, cut>>
PowerLoss == cuts < MaxCuts /\ cuts' = cuts + 1 /\ cut' = (cut \/ Storing) /\ Reset

-----------------------------------------------------------------------------
FlashOp(c) ==
  StartLockout(c) \/ LockedOut(c) \/ Program(c) \/ EndLockout(c) \/ Erased(c) \/ Written(c)

Core0 == StartCore0 \/ Construct \/ LaunchCore1 \/ CheckUpload \/ CopyBlock \/ FlashOp(0)
Core1 == StartCore1 \/ FlashOp(1)
Interrupt(c) == Park(c) \/ Unpark(c)
Host  == WriteRequest \/ \E f \in File : DataBlock(f)

(* Core 0 polls the flag, core 1 the network; the host may go away.         *)
Idle == (At(0, "run") \/ At(1, "poll") \/ At(1, "fill")) /\ UNCHANGED vars

Next == Core0 \/ Core1 \/ (\E c \in Core : Interrupt(c)) \/ Host \/ Reboot \/ PowerLoss \/ Idle

Fairness ==
  /\ WF_vars(Core0) /\ WF_vars(Core1) /\ WF_vars(Reboot)
  /\ \A c \in Core : WF_vars(Interrupt(c))

Spec == Init /\ [][Next]_vars /\ Fairness

-----------------------------------------------------------------------------
(* hal_utils.cpp:16: while a core erases or programs, the other does not    *)
(* fetch from flash: it is parked, or has not left the boot ROM.            *)
FlashAlone == \A c \in Core : lock[c] = "held" => parked[Other(c)] \/ phase[Other(c)] = "rom"

(* A core that is parked has a requester that will release it: no core      *)
(* holds the other without being about to operate, and never each other.    *)
ParkedForOne == \A c \in Core : parked[c] => lock[Other(c)] \in {"asked", "held", "done", "ending"}

(* No lockout waits for ever: for a core that never registered, or for one  *)
(* that waits itself.                                                       *)
LockoutEnds == \A c \in Core : lock[c] = "wait" ~> lock[c] = "free"

(* Only power lost in the middle of a store leaves a configuration behind   *)
(* that is neither a file as it was uploaded nor the built-in one.          *)
LoadedWhole == phase[0] = "launch" /\ config = Torn /\ ~restless => cut

(* A complete upload is what the firmware runs with in the end, unless      *)
(* power is lost or another upload is begun before.                         *)
UploadTakesEffect ==
  \A f \in File, n \in 0 .. MaxCuts, u \in 0 .. MaxUploads :
    new_flash_json /\ ~restless /\ Whole(Upload, f) /\ cuts = n /\ uploads = u
      ~> config = f \/ cuts > n \/ uploads > u
===============================================================================
