------------------------------ MODULE FlashWriter ------------------------------
(***************************************************************************)
(* The buffered flash writer of hal_utils.cpp.  Callers write bytes; the   *)
(* writer collects them in one static page buffer and programs the page    *)
(* when it is full, when an address leaves it, or on flush_write_buffer(). *)
(* NOR flash: erasing sets every bit of a sector, programming can only     *)
(* clear bits.  A byte is the set of its one bits.                         *)
(*                                                                         *)
(* Both cores may call: core 1 while it receives an upload, core 0 when it *)
(* stores the configuration.  While one erases or programs, the other is   *)
(* parked, so those two are atomic; nothing else is.                       *)
(***************************************************************************)
EXTENDS Integers, FiniteSets

CONSTANTS
  Core,
  Page, Offset,   \* pages of flash, bytes of a page
  NoPage,         \* UINT32_MAX: no page is open
  Bits,           \* bits of a byte
  Sectors,        \* sets of pages that are erased together
  Region          \* the pages each core writes and erases

ASSUME NoPageAssumption  == NoPage \notin Page
ASSUME OffsetAssumption  == IsFiniteSet(Offset) /\ Offset # {}
ASSUME SectorsAssumption == Sectors \subseteq SUBSET Page
ASSUME RegionAssumption  == Region \in [Core -> SUBSET Page]

VARIABLES
  flash,
  page_buf,           \* s_page_buf
  page_flash_offset,  \* s_page_flash_offset, as a page
  page_pos,           \* s_page_pos
  pc, arg,            \* each core's place in the writer, and its argument
  return,             \* where flush_write_buffer() returns to
  allowed             \* history: what each byte may hold once it is in flash

buffer == <<page_buf, page_flash_offset, page_pos>>
cores  == <<pc, arg, return>>
vars   == <<flash, buffer, cores, allowed>>

Byte   == SUBSET Bits
Erased == [o \in Offset |-> Bits]
Args   == [page : Page, offset : Offset, data : Byte]

FLASH_PAGE_SIZE == Cardinality(Offset)

Init ==
  /\ flash \in [Page -> [Offset -> {{}, Bits}]]
  /\ page_buf = [o \in Offset |-> {}] /\ page_flash_offset = NoPage /\ page_pos = 0
  /\ pc = [c \in Core |-> "idle"] /\ return = [c \in Core |-> "idle"]
  /\ arg \in [Core -> Args]
  /\ allowed = [p \in Page |-> [o \in Offset |-> {flash[p][o]}]]

Goto(c, l) == pc' = [pc EXCEPT ![c] = l]

-----------------------------------------------------------------------------
(* write_to_flash_byte(); half-words and words are two and four of them. *)

Call(c, a) ==
  /\ pc[c] = "idle" /\ a.page \in Region[c]
  /\ Goto(c, "compare") /\ arg' = [arg EXCEPT ![c] = a]
  /\ UNCHANGED <<flash, buffer, return, allowed>>

Compare(c) ==
  /\ pc[c] = "compare"
  /\ IF arg[c].page = page_flash_offset
       THEN Goto(c, "put") /\ UNCHANGED return
       ELSE Goto(c, "flush") /\ return' = [return EXCEPT ![c] = "open"]
  /\ UNCHANGED <<flash, buffer, arg, allowed>>

NotBlanked == page_buf                                        \* mutant
Blank == Erased

Open(c) ==
  /\ pc[c] = "open" /\ Goto(c, "put")
  /\ page_buf' = Blank /\ page_flash_offset' = arg[c].page /\ page_pos' = 0
  /\ UNCHANGED <<flash, arg, return, allowed>>

FullOffByOne == page_pos' > FLASH_PAGE_SIZE                   \* mutant
Full == page_pos' >= FLASH_PAGE_SIZE

(* page_pos counts writes, not bytes: a byte written twice counts twice.    *)
Put(c) ==
  LET a == arg[c] IN
    /\ pc[c] = "put"
    /\ page_buf' = [page_buf EXCEPT ![a.offset] = a.data]
    /\ page_pos' = page_pos + 1
    /\ IF Full
         THEN Goto(c, "flush") /\ return' = [return EXCEPT ![c] = "idle"]
         ELSE Goto(c, "idle") /\ UNCHANGED return
    /\ allowed' = [allowed EXCEPT ![a.page][a.offset] = IF @ = {Bits} THEN {a.data} ELSE Byte]
    /\ UNCHANGED <<flash, page_flash_offset, arg>>

-----------------------------------------------------------------------------
(* flush_write_buffer(): called by the writer itself, or by lock_flash(). *)

Flush(c) ==
  /\ pc[c] = "idle"
  /\ Goto(c, "flush") /\ return' = [return EXCEPT ![c] = "idle"]
  /\ UNCHANGED <<flash, buffer, arg, allowed>>

Programmed(p) == [o \in Offset |-> flash[p][o] \cap page_buf[o]]

ProgramNothing(c) == UNCHANGED flash                          \* mutant
Program(c) == flash' = [flash EXCEPT ![page_flash_offset] = Programmed(page_flash_offset)]

FlushProgram(c) ==
  /\ pc[c] = "flush"
  /\ IF page_flash_offset = NoPage
       THEN Goto(c, return[c]) /\ UNCHANGED flash
       ELSE Goto(c, "close") /\ Program(c)
  /\ UNCHANGED <<buffer, arg, return, allowed>>

FlushClose(c) ==
  /\ pc[c] = "close" /\ Goto(c, return[c])
  /\ page_flash_offset' = NoPage /\ page_pos' = 0
  /\ UNCHANGED <<flash, page_buf, arg, return, allowed>>

-----------------------------------------------------------------------------
(* mass_erase_*_storage(): sector by sector.  The callers have flushed. *)
EraseSector(c, s) ==
  /\ pc[c] = "idle" /\ s \subseteq Region[c] /\ page_flash_offset \notin s
  /\ flash'   = [p \in Page |-> IF p \in s THEN Erased ELSE flash[p]]
  /\ allowed' = [p \in Page |-> IF p \in s THEN [o \in Offset |-> {Bits}] ELSE allowed[p]]
  /\ UNCHANGED <<buffer, cores>>

(* Power is lost, or pru_reboot(): the open page is gone. *)
Reset ==
  /\ page_buf' = [o \in Offset |-> {}] /\ page_flash_offset' = NoPage /\ page_pos' = 0
  /\ pc' = [c \in Core |-> "idle"] /\ return' = [c \in Core |-> "idle"]
  /\ allowed' = [p \in Page |-> [o \in Offset |->
                   IF p = page_flash_offset THEN {flash[p][o]} ELSE allowed[p][o]]]
  /\ UNCHANGED <<flash, arg>>

Next ==
  \/ \E c \in Core :
       \/ \E a \in Args : Call(c, a)
       \/ Compare(c) \/ Open(c) \/ Put(c)
       \/ Flush(c) \/ FlushProgram(c) \/ FlushClose(c)
       \/ \E s \in Sectors : EraseSector(c, s)
  \/ Reset

Spec == Init /\ [][Next]_vars

-----------------------------------------------------------------------------
TypeOK ==
  /\ flash \in [Page -> [Offset -> Byte]]
  /\ page_buf \in [Offset -> Byte] /\ page_flash_offset \in Page \cup {NoPage}
  /\ page_pos \in 0 .. FLASH_PAGE_SIZE
  /\ pc \in [Core -> {"idle", "compare", "open", "put", "flush", "close"}]
  /\ arg \in [Core -> Args] /\ return \in [Core -> {"idle", "open"}]
  /\ allowed \in [Page -> [Offset -> SUBSET Byte]]

(* "Call flush_write_buffer() after the last write to commit any partial    *)
(* page": with nobody in the writer and no page open, flash holds what was  *)
(* written, byte for byte, and nothing else was touched.  A byte written    *)
(* twice since its sector was erased may hold anything.                     *)
FlushedIsDurable ==
  page_flash_offset = NoPage /\ (\A c \in Core : pc[c] = "idle")
    => \A p \in Page, o \in Offset : flash[p][o] \in allowed[p][o]

(* What FlashStore sees: the open page is read through the buffer. *)
Overlay == [p \in Page |-> IF p = page_flash_offset THEN Programmed(p) ELSE flash[p]]

Store == INSTANCE FlashStore WITH bytes <- Overlay, durable <- flash

(* With one core at a time the page buffer is not to be seen: writes, power *)
(* losses and erasures look as if each write_to_flash_byte() went to flash  *)
(* by itself.                                                               *)
ImplementsStore == Store!Spec
=============================================================================
