-------------------------- MODULE FlashWriter_proofs --------------------------
(***************************************************************************)
(* Proofs about FlashWriter with one core, for any flash and any page size.*)
(* The two-core instance violates both theorems; the assumption below is   *)
(* what they depend on.                                                    *)
(***************************************************************************)
EXTENDS FlashWriter, FiniteSetTheorems, TLAPS

(* What a byte is worth to a caller: its flash seen through the buffer. *)
OverlayInv == \A p \in Page, o \in Offset : Overlay[p][o] \in allowed[p][o]

(* Between Compare and Put the open page is the caller's own; between       *)
(* FlushProgram and FlushClose the buffer has nothing more to clear.        *)
PageInv(c) ==
  /\ pc[c] = "open" => page_flash_offset = NoPage
  /\ pc[c] = "put" => page_flash_offset = arg[c].page
  /\ pc[c] = "close" => /\ page_flash_offset \in Page
                        /\ \A o \in Offset : flash[page_flash_offset][o] \subseteq page_buf[o]

(* There is room for one more byte whenever one may be put. *)
PosInv(c) ==
  /\ page_flash_offset = NoPage => page_pos = 0
  /\ pc[c] \notin {"flush", "close"} => page_pos < FLASH_PAGE_SIZE

IInv(c) == TypeOK /\ OverlayInv /\ PageInv(c) /\ PosInv(c)

-----------------------------------------------------------------------------
LEMMA PageSize == FLASH_PAGE_SIZE \in Nat \ {0}
BY OffsetAssumption, FS_CardinalityType, FS_EmptySet DEF FLASH_PAGE_SIZE

LEMMA InitInv ==
  ASSUME NEW c, Core = {c}, Init
  PROVE  IInv(c)
<1>. USE NoPageAssumption DEF Init
<1>1. TypeOK
  <2>1. flash \in [Page -> [Offset -> Byte]] /\ page_buf \in [Offset -> Byte]
    BY DEF Byte
  <2>2. allowed \in [Page -> [Offset -> SUBSET Byte]]
    BY <2>1
  <2>. QED
    BY <2>1, <2>2, PageSize DEF TypeOK
<1>2. OverlayInv
  BY DEF OverlayInv, Overlay
<1>3. PageInv(c) /\ PosInv(c)
  BY PageSize DEF PageInv, PosInv
<1>. QED
  BY <1>1, <1>2, <1>3 DEF IInv

(* Each action preserves the inductive invariant. *)
LEMMA CallInv ==
  ASSUME NEW c, Core = {c}, IInv(c), NEW a \in Args, Call(c, a)
  PROVE  IInv(c)'
<1>. USE DEF Call, Goto, IInv, buffer
<1>1. TypeOK'
  BY DEF TypeOK
<1>2. OverlayInv'
  BY DEF OverlayInv, Overlay, Programmed
<1>3. PageInv(c)' /\ PosInv(c)'
  BY DEF PageInv, PosInv, TypeOK, FLASH_PAGE_SIZE
<1>. QED
  BY <1>1, <1>2, <1>3

LEMMA CompareInv ==
  ASSUME NEW c, Core = {c}, IInv(c), Compare(c)
  PROVE  IInv(c)'
<1>. USE DEF Compare, Goto, IInv, buffer
<1>1. TypeOK'
  BY DEF TypeOK
<1>2. OverlayInv'
  BY DEF OverlayInv, Overlay, Programmed
<1>3. PageInv(c)' /\ PosInv(c)'
  BY DEF PageInv, PosInv, TypeOK, FLASH_PAGE_SIZE
<1>. QED
  BY <1>1, <1>2, <1>3

LEMMA OpenInv ==
  ASSUME NEW c, Core = {c}, IInv(c), Open(c)
  PROVE  IInv(c)'
<1>. USE DEF Open, Goto, IInv
<1>1. TypeOK'
  BY PageSize DEF TypeOK, Args, Blank, Erased, Byte
<1>2. Overlay' = Overlay
  <2>1. ASSUME NEW p \in Page PROVE flash[p] = [o \in Offset |-> flash[p][o] \cap Blank[o]]
    BY DEF TypeOK, Blank, Erased, Byte
  <2>2. ASSUME NEW p \in Page PROVE Programmed(p)' = flash[p]
    BY <2>1 DEF Programmed
  <2>. QED
    BY <2>2, NoPageAssumption DEF Overlay, PageInv
<1>3. OverlayInv'
  BY <1>2 DEF OverlayInv
<1>4. PageInv(c)' /\ PosInv(c)'
  BY PageSize, NoPageAssumption DEF PageInv, PosInv, TypeOK, Args, FLASH_PAGE_SIZE
<1>. QED
  BY <1>1, <1>3, <1>4

(* What Put does to one byte: it is the data if the byte was erased. *)
LEMMA PutByte ==
  ASSUME NEW c, Core = {c}, IInv(c), Put(c)
  PROVE  /\ Overlay' = [Overlay EXCEPT ![arg[c].page][arg[c].offset] =
                          flash[arg[c].page][arg[c].offset] \cap arg[c].data]
         /\ Overlay \in [Page -> [Offset -> Byte]]
<1>. DEFINE a == arg[c]
<1>1. a.page \in Page /\ a.offset \in Offset /\ a.data \in Byte /\ page_flash_offset = a.page
  BY DEF IInv, TypeOK, Args, PageInv, Put
<1>2. flash \in [Page -> [Offset -> Byte]] /\ page_buf \in [Offset -> Byte]
  BY DEF IInv, TypeOK
<1>3. /\ page_buf' = [page_buf EXCEPT ![a.offset] = a.data]
      /\ flash' = flash /\ page_flash_offset' = page_flash_offset
  BY DEF Put
<1>. HIDE DEF a
<1>4. Programmed(a.page) \in [Offset -> Byte]
  BY <1>1, <1>2 DEF Programmed, Byte
<1>5. [o \in Offset |-> flash'[a.page][o] \cap page_buf'[o]]
        = [Programmed(a.page) EXCEPT ![a.offset] = flash[a.page][a.offset] \cap a.data]
  <2>1. ASSUME NEW o \in Offset
        PROVE  flash'[a.page][o] \cap page_buf'[o]
                 = [Programmed(a.page) EXCEPT ![a.offset] = flash[a.page][a.offset] \cap a.data][o]
    BY <1>1, <1>2, <1>3 DEF Programmed
  <2>. QED
    BY <2>1 DEF Programmed
<1>6. Overlay \in [Page -> [Offset -> Byte]] /\ Overlay[a.page] = Programmed(a.page)
  BY <1>2, <1>4, <1>1 DEF Overlay
<1>. DEFINE v == flash[a.page][a.offset] \cap a.data
            new == [Overlay EXCEPT ![a.page][a.offset] = v]
<1>7. ASSUME NEW p \in Page PROVE Overlay'[p] = new[p]
  <2>1. CASE p = a.page
    <3>1. Overlay'[p] = [o \in Offset |-> flash'[a.page][o] \cap page_buf'[o]]
      BY <1>1, <1>3, <2>1 DEF Overlay, Programmed
    <3>2. new[p] = [Overlay[a.page] EXCEPT ![a.offset] = v]
      BY <1>6, <2>1
    <3>. QED
      BY <3>1, <3>2, <1>5, <1>6
  <2>2. CASE p # a.page
    BY <1>1, <1>3, <1>6, <2>2 DEF Overlay
  <2>. QED
    BY <2>1, <2>2
<1>8. Overlay' = new
  <2>1. Overlay' = [p \in Page |-> Overlay'[p]]
    BY DEF Overlay
  <2>2. new = [p \in Page |-> new[p]]
    BY <1>6
  <2>. HIDE DEF new
  <2>. QED
    BY <2>1, <2>2, <1>7
<1>. QED
  BY <1>6, <1>8 DEF a

LEMMA PutInv ==
  ASSUME NEW c, Core = {c}, IInv(c), Put(c)
  PROVE  IInv(c)'
<1>. DEFINE a == arg[c]
<1>1. a.page \in Page /\ a.offset \in Offset /\ a.data \in Byte /\ page_flash_offset = a.page
  BY DEF IInv, TypeOK, Args, PageInv, Put
<1>2. TypeOK'
  <2>1. page_buf' \in [Offset -> Byte] /\ page_pos' \in 0 .. FLASH_PAGE_SIZE /\ FLASH_PAGE_SIZE' = FLASH_PAGE_SIZE
    BY <1>1, PageSize DEF IInv, TypeOK, PosInv, Put, FLASH_PAGE_SIZE
  <2>2. allowed' \in [Page -> [Offset -> SUBSET Byte]]
    BY <1>1 DEF IInv, TypeOK, Put
  <2>. QED
    BY <2>1, <2>2 DEF IInv, TypeOK, Put, Goto
<1>3. OverlayInv'
  <2>. SUFFICES ASSUME NEW p \in Page, NEW o \in Offset
                PROVE  Overlay'[p][o] \in allowed'[p][o]
    BY DEF OverlayInv
  <2>1. Overlay[p][o] \in allowed[p][o]
    BY DEF IInv, OverlayInv
  <2>2. allowed \in [Page -> [Offset -> SUBSET Byte]]
    BY DEF IInv, TypeOK
  <2>3. allowed' = [allowed EXCEPT ![a.page][a.offset] = IF @ = {Bits} THEN {a.data} ELSE Byte]
    BY DEF Put
  <2>4. /\ Overlay' = [Overlay EXCEPT ![a.page][a.offset] = flash[a.page][a.offset] \cap a.data]
        /\ Overlay \in [Page -> [Offset -> Byte]]
    BY PutByte
  <2>. HIDE DEF a
  <2>5. CASE p = a.page /\ o = a.offset
    <3>1. Overlay'[p][o] = flash[p][o] \cap a.data
      BY <2>5, <1>1, <2>4
    <3>2. allowed'[p][o] = IF allowed[p][o] = {Bits} THEN {a.data} ELSE Byte
      BY <2>2, <2>3, <2>5
    <3>3. allowed[p][o] = {Bits} => flash[p][o] = Bits
      <4>1. Overlay[p][o] = flash[p][o] \cap page_buf[o]
        BY <1>1, <2>5 DEF Overlay, Programmed
      <4>2. flash[p][o] \in Byte
        BY DEF IInv, TypeOK
      <4>. QED
        BY <4>1, <4>2, <2>1 DEF Byte
    <3>. QED
      BY <3>1, <3>2, <3>3, <1>1 DEF Byte
  <2>6. CASE ~(p = a.page /\ o = a.offset)
    <3>1. Overlay'[p][o] = Overlay[p][o]
      BY <2>6, <1>1, <2>4
    <3>2. allowed'[p][o] = allowed[p][o]
      BY <2>2, <2>3, <2>6, <1>1
    <3>. QED
      BY <3>1, <3>2, <2>1
  <2>. QED
    BY <2>5, <2>6
<1>4. PageInv(c)'
  BY DEF IInv, TypeOK, PageInv, Put, Goto
<1>5. PosInv(c)'
  BY <1>1, PageSize, NoPageAssumption DEF IInv, TypeOK, PosInv, Put, Goto, Full, FLASH_PAGE_SIZE
<1>. QED
  BY <1>2, <1>3, <1>4, <1>5 DEF IInv

LEMMA FlushInv ==
  ASSUME NEW c, Core = {c}, IInv(c), Flush(c)
  PROVE  IInv(c)'
<1>. USE DEF Flush, Goto, IInv, buffer
<1>1. TypeOK'
  BY DEF TypeOK
<1>2. OverlayInv'
  BY DEF OverlayInv, Overlay, Programmed
<1>3. PageInv(c)' /\ PosInv(c)'
  BY DEF PageInv, PosInv, TypeOK, FLASH_PAGE_SIZE
<1>. QED
  BY <1>1, <1>2, <1>3

(* Programming the open page puts into flash what the overlay shows. *)
LEMMA ProgramPage ==
  ASSUME NEW c, Core = {c}, IInv(c), FlushProgram(c), page_flash_offset \in Page
  PROVE  /\ flash' = [flash EXCEPT ![page_flash_offset] = Overlay[page_flash_offset]]
         /\ flash' \in [Page -> [Offset -> Byte]]
         /\ Overlay' = Overlay
         /\ \A o \in Offset : flash'[page_flash_offset][o] \subseteq page_buf[o]
<1>. DEFINE q == page_flash_offset
<1>1. flash \in [Page -> [Offset -> Byte]] /\ page_buf \in [Offset -> Byte]
  BY DEF IInv, TypeOK
<1>2. /\ flash' = [flash EXCEPT ![q] = Programmed(q)]
      /\ page_buf' = page_buf /\ page_flash_offset' = q
  BY NoPageAssumption DEF FlushProgram, Program, buffer
<1>3. Overlay[q] = Programmed(q) /\ Programmed(q) \in [Offset -> Byte]
  BY <1>1 DEF Overlay, Programmed, Byte
<1>4. flash' \in [Page -> [Offset -> Byte]]
  BY <1>1, <1>2, <1>3
<1>5. flash'[q] = Programmed(q)
  BY <1>1, <1>2
<1>6. \A o \in Offset : flash'[q][o] \subseteq page_buf[o]
  BY <1>5 DEF Programmed
<1>7. Overlay' = Overlay
  <2>1. Programmed(q)' = [o \in Offset |-> flash'[q][o] \cap page_buf[o]]
    BY <1>2 DEF Programmed
  <2>2. ASSUME NEW o \in Offset PROVE flash'[q][o] \cap page_buf[o] = Programmed(q)[o]
    BY <1>5, <1>6
  <2>3. Programmed(q)' = Programmed(q)
    BY <2>1, <2>2 DEF Programmed
  <2>4. ASSUME NEW p \in Page PROVE Overlay'[p] = Overlay[p]
    BY <2>3, <1>1, <1>2 DEF Overlay
  <2>. QED
    BY <2>4 DEF Overlay
<1>. QED
  BY <1>2, <1>3, <1>4, <1>6, <1>7

LEMMA FlushProgramInv ==
  ASSUME NEW c, Core = {c}, IInv(c), FlushProgram(c)
  PROVE  IInv(c)'
<1>1. CASE page_flash_offset = NoPage
  <2>. USE <1>1 DEF FlushProgram, Goto, IInv, buffer
  <2>1. TypeOK'
    BY DEF TypeOK
  <2>2. OverlayInv'
    BY DEF OverlayInv, Overlay, Programmed
  <2>3. PageInv(c)' /\ PosInv(c)'
    BY PageSize DEF PageInv, PosInv, TypeOK, FLASH_PAGE_SIZE
  <2>. QED
    BY <2>1, <2>2, <2>3
<1>2. CASE page_flash_offset \in Page
  <2>. USE <1>2, NoPageAssumption DEF FlushProgram, Goto, buffer
  <2>1. TypeOK'
    BY ProgramPage DEF TypeOK, IInv
  <2>2. OverlayInv'
    <3>1. Overlay' = Overlay /\ allowed' = allowed
      BY ProgramPage
    <3>. QED
      BY <3>1 DEF OverlayInv, IInv
  <2>3. PageInv(c)'
    BY ProgramPage DEF PageInv, IInv, TypeOK
  <2>4. PosInv(c)'
    BY DEF PosInv, TypeOK, IInv
  <2>. QED
    BY <2>1, <2>2, <2>3, <2>4 DEF IInv
<1>. QED
  BY <1>1, <1>2 DEF IInv, TypeOK

(* Closing the page changes nothing to see: it is all in flash. *)
LEMMA ClosePage ==
  ASSUME NEW c, Core = {c}, IInv(c), FlushClose(c)
  PROVE  Overlay' = Overlay
<1>1. flash \in [Page -> [Offset -> Byte]] /\ page_buf \in [Offset -> Byte]
  BY DEF IInv, TypeOK
<1>2. \A o \in Offset : flash[page_flash_offset][o] \subseteq page_buf[o]
  BY DEF IInv, PageInv, FlushClose
<1>3. page_flash_offset \in Page /\ flash' = flash /\ page_flash_offset' = NoPage
  BY DEF IInv, PageInv, FlushClose
<1>4. Programmed(page_flash_offset) = flash[page_flash_offset]
  <2>1. ASSUME NEW o \in Offset
        PROVE  flash[page_flash_offset][o] \cap page_buf[o] = flash[page_flash_offset][o]
    BY <1>2
  <2>. QED
    BY <1>1, <1>3, <2>1 DEF Programmed
<1>. QED
  BY <1>3, <1>4, NoPageAssumption DEF Overlay

LEMMA FlushCloseInv ==
  ASSUME NEW c, Core = {c}, IInv(c), FlushClose(c)
  PROVE  IInv(c)'
<1>. USE DEF FlushClose, Goto
<1>1. TypeOK'
  BY PageSize DEF TypeOK, IInv
<1>2. OverlayInv'
  <2>1. Overlay' = Overlay /\ allowed' = allowed
    BY ClosePage
  <2>. QED
    BY <2>1 DEF OverlayInv, IInv
<1>3. PageInv(c)' /\ PosInv(c)'
  BY PageSize DEF PageInv, PosInv, TypeOK, IInv, FLASH_PAGE_SIZE
<1>. QED
  BY <1>1, <1>2, <1>3 DEF IInv

(* Erasing sets the bytes of a sector that is not open, and no other. *)
LEMMA EraseBytes ==
  ASSUME NEW c, Core = {c}, IInv(c), NEW s \in Sectors, EraseSector(c, s)
  PROVE  Overlay' = [p \in Page |-> IF p \in s THEN Erased ELSE Overlay[p]]
<1>1. /\ flash' = [p \in Page |-> IF p \in s THEN Erased ELSE flash[p]]
      /\ page_buf' = page_buf /\ page_flash_offset' = page_flash_offset /\ page_flash_offset \notin s
  BY DEF EraseSector, buffer
<1>2. ASSUME NEW p \in Page
      PROVE  Overlay'[p] = IF p \in s THEN Erased ELSE Overlay[p]
  <2>1. p \notin s => flash'[p] = flash[p]
    BY <1>1
  <2>2. p \notin s => Programmed(p)' = Programmed(p)
    BY <1>1, <2>1 DEF Programmed
  <2>. QED
    BY <1>1, <2>1, <2>2 DEF Overlay
<1>. QED
  BY <1>2 DEF Overlay

LEMMA EraseSectorInv ==
  ASSUME NEW c, Core = {c}, IInv(c), NEW s \in Sectors, EraseSector(c, s)
  PROVE  IInv(c)'
<1>. USE DEF EraseSector, buffer, cores
<1>1. TypeOK'
  <2>1. Erased \in [Offset -> Byte] /\ [o \in Offset |-> {Bits}] \in [Offset -> SUBSET Byte]
    BY DEF Erased, Byte
  <2>. QED
    BY <2>1 DEF TypeOK, IInv
<1>2. OverlayInv'
  <2>. SUFFICES ASSUME NEW p \in Page, NEW o \in Offset
                PROVE  Overlay'[p][o] \in allowed'[p][o]
    BY DEF OverlayInv
  <2>1. Overlay'[p][o] = IF p \in s THEN Bits ELSE Overlay[p][o]
    BY EraseBytes DEF Erased
  <2>2. allowed'[p][o] = IF p \in s THEN {Bits} ELSE allowed[p][o]
    OBVIOUS
  <2>. QED
    BY <2>1, <2>2 DEF IInv, OverlayInv
<1>3. PageInv(c)' /\ PosInv(c)'
  BY DEF PageInv, PosInv, IInv, FLASH_PAGE_SIZE
<1>. QED
  BY <1>1, <1>2, <1>3 DEF IInv

LEMMA ResetInv ==
  ASSUME NEW c, Core = {c}, IInv(c), Reset
  PROVE  IInv(c)' /\ Overlay' = flash
<1>. USE DEF Reset
<1>1. Overlay' = flash
  BY NoPageAssumption DEF Overlay, IInv, TypeOK
<1>2. TypeOK'
  <2>1. page_buf' \in [Offset -> Byte] /\ page_pos' \in 0 .. FLASH_PAGE_SIZE
    BY PageSize DEF Byte
  <2>2. allowed' \in [Page -> [Offset -> SUBSET Byte]]
    BY DEF IInv, TypeOK
  <2>. QED
    BY <2>1, <2>2 DEF IInv, TypeOK, FLASH_PAGE_SIZE
<1>3. OverlayInv'
  <2>. SUFFICES ASSUME NEW p \in Page, NEW o \in Offset
                PROVE  flash[p][o] \in allowed'[p][o]
    BY <1>1 DEF OverlayInv
  <2>1. p # page_flash_offset => Overlay[p][o] = flash[p][o]
    BY DEF Overlay
  <2>2. Overlay[p][o] \in allowed[p][o]
    BY DEF OverlayInv, IInv
  <2>. QED
    BY <2>1, <2>2
<1>4. PageInv(c)' /\ PosInv(c)'
  BY PageSize DEF PageInv, PosInv, FLASH_PAGE_SIZE
<1>. QED
  BY <1>1, <1>2, <1>3, <1>4 DEF IInv

LEMMA NextInv ==
  ASSUME NEW c, Core = {c}, IInv(c), [Next]_vars
  PROVE  IInv(c)'
<1>1. CASE UNCHANGED vars
  BY <1>1 DEF vars, buffer, cores, IInv, TypeOK, OverlayInv, Overlay, Programmed, PageInv, PosInv, FLASH_PAGE_SIZE
<1>2. CASE Next
  BY <1>2, CallInv, CompareInv, OpenInv, PutInv, FlushInv, FlushProgramInv, FlushCloseInv,
     EraseSectorInv, ResetInv DEF Next
<1>. QED
  BY <1>1, <1>2

-----------------------------------------------------------------------------
(* The buffer is never overrun and a page address is always a page's: with  *)
(* one core in it, write_to_flash_byte keeps its three statics consistent.  *)
THEOREM TypeCorrect ==
  ASSUME NEW c, Core = {c}
  PROVE  Spec => []TypeOK
<1>1. Init => IInv(c)
  BY InitInv
<1>2. IInv(c) /\ [Next]_vars => IInv(c)'
  BY NextInv
<1>3. IInv(c) => TypeOK
  BY DEF IInv
<1>. QED
  BY <1>1, <1>2, <1>3, PTL DEF Spec

(* After flush_write_buffer() flash holds what was written to it, byte for  *)
(* byte, whatever the order of the writes, flushes, erasures and resets.    *)
THEOREM FlushedTheorem ==
  ASSUME NEW c, Core = {c}
  PROVE  Spec => []FlushedIsDurable
<1>1. Init => IInv(c)
  BY InitInv
<1>2. IInv(c) /\ [Next]_vars => IInv(c)'
  BY NextInv
<1>3. IInv(c) => FlushedIsDurable
  BY NoPageAssumption DEF IInv, OverlayInv, Overlay, FlushedIsDurable
<1>. QED
  BY <1>1, <1>2, <1>3, PTL DEF Spec

-----------------------------------------------------------------------------
(* Each step of the writer is a step of the store, or not to be seen.       *)
LEMMA StepSimulation ==
  ASSUME NEW c, Core = {c}, IInv(c), Next
  PROVE  Store!Next \/ UNCHANGED <<Overlay, flash>>
<1>1. ASSUME NEW a \in Args, Call(c, a) PROVE UNCHANGED <<Overlay, flash>>
  BY <1>1 DEF Call, buffer, Overlay, Programmed
<1>2. CASE Compare(c)
  BY <1>2 DEF Compare, buffer, Overlay, Programmed
<1>3. CASE Open(c)
  <2>1. ASSUME NEW p \in Page PROVE flash[p] = [o \in Offset |-> flash[p][o] \cap Blank[o]]
    BY DEF IInv, TypeOK, Blank, Erased, Byte
  <2>2. ASSUME NEW p \in Page PROVE Programmed(p)' = flash[p]
    BY <1>3, <2>1 DEF Programmed, Open
  <2>. QED
    BY <1>3, <2>2, NoPageAssumption DEF Open, Overlay, PageInv, IInv
<1>4. CASE Put(c)
  <2>. DEFINE p == arg[c].page
              o == arg[c].offset
              d == arg[c].data
              v == flash[p][o] \cap d
  <2>1. p \in Page /\ o \in Offset /\ d \in Byte /\ page_flash_offset = p
    BY <1>4 DEF IInv, TypeOK, Args, PageInv, Put
  <2>2. Overlay' = [Overlay EXCEPT ![p][o] = v] /\ flash' = flash
    BY <1>4, PutByte DEF Put
  <2>3. Overlay[p][o] = flash[p][o] \cap page_buf[o]
    BY <2>1 DEF Overlay, Programmed
  <2>4. v \in SUBSET d /\ Overlay[p][o] \cap d \subseteq v
    BY <2>3
  <2>5. Store!Write(p, o, d)
    BY <2>2, <2>4 DEF Store!Write
  <2>. QED
    BY <2>1, <2>5 DEF Store!Next, Store!Byte, Byte
<1>5. CASE Flush(c)
  BY <1>5 DEF Flush, buffer, Overlay, Programmed
<1>6. CASE FlushProgram(c)
  <2>1. CASE page_flash_offset = NoPage
    BY <1>6, <2>1 DEF FlushProgram, buffer, Overlay, Programmed
  <2>2. CASE page_flash_offset \in Page
    BY <1>6, <2>2, ProgramPage DEF Store!Next, Store!Commit
  <2>. QED
    BY <2>1, <2>2 DEF IInv, TypeOK
<1>7. CASE FlushClose(c)
  BY <1>7, ClosePage DEF FlushClose
<1>8. ASSUME NEW s \in Sectors, EraseSector(c, s) PROVE Store!Next
  BY <1>8, EraseBytes DEF EraseSector, Erased, Store!Erased, Store!Erase, Store!Next
<1>9. CASE Reset
  BY <1>9, ResetInv DEF Reset, Store!PowerLoss, Store!Next
<1>. QED
  BY <1>1, <1>2, <1>3, <1>4, <1>5, <1>6, <1>7, <1>8, <1>9 DEF Next

(* The page buffer is invisible: with one core the writer implements the    *)
(* byte store, including what a power loss leaves.                          *)
THEOREM StoreTheorem ==
  ASSUME NEW c, Core = {c}
  PROVE  Spec => ImplementsStore
<1>1. Init => IInv(c)
  BY InitInv
<1>2. IInv(c) /\ [Next]_vars => IInv(c)'
  BY NextInv
<1>3. Init => Store!Init
  <2>. SUFFICES ASSUME Init PROVE Store!Init
    OBVIOUS
  <2>1. flash \in [Page -> [Offset -> Byte]]
    BY DEF Init, Byte
  <2>2. Overlay = flash
    BY <2>1, NoPageAssumption DEF Init, Overlay
  <2>. QED
    BY <2>1, <2>2 DEF Store!Init, Store!Memory, Store!Byte, Byte
<1>4. IInv(c) /\ [Next]_vars => [Store!Next]_<<Overlay, flash>>
  <2>1. UNCHANGED vars => UNCHANGED <<Overlay, flash>>
    BY DEF vars, buffer, Overlay, Programmed
  <2>. QED
    BY <2>1, StepSimulation
<1>. QED
  BY <1>1, <1>2, <1>3, <1>4, PTL DEF Spec, ImplementsStore, Store!Spec
=============================================================================
