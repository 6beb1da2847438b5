------------------------------ MODULE FlashStore ------------------------------
(***************************************************************************)
(* What the flash writer of hal_utils promises its callers: a store of     *)
(* bytes that remembers, with a second copy that survives a power loss.    *)
(* A byte is the set of its one bits.  Writing over a byte that has been   *)
(* written before may lose bits; writing to an erased one does not.        *)
(***************************************************************************)
CONSTANTS Page, Offset, Bits, Sectors

VARIABLES bytes,    \* what has been written
          durable   \* what is left after a power loss

Byte   == SUBSET Bits
Erased == [o \in Offset |-> Bits]
Memory == [Page -> [Offset -> Byte]]

Init == bytes \in Memory /\ durable = bytes

Write(p, o, d) ==
  /\ \E v \in SUBSET d : bytes[p][o] \cap d \subseteq v /\ bytes' = [bytes EXCEPT ![p][o] = v]
  /\ UNCHANGED durable

Commit(p) ==
  /\ durable' = [durable EXCEPT ![p] = bytes[p]]
  /\ UNCHANGED bytes

Erase(s) ==
  /\ bytes'   = [p \in Page |-> IF p \in s THEN Erased ELSE bytes[p]]
  /\ durable' = [p \in Page |-> IF p \in s THEN Erased ELSE durable[p]]

PowerLoss == bytes' = durable /\ UNCHANGED durable

Next == \/ \E p \in Page, o \in Offset, d \in Byte : Write(p, o, d)
        \/ \E p \in Page : Commit(p)
        \/ \E s \in Sectors : Erase(s)
        \/ PowerLoss

Spec == Init /\ [][Next]_<<bytes, durable>>
=============================================================================
