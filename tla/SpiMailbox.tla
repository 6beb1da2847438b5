------------------------------ MODULE SpiMailbox ------------------------------
(***************************************************************************)
(* What the SPI receive path promises remora-core: a mailbox of one place. *)
(* The host posts a write packet only once the previous one was taken, and *)
(* the packet posted last is what gets taken.                              *)
(***************************************************************************)
EXTENDS Integers

CONSTANT MaxTxn

VARIABLES posted,   \* the last write packet the host completed (0: none)
          taken     \* the last packet copied whole into rxData (0: none)

Init == posted = 0 /\ taken = 0

Post == /\ taken = posted
        /\ \E p \in 1 .. MaxTxn : p > posted /\ posted' = p
        /\ taken' = taken

Take == taken # posted /\ taken' = posted /\ posted' = posted

Next == Post \/ Take

Safety == Init /\ [][Next]_<<posted, taken>>

Spec == Safety /\ WF_<<posted, taken>>(Take)
=============================================================================
