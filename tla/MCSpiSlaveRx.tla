---------------------------- MODULE MCSpiSlaveRx ----------------------------
(***************************************************************************)
(* Model checking of SpiSlaveRx: the .cfg files choose the instance.  Here *)
(* also stands the mapping under which SpiSlaveRx implements SpiMailbox.   *)
(***************************************************************************)
EXTENDS SpiSlaveRx

LastWrite(n) == CHOOSE p \in 0 .. n :
                  /\ p = 0 \/ kind[p] = "write"
                  /\ \A q \in p + 1 .. n : kind[q] # "write"

Completed == IF bus \in {"selected", "filling"} THEN txn - 1 ELSE txn

Posted == LastWrite(Completed)

(* While a copy is under way rxData counts as the packet it is replacing.   *)
Taken == IF tasksPc = "copying" THEN LastWrite(txn - 1) ELSE rxData

Mailbox == INSTANCE SpiMailbox WITH posted <- Posted, taken <- Taken

(* The receive path implements the mailbox: writes are delivered one by one,*)
(* whole, in order, and each of them eventually (checkHeader, the CS        *)
(* handler and tasks() together).                                           *)
ImplementsMailbox == Mailbox!Spec
=============================================================================
