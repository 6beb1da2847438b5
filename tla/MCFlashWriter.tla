---------------------------- MODULE MCFlashWriter ----------------------------
(***************************************************************************)
(* Instances of FlashWriter for TLC.                                       *)
(***************************************************************************)
EXTENDS FlashWriter

MCPages == {0, 1}
Alone   == [c \in {0} |-> MCPages]
Each    == [c \in {0, 1} |-> {c}]
OneEach == {{0}, {1}}
=============================================================================
