----------------------------- MODULE MCSpiDriver -----------------------------
(***************************************************************************)
(* Instances of SpiDriver for TLC.  The stepper moves at most one count    *)
(* per period, and M is as wide as it moves while the filter holds twice   *)
(* and one feedback is missed: with M = 3 SpikesHidden fails.              *)
(***************************************************************************)
EXTENDS SpiDriver

MCReversed == -1
MCCommand  == 0 .. 1
=============================================================================
