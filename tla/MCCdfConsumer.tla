--------------------------- MODULE MCCdfConsumer ---------------------------
(***************************************************************************)
(* Instances of CdfConsumer for TLC: its constants are given values in the *)
(* configurations.                                                         *)
(***************************************************************************)
EXTENDS CdfConsumer
=============================================================================
