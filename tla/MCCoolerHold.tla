---- MODULE MCCoolerHold ----
(***************************************************************************)
(* CoolerHold with the instance of MCCooler.                               *)
(***************************************************************************)
EXTENDS CoolerHold, MCCooler
====
