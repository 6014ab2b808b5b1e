---- MODULE MCConfigStorage ----
(***************************************************************************)
(* ConfigStorage for TLC: the code's six slots, or three, with a           *)
(* generation of just more than twice as many values as slots can be       *)
(* apart, so that both wrap several times, and two configurations to tell  *)
(* apart.                                                                  *)
(***************************************************************************)
EXTENDS ConfigStorage
====
