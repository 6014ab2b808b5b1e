---- MODULE MCSetupPortal ----
(***************************************************************************)
(* SetupPortal with the code's three workers and two configurations to     *)
(* tell apart.  The workers are not taken as symmetric: the liveness       *)
(* properties are checked in the same run.                                 *)
(***************************************************************************)
EXTENDS SetupPortal
====
