---- MODULE MCFanPolicySlew ----
(***************************************************************************)
(* FanPolicySlew with the configurations and readings of MCFanPolicy.      *)
(***************************************************************************)
EXTENDS FanPolicySlew, MCFanPolicy
====
