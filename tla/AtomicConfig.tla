---------------------------- MODULE AtomicConfig ----------------------------
(***************************************************************************)
(* What the configuration store promises its callers, main and the setup   *)
(* workers: a register that holds one configuration.  A save that returns  *)
(* Ok has replaced it, a save that fails or is cut short by a power loss   *)
(* has replaced it or has not, and nothing in between is ever loaded.      *)
(***************************************************************************)
CONSTANTS None, Configs

VARIABLES
  stored,   \* the configuration the store holds, or None
  request,  \* the configuration being saved, or None
  outcome,  \* what the last save returned: "none", "pending", "saved", "failed"
  loaded    \* stored_config of main: what the last boot loaded, or None

vars == <<stored, request, outcome, loaded>>

Init == stored = None /\ request = None /\ outcome = "none" /\ loaded = None

\* load at boot: an error counts as no configuration.
Load ==
  /\ loaded' \in {stored, None}
  /\ UNCHANGED <<stored, request, outcome>>

Begin(config) ==
  /\ request = None
  /\ request' = config
  /\ outcome' = "pending"
  /\ UNCHANGED <<stored, loaded>>

TakeEffect ==
  /\ request # None
  /\ stored' = request
  /\ UNCHANGED <<request, outcome, loaded>>

Succeed ==
  /\ request # None /\ stored = request
  /\ request' = None /\ outcome' = "saved"
  /\ UNCHANGED <<stored, loaded>>

TookEffectOrNot ==
  \/ stored' = stored
  \/ request # None /\ stored' = request

Fail ==
  /\ request # None
  /\ TookEffectOrNot
  /\ request' = None /\ outcome' = "failed"
  /\ UNCHANGED loaded

Restart ==
  /\ TookEffectOrNot
  /\ request' = None /\ outcome' = "none" /\ loaded' = None

Next ==
  \/ Load
  \/ \E config \in Configs : Begin(config)
  \/ TakeEffect \/ Succeed \/ Fail \/ Restart

Spec == Init /\ [][Next]_vars
=============================================================================
