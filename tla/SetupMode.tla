------------------------------ MODULE SetupMode ------------------------------
(***************************************************************************)
(* What setup mode promises the rest of the cooler, whatever browsers and  *)
(* workers do: the stored configuration changes only to one that a browser *)
(* submitted, a save that fails has replaced it or has not, and a worker   *)
(* announces a restart only after some save of this boot was verified.     *)
(***************************************************************************)
CONSTANTS None, Configs

VARIABLES
  stored,   \* the configuration in flash, or None
  saved,    \* a save of this boot was verified
  closing   \* some worker has said that the cooler restarts, and will

setupVars == <<stored, saved, closing>>

SetupInit ==
  stored \in Configs \union {None} /\ saved = FALSE /\ closing = FALSE

Save(c) == stored' = c /\ saved' = TRUE /\ UNCHANGED closing

FailSave(c) == stored' \in {stored, c} /\ UNCHANGED <<saved, closing>>

Announce == saved /\ closing' = TRUE /\ UNCHANGED <<stored, saved>>

\* RAM is lost; the flash is not.
Forget == saved' = FALSE /\ closing' = FALSE

SoftwareReset == closing /\ Forget /\ UNCHANGED stored

\* The power may go while a form is being saved.
PowerLoss == Forget /\ stored' \in {stored} \union Configs

SetupNext ==
  \/ \E c \in Configs : Save(c) \/ FailSave(c)
  \/ Announce \/ SoftwareReset \/ PowerLoss

SetupSpec == SetupInit /\ [][SetupNext]_setupVars
=============================================================================
