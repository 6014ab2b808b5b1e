----------------------------- MODULE SetupPortal -----------------------------
(***************************************************************************)
(* Setup mode: the HTTP workers (setup_http_server in main.rs), main's     *)
(* loop, and the two channels of capacity one between them.  A worker that *)
(* has read a form sends it through NEW_CONFIG and waits for the answer on *)
(* CONFIG_SAVE_RESULT; main saves what it receives and sends the result.   *)
(* All of them are tasks of one executor: a step lasts from one await to   *)
(* the next.  The flash is the register of AtomicConfig.  What is lost in  *)
(* a restart is reset; a boot that reaches station mode runs none of this, *)
(* so only the boots that come back to setup mode are followed.            *)
(***************************************************************************)
EXTENDS Naturals, Sequences, FiniteSets

CONSTANTS
  None,
  Configs,   \* the configurations a form may carry
  Workers    \* the tasks of the setup_http_server pool

ASSUME WorkersAssumption == IsFiniteSet(Workers)

VARIABLES
  pc,                  \* where each worker waits
  form,                \* the configuration a worker waits to send, or None
  page,                \* the response a worker is to write, or None
  NEW_CONFIG,          \* the channel to main
  CONFIG_SAVE_RESULT,  \* the channel back
  unsent,              \* the result main waits to send, or None
  stored,              \* the configuration in flash
  \* History: none of these enables or disables a step.
  sender,              \* whose present form NEW_CONFIG holds, or None
  refused,             \* the workers whose present form could not be saved
  verified             \* the configurations saved and verified since the boot

workerVars == <<pc, form, page>>
channels == <<NEW_CONFIG, CONFIG_SAVE_RESULT, unsent>>
history == <<sender, refused, verified>>
vars == <<workerVars, channels, stored, history>>

CAPACITY == 1

Pages == {"form", "bad_request", "not_found", "saved", "save_failed"}

ASSUME PortalNoneAssumption ==
  None \notin Configs /\ None \notin BOOLEAN /\ None \notin Pages

\* The worker is inside the arm of its match that saves a form.
Submitting(w) == pc[w] \in {"send", "receive"}

Goto(w, label) == pc' = [pc EXCEPT ![w] = label]
-----------------------------------------------------------------------------
AllWorkers(value) == [w \in Workers |-> value]

Init ==
  /\ pc = AllWorkers("accept") /\ form = AllWorkers(None) /\ page = AllWorkers(None)
  /\ NEW_CONFIG = <<>> /\ CONFIG_SAVE_RESULT = <<>> /\ unsent = None
  /\ stored \in Configs \union {None}
  /\ sender = None /\ refused = {} /\ verified = {}

\* The chip restarts: everything but the flash is as at the start.
Boot ==
  /\ pc' = AllWorkers("accept") /\ form' = AllWorkers(None)
  /\ page' = AllWorkers(None)
  /\ NEW_CONFIG' = <<>> /\ CONFIG_SAVE_RESULT' = <<>> /\ unsent' = None
  /\ sender' = None /\ refused' = {} /\ verified' = {}

\* A browser connects.
Accept(w) ==
  /\ pc[w] = "accept"
  /\ Goto(w, "read")
  /\ UNCHANGED <<form, page, channels, stored, history>>

\* The bytes read so far are a complete form with an acceptable configuration.
ReadForm(w, c) ==
  /\ pc[w] = "read"
  /\ Goto(w, "send")
  /\ form' = [form EXCEPT ![w] = c]
  /\ refused' = refused \ {w}
  /\ sender' = IF sender = w THEN None ELSE sender
  /\ UNCHANGED <<page, channels, stored, verified>>

\* They are another request, one parse_request refuses, or the connection
\* ended or timed out first.
ReadOther(w) ==
  /\ pc[w] = "read"
  /\ Goto(w, "respond")
  /\ \E p \in {"form", "not_found", "bad_request"} : page' = [page EXCEPT ![w] = p]
  /\ UNCHANGED <<form, channels, stored, history>>

\* Seeded fault: NEW_CONFIG has no bound.
SendConfig_Unbounded(w) ==
  /\ pc[w] = "send"
  /\ NEW_CONFIG' = Append(NEW_CONFIG, form[w])
  /\ form' = [form EXCEPT ![w] = None]
  /\ sender' = w
  /\ Goto(w, "receive")
  /\ UNCHANGED <<page, CONFIG_SAVE_RESULT, unsent, stored, refused, verified>>

SendConfig(w) ==
  /\ pc[w] = "send" /\ Len(NEW_CONFIG) < CAPACITY
  /\ NEW_CONFIG' = Append(NEW_CONFIG, form[w])
  /\ form' = [form EXCEPT ![w] = None]
  /\ sender' = w
  /\ Goto(w, "receive")
  /\ UNCHANGED <<page, CONFIG_SAVE_RESULT, unsent, stored, refused, verified>>

\* Seeded fault: an answer is taken for success whatever it says.
ReceiveResult_AnyAnswer(w) ==
  /\ pc[w] = "receive" /\ CONFIG_SAVE_RESULT # <<>>
  /\ CONFIG_SAVE_RESULT' = Tail(CONFIG_SAVE_RESULT)
  /\ page' = [page EXCEPT ![w] = "saved"]
  /\ Goto(w, "respond")
  /\ UNCHANGED <<form, NEW_CONFIG, unsent, stored, history>>

\* Any worker that waits may be the one to get the result in the channel.
ReceiveResult(w) ==
  /\ pc[w] = "receive" /\ CONFIG_SAVE_RESULT # <<>>
  /\ CONFIG_SAVE_RESULT' = Tail(CONFIG_SAVE_RESULT)
  /\ page' = [page EXCEPT ![w] = IF Head(CONFIG_SAVE_RESULT)
                                 THEN "saved" ELSE "save_failed"]
  /\ Goto(w, "respond")
  /\ UNCHANGED <<form, NEW_CONFIG, unsent, stored, history>>

\* Seeded fault: the restart is forgotten.
Respond_NoRestart(w) ==
  /\ pc[w] = "respond"
  /\ Goto(w, "accept")
  /\ page' = [page EXCEPT ![w] = None]
  /\ UNCHANGED <<form, channels, stored, history>>

\* The response is written, or its connection is gone; the socket is closed.
Respond(w) ==
  /\ pc[w] = "respond"
  /\ Goto(w, IF page[w] = "saved" THEN "restart" ELSE "accept")
  /\ page' = [page EXCEPT ![w] = IF @ = "saved" THEN @ ELSE None]
  /\ UNCHANGED <<form, channels, stored, history>>

\* Seeded fault: the sector of the old record is erased first.
SaveReturns_LosesOld(c, saved) ==
  IF saved THEN stored' = c ELSE stored' \in {stored, None}

\* What config_storage::save may do: see AtomicConfig.
SaveReturns(c, saved) ==
  IF saved THEN stored' = c ELSE stored' \in {stored, c}

\* Seeded fault: try_send, which drops the result when the channel is full.
SaveNewConfig_TrySend(saved) ==
  /\ unsent = None /\ NEW_CONFIG # <<>>
  /\ SaveReturns(Head(NEW_CONFIG), saved)
  /\ refused' = IF saved THEN refused ELSE refused \union ({sender} \ {None})
  /\ verified' = IF saved THEN verified \union {Head(NEW_CONFIG)} ELSE verified
  /\ sender' = None
  /\ NEW_CONFIG' = Tail(NEW_CONFIG)
  /\ CONFIG_SAVE_RESULT' = IF CONFIG_SAVE_RESULT = <<>>
                           THEN <<saved>> ELSE CONFIG_SAVE_RESULT
  /\ UNCHANGED <<workerVars, unsent>>

\* main's loop finds a configuration, saves it without yielding, and sends the
\* result at once if the channel has room.
SaveNewConfig(saved) ==
  /\ unsent = None /\ NEW_CONFIG # <<>>
  /\ SaveReturns(Head(NEW_CONFIG), saved)
  /\ refused' = IF saved THEN refused ELSE refused \union ({sender} \ {None})
  /\ verified' = IF saved THEN verified \union {Head(NEW_CONFIG)} ELSE verified
  /\ sender' = None
  /\ NEW_CONFIG' = Tail(NEW_CONFIG)
  /\ IF Len(CONFIG_SAVE_RESULT) < CAPACITY
     THEN /\ CONFIG_SAVE_RESULT' = Append(CONFIG_SAVE_RESULT, saved)
          /\ UNCHANGED unsent
     ELSE unsent' = saved /\ UNCHANGED CONFIG_SAVE_RESULT
  /\ UNCHANGED workerVars

\* main, blocked in CONFIG_SAVE_RESULT.send, goes on.
SendResult ==
  /\ unsent # None /\ Len(CONFIG_SAVE_RESULT) < CAPACITY
  /\ CONFIG_SAVE_RESULT' = Append(CONFIG_SAVE_RESULT, unsent)
  /\ unsent' = None
  /\ UNCHANGED <<workerVars, NEW_CONFIG, stored, history>>

\* The worker that was told "saved" resets the chip, whatever the others do.
SoftwareReset(w) ==
  /\ pc[w] = "restart"
  /\ Boot
  /\ UNCHANGED stored

\* The power goes, perhaps inside save.
PowerLoss ==
  /\ Boot
  /\ \/ UNCHANGED stored
     \/ unsent = None /\ NEW_CONFIG # <<>> /\ stored' = Head(NEW_CONFIG)

Worker(w) ==
  \/ SendConfig(w) \/ ReceiveResult(w) \/ Respond(w) \/ SoftwareReset(w)

Main == SendResult \/ \E saved \in BOOLEAN : SaveNewConfig(saved)

Browser(w) == Accept(w) \/ ReadOther(w) \/ \E c \in Configs : ReadForm(w, c)

Next ==
  \/ \E w \in Workers : Worker(w) \/ Browser(w)
  \/ Main
  \/ PowerLoss

Spec == Init /\ [][Next]_vars

(***************************************************************************)
(* The executor polls a task again once what it awaits is there, so that a *)
(* worker whose step stays possible takes it, and so does main.  Nothing   *)
(* is assumed of which waiting worker gets a place or a result first, nor  *)
(* of the browsers.                                                        *)
(***************************************************************************)
Fairness == WF_vars(Main) /\ \A w \in Workers : WF_vars(Worker(w))

FairSpec == Spec /\ Fairness
-----------------------------------------------------------------------------
(***************************************************************************)
(* The tasks' variables keep their types; a worker holds a form exactly    *)
(* while it waits to send it, and a page while it has one to write.        *)
(***************************************************************************)
PortalTypeOK ==
  /\ pc \in [Workers -> {"accept", "read", "send", "receive", "respond",
                         "restart"}]
  /\ \A w \in Workers :
       /\ form[w] \in IF pc[w] = "send" THEN Configs ELSE {None}
       /\ page[w] \in IF pc[w] \in {"respond", "restart"} THEN Pages ELSE {None}
       /\ pc[w] = "restart" => page[w] = "saved"
  /\ NEW_CONFIG \in {<<>>} \union {<<c>> : c \in Configs}
  /\ CONFIG_SAVE_RESULT \in {<<>>} \union {<<saved>> : saved \in BOOLEAN}
  /\ unsent \in {None} \union BOOLEAN
  /\ stored \in Configs \union {None}

(***************************************************************************)
(* There are exactly as many workers waiting for a result as there are     *)
(* configurations and results on their way: no result is left over for a   *)
(* later form, and no worker waits for one that never comes.               *)
(***************************************************************************)
EveryWaiterHasAResult ==
  Cardinality({w \in Workers : pc[w] = "receive"})
    = Len(NEW_CONFIG) + Len(CONFIG_SAVE_RESULT) + (IF unsent = None THEN 0 ELSE 1)

(***************************************************************************)
(* The README: "the controller verifies the journaled flash write before   *)
(* rebooting".  Whoever receives which result, a worker that is about to   *)
(* reset the chip does so after some save of this boot was verified, and   *)
(* the flash then holds a configuration.                                   *)
(***************************************************************************)
RestartAfterVerifiedSave ==
  \A w \in Workers : page[w] = "saved" => verified # {} /\ stored # None

(***************************************************************************)
(* What Cooler takes setup mode for: with any number of forms, workers and *)
(* failed saves the portal is an instance of SetupMode.                    *)
(***************************************************************************)
Contract == INSTANCE SetupMode
  WITH saved <- verified # {}, closing <- \E w \in Workers : page[w] = "saved"

ImplementsSetupMode == Contract!SetupSpec

(***************************************************************************)
(* Once no browser submits any more, every form that was read is answered  *)
(* or cut short by a restart: the capacity of the channels never leaves a  *)
(* worker, or main, waiting for ever.                                      *)
(***************************************************************************)
Submit == \E w \in Workers, c \in Configs : ReadForm(w, c)

FormsAreAnswered ==
  <>[][~Submit]_vars => <>[](\A w \in Workers : ~Submitting(w))

(***************************************************************************)
(* A verified save takes effect: once a worker has told a browser that the *)
(* cooler is restarting, the chip restarts and the boot in which the save  *)
(* was verified comes to an end.                                           *)
(***************************************************************************)
SavedThenRestart ==
  \A w \in Workers : page[w] = "saved" ~> verified = {}

(***************************************************************************)
(* SAVED_PAGE says "Saved" to the browser whose form the worker sent: the  *)
(* page is never written when that form could not be saved.                *)
(***************************************************************************)
SavedPageIsTrue == \A w \in Workers : page[w] = "saved" => w \notin refused
=============================================================================
