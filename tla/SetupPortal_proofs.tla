-------------------------- MODULE SetupPortal_proofs --------------------------
(***************************************************************************)
(* Setup mode for any finite pool of workers and any configurations: the   *)
(* tasks keep their types, a restart comes only after a verified save,     *)
(* every waiting worker has its result on the way, the portal keeps what   *)
(* SetupMode promises, and workers and main neither wait for one another   *)
(* in a circle nor pass forms round for ever.                              *)
(***************************************************************************)
EXTENDS SetupPortal, FiniteSetTheorems, TLAPS

Labels == {"accept", "read", "send", "receive", "respond", "restart"}

\* The one result that a channel holds.
LEMMA OneResult ==
  ASSUME NEW x
  PROVE  Head(<<x>>) = x /\ Tail(<<x>>) = <<>> /\ Len(<<x>>) = 1 /\ <<x>> # <<>>
OBVIOUS

\* Some worker has said that the cooler restarts.
Closing == \E w \in Workers : page[w] = "saved"

\* A result that says Ok is on its way, or has been told.
Success == CONFIG_SAVE_RESULT = <<TRUE>> \/ unsent = TRUE \/ Closing

(***************************************************************************)
(* The inductive invariant: the types, the functions' domains, and where   *)
(* there is a good result on its way there has been a verified save.       *)
(***************************************************************************)
TasksOK ==
  /\ pc \in [Workers -> Labels]
  /\ form \in [Workers -> Configs \union {None}]
  /\ page \in [Workers -> Pages \union {None}]
  /\ \A w \in Workers : pc[w] = "send" <=> form[w] # None
  /\ \A w \in Workers : pc[w] \in {"respond", "restart"} <=> page[w] # None
  /\ \A w \in Workers : pc[w] = "restart" => page[w] = "saved"

ChannelsOK ==
  /\ NEW_CONFIG = <<>> \/ \E c \in Configs : NEW_CONFIG = <<c>>
  /\ CONFIG_SAVE_RESULT \in {<<>>, <<TRUE>>, <<FALSE>>}
  /\ unsent \in {None, TRUE, FALSE}
  /\ stored \in Configs \union {None}

VerifiedOK ==
  /\ verified # {} => stored # None
  /\ Success => verified # {}

PortalInv == TasksOK /\ ChannelsOK /\ VerifiedOK

LEMMA TypeFollows == PortalInv => PortalTypeOK
BY PortalNoneAssumption
   DEF PortalInv, TasksOK, ChannelsOK, PortalTypeOK, Labels, Pages

LEMMA InvInit == Init => PortalInv /\ ~Closing
<1> SUFFICES ASSUME Init PROVE PortalInv /\ ~Closing
  OBVIOUS
<1>1. TasksOK /\ ~Closing
  BY PortalNoneAssumption DEF Init, AllWorkers, TasksOK, Closing, Labels, Pages
<1>2. ChannelsOK
  BY DEF Init, ChannelsOK
<1>3. ~Success /\ verified = {}
  BY <1>1, PortalNoneAssumption DEF Init, Success
<1> QED BY <1>1, <1>2, <1>3 DEF PortalInv, VerifiedOK
-----------------------------------------------------------------------------
\* A restart leaves nothing but the flash.
LEMMA BootOK ==
  ASSUME Boot, stored' \in Configs \union {None}
  PROVE  PortalInv' /\ ~Closing' /\ verified' = {}
BY PortalNoneAssumption
   DEF Boot, AllWorkers, PortalInv, TasksOK, ChannelsOK, VerifiedOK, Success, Closing,
       Labels, Pages

LEMMA BrowserOK ==
  ASSUME PortalInv, NEW w \in Workers, Browser(w)
  PROVE  PortalInv' /\ Closing' = Closing
<1> USE PortalNoneAssumption
<1>1. ASSUME Accept(w) PROVE PortalInv' /\ Closing' = Closing
  <2>1. TasksOK'
    BY <1>1 DEF PortalInv, TasksOK, Accept, Goto, Labels
  <2> QED
    BY <1>1, <2>1 DEF PortalInv, ChannelsOK, VerifiedOK, Success, Closing, Accept,
                      channels, history
<1>2. ASSUME NEW c \in Configs, ReadForm(w, c) PROVE PortalInv' /\ Closing' = Closing
  <2>1. TasksOK'
    BY <1>2 DEF PortalInv, TasksOK, ReadForm, Goto, Labels
  <2> QED
    BY <1>2, <2>1 DEF PortalInv, ChannelsOK, VerifiedOK, Success, Closing, ReadForm, channels
<1>3. ASSUME ReadOther(w) PROVE PortalInv' /\ Closing' = Closing
  <2>1. PICK p \in {"form", "not_found", "bad_request"} : page' = [page EXCEPT ![w] = p]
    BY <1>3 DEF ReadOther
  <2>2. TasksOK'
    BY <1>3, <2>1 DEF PortalInv, TasksOK, ReadOther, Goto, Labels, Pages
  <2>3. Closing' = Closing
    <3>1. p # "saved" /\ page[w] # "saved"
      BY <1>3 DEF PortalInv, TasksOK, ReadOther, Pages
    <3>2. \A v \in Workers : page'[v] = IF v = w THEN p ELSE page[v]
      BY <2>1 DEF PortalInv, TasksOK
    <3> QED BY <3>1, <3>2 DEF Closing
  <2> QED
    BY <1>3, <2>2, <2>3 DEF PortalInv, ChannelsOK, VerifiedOK, Success, ReadOther,
                            channels, history
<1> QED BY <1>1, <1>2, <1>3 DEF Browser

LEMMA SendConfigOK ==
  ASSUME PortalInv, NEW w \in Workers, SendConfig(w)
  PROVE  /\ PortalInv' /\ Closing' = Closing
         /\ NEW_CONFIG = <<>> /\ Len(NEW_CONFIG') = 1
<1> USE PortalNoneAssumption
<1>1. NEW_CONFIG = <<>>
  BY DEF PortalInv, ChannelsOK, SendConfig, CAPACITY
<1>2. form[w] \in Configs /\ NEW_CONFIG' = <<form[w]>>
  BY <1>1 DEF PortalInv, TasksOK, SendConfig
<1>3. TasksOK'
  BY DEF PortalInv, TasksOK, SendConfig, Goto, Labels
<1> QED
  BY <1>1, <1>2, <1>3 DEF PortalInv, ChannelsOK, VerifiedOK, Success, Closing, SendConfig

LEMMA ReceiveResultOK ==
  ASSUME PortalInv, NEW w \in Workers, ReceiveResult(w)
  PROVE  /\ PortalInv' /\ CONFIG_SAVE_RESULT' = <<>> /\ Len(CONFIG_SAVE_RESULT) = 1
         /\ \/ Closing' = Closing
            \/ Closing' /\ verified # {}
<1> USE PortalNoneAssumption
<1>1. page[w] = None
  BY DEF PortalInv, TasksOK, ReceiveResult, Labels
<1>2. CASE CONFIG_SAVE_RESULT = <<TRUE>>
  <2>1. CONFIG_SAVE_RESULT' = <<>> /\ page' = [page EXCEPT ![w] = "saved"]
    <3>1. Head(CONFIG_SAVE_RESULT) = TRUE /\ Tail(CONFIG_SAVE_RESULT) = <<>>
      BY <1>2, OneResult, Zenon
    <3>2. (IF Head(CONFIG_SAVE_RESULT) THEN "saved" ELSE "save_failed") = "saved"
      BY <3>1, Zenon
    <3> QED BY <3>1, <3>2, Zenon DEF ReceiveResult
  <2>2. TasksOK'
    BY <2>1, <1>1 DEF PortalInv, TasksOK, ReceiveResult, Goto, Labels, Pages
  <2>3. Closing' /\ verified # {}
    BY <1>2, <2>1 DEF PortalInv, TasksOK, VerifiedOK, Success, Closing
  <2> QED
    BY <1>2, <2>1, <2>2, <2>3
       DEF PortalInv, ChannelsOK, VerifiedOK, Success, ReceiveResult, history
<1>3. CASE CONFIG_SAVE_RESULT = <<FALSE>>
  <2>1. CONFIG_SAVE_RESULT' = <<>> /\ page' = [page EXCEPT ![w] = "save_failed"]
    <3>1. Head(CONFIG_SAVE_RESULT) = FALSE /\ Tail(CONFIG_SAVE_RESULT) = <<>>
      BY <1>3, OneResult, Zenon
    <3>2. (IF Head(CONFIG_SAVE_RESULT) THEN "saved" ELSE "save_failed") = "save_failed"
      BY <3>1, Zenon
    <3> QED BY <3>1, <3>2, Zenon DEF ReceiveResult
  <2>2. TasksOK'
    BY <2>1, <1>1 DEF PortalInv, TasksOK, ReceiveResult, Goto, Labels, Pages
  <2>3. Closing' = Closing
    <3>1. \A v \in Workers : page'[v] = IF v = w THEN "save_failed" ELSE page[v]
      BY <2>1 DEF PortalInv, TasksOK
    <3> QED BY <1>1, <3>1 DEF Closing, Pages
  <2>4. ChannelsOK'
    BY <2>1 DEF PortalInv, ChannelsOK, ReceiveResult
  <2>5. VerifiedOK'
    <3>1. CONFIG_SAVE_RESULT' # <<TRUE>>
      BY <2>1, OneResult, Zenon
    <3>2. Success' => Success
      BY <2>3, <3>1, Zenon DEF Success, ReceiveResult
    <3> QED BY <3>2, Zenon DEF PortalInv, VerifiedOK, ReceiveResult, history
  <2> QED
    BY <1>3, <2>1, <2>2, <2>3, <2>4, <2>5 DEF PortalInv
<1> QED BY <1>2, <1>3 DEF PortalInv, ChannelsOK, ReceiveResult

LEMMA RespondOK ==
  ASSUME PortalInv, NEW w \in Workers, Respond(w)
  PROVE  PortalInv' /\ Closing' = Closing
<1> USE PortalNoneAssumption
<1>1. TasksOK'
  BY DEF PortalInv, TasksOK, Respond, Goto, Labels, Pages
<1>2. Closing' = Closing
  BY DEF PortalInv, TasksOK, Respond, Closing, Pages
<1> QED
  BY <1>1, <1>2 DEF PortalInv, ChannelsOK, VerifiedOK, Success, Respond, channels, history

LEMMA SoftwareResetOK ==
  ASSUME PortalInv, NEW w \in Workers, SoftwareReset(w)
  PROVE  PortalInv' /\ Closing /\ ~Closing' /\ verified' = {}
BY BootOK DEF PortalInv, TasksOK, ChannelsOK, Closing, SoftwareReset

LEMMA PowerLossOK ==
  ASSUME PortalInv, PowerLoss
  PROVE  PortalInv' /\ ~Closing' /\ verified' = {} /\ stored' \in {stored} \union Configs
<1>1. stored' \in {stored} \union Configs
  BY DEF PortalInv, ChannelsOK, PowerLoss
<1>2. stored' \in Configs \union {None}
  BY <1>1 DEF PortalInv, ChannelsOK
<1> QED BY <1>1, <1>2, BootOK DEF PowerLoss

\* main takes the one configuration there is and saves it or fails to.
LEMMA SaveNewConfigOK ==
  ASSUME PortalInv, NEW saved \in BOOLEAN, SaveNewConfig(saved)
  PROVE  /\ PortalInv' /\ Closing' = Closing
         /\ \E c \in Configs :
              \/ stored' = c /\ verified' = verified \union {c}
              \/ stored' \in {stored, c} /\ verified' = verified
<1>1. PICK c \in Configs : NEW_CONFIG = <<c>>
  BY DEF PortalInv, ChannelsOK, SaveNewConfig
<1>2. Head(NEW_CONFIG) = c /\ NEW_CONFIG' = <<>>
  BY <1>1, OneResult DEF SaveNewConfig
<1>3. TasksOK' /\ Closing' = Closing
  BY DEF PortalInv, TasksOK, Closing, SaveNewConfig, workerVars
<1>4. \/ CONFIG_SAVE_RESULT = <<>> /\ CONFIG_SAVE_RESULT' = <<saved>> /\ unsent' = unsent
      \/ CONFIG_SAVE_RESULT' = CONFIG_SAVE_RESULT /\ unsent' = saved
  <2>1. CASE Len(CONFIG_SAVE_RESULT) < CAPACITY
    <3>1. CONFIG_SAVE_RESULT = <<>>
      <4>1. CONFIG_SAVE_RESULT \in {<<>>, <<TRUE>>, <<FALSE>>}
        BY DEF PortalInv, ChannelsOK
      <4>2. ~(1 < CAPACITY)
        BY DEF CAPACITY
      <4> QED BY <2>1, <4>1, <4>2, OneResult, Zenon
    <3>2. Append(<<>>, saved) = <<saved>>
      OBVIOUS
    <3> QED BY <2>1, <3>1, <3>2, Zenon DEF SaveNewConfig
  <2>2. CASE ~(Len(CONFIG_SAVE_RESULT) < CAPACITY)
    BY <2>2, Zenon DEF SaveNewConfig
  <2> QED BY <2>1, <2>2
<1>5. CASE saved = TRUE
  <2>1. stored' = c /\ verified' = verified \union {c}
    BY <1>2, <1>5 DEF SaveNewConfig, SaveReturns
  <2>2. ChannelsOK'
    BY <1>2, <1>4, <1>5, <2>1, Zenon DEF PortalInv, ChannelsOK
  <2>3. VerifiedOK'
    BY <2>1, PortalNoneAssumption DEF VerifiedOK
  <2> QED BY <1>3, <2>1, <2>2, <2>3 DEF PortalInv
<1>6. CASE saved = FALSE
  <2>1. stored' \in {stored, c} /\ verified' = verified
    BY <1>2, <1>6 DEF SaveNewConfig, SaveReturns
  <2>2. stored' \in Configs \union {None}
    BY <2>1 DEF PortalInv, ChannelsOK
  <2>3. ChannelsOK'
    BY <1>2, <1>4, <1>6, <2>2, Zenon DEF PortalInv, ChannelsOK
  <2>4. Success' => Success
    <3>1. <<FALSE>> # <<TRUE>>
      <4>1. Head(<<FALSE>>) = FALSE /\ Head(<<TRUE>>) = TRUE
        BY OneResult, Zenon
      <4> QED BY <4>1, Zenon
    <3> QED BY <1>3, <1>4, <1>6, <3>1, Zenon DEF Success
  <2>5. VerifiedOK'
    BY <2>1, <2>4, PortalNoneAssumption DEF PortalInv, VerifiedOK
  <2> QED BY <1>3, <2>1, <2>3, <2>5 DEF PortalInv
<1> QED BY <1>5, <1>6

LEMMA SendResultOK ==
  ASSUME PortalInv, SendResult
  PROVE  PortalInv' /\ Closing' = Closing
<1>1. TasksOK' /\ Closing' = Closing
  BY DEF PortalInv, TasksOK, Closing, SendResult, workerVars
<1>2. CONFIG_SAVE_RESULT' = <<unsent>> /\ unsent' = None
  <2>1. CONFIG_SAVE_RESULT = <<>>
    <3>1. CONFIG_SAVE_RESULT \in {<<>>, <<TRUE>>, <<FALSE>>}
      BY DEF PortalInv, ChannelsOK
    <3>2. ~(1 < CAPACITY)
      BY DEF CAPACITY
    <3> QED BY <3>1, <3>2, OneResult, Zenon DEF SendResult
  <2>2. Append(<<>>, unsent) = <<unsent>>
    OBVIOUS
  <2> QED BY <2>1, <2>2, Zenon DEF SendResult
<1>3. unsent \in {TRUE, FALSE}
  BY Zenon DEF PortalInv, ChannelsOK, SendResult
<1>4. ChannelsOK'
  BY <1>2, <1>3, Zenon DEF PortalInv, ChannelsOK, SendResult
<1>5. Success' => Success
  <2>1. CONFIG_SAVE_RESULT' = <<TRUE>> => unsent = TRUE
    <3>1. Head(<<unsent>>) = unsent /\ Head(<<TRUE>>) = TRUE
      BY OneResult, Zenon
    <3> QED BY <1>2, <3>1, Zenon
  <2>2. None # TRUE
    BY PortalNoneAssumption
  <2> QED BY <1>1, <1>2, <2>1, <2>2, Zenon DEF Success
<1>6. VerifiedOK'
  BY <1>5 DEF PortalInv, VerifiedOK, SendResult, history
<1> QED BY <1>1, <1>4, <1>6 DEF PortalInv

LEMMA UnchangedOK ==
  ASSUME PortalInv, UNCHANGED vars
  PROVE  PortalInv' /\ Closing' = Closing
BY DEF vars, workerVars, channels, history, PortalInv, TasksOK, ChannelsOK, VerifiedOK,
       Success, Closing

LEMMA InvStep == PortalInv /\ [Next]_vars => PortalInv'
<1> SUFFICES ASSUME PortalInv, [Next]_vars PROVE PortalInv'
  OBVIOUS
<1>1. ASSUME NEW w \in Workers, Worker(w) PROVE PortalInv'
  BY <1>1, SendConfigOK, ReceiveResultOK, RespondOK, SoftwareResetOK DEF Worker
<1>2. ASSUME NEW w \in Workers, Browser(w) PROVE PortalInv'
  BY <1>2, BrowserOK
<1>3. CASE Main
  BY <1>3, SendResultOK, SaveNewConfigOK DEF Main
<1>4. CASE PowerLoss
  BY <1>4, PowerLossOK
<1>5. CASE UNCHANGED vars
  BY <1>5, UnchangedOK
<1> QED BY <1>1, <1>2, <1>3, <1>4, <1>5 DEF Next

LEMMA PortalInvariant == Spec => []PortalInv
<1>1. Init => PortalInv
  BY InvInit
<1>2. PortalInv /\ [Next]_vars => PortalInv'
  BY InvStep
<1> QED BY <1>1, <1>2, PTL DEF Spec

(***************************************************************************)
(* The tasks of setup mode keep their types, and the two channels of       *)
(* capacity one never hold more than one place's worth.                    *)
(***************************************************************************)
THEOREM PortalTypeCorrect == Spec => []PortalTypeOK
BY PortalInvariant, TypeFollows, PTL

(***************************************************************************)
(* Whoever of the workers receives which result, the page that announces   *)
(* the restart is there only after a verified save of this boot.           *)
(***************************************************************************)
THEOREM RestartIsVerified == Spec => []RestartAfterVerifiedSave
<1>1. PortalInv => RestartAfterVerifiedSave
  BY DEF PortalInv, VerifiedOK, Success, Closing, RestartAfterVerifiedSave
<1> QED BY <1>1, PortalInvariant, PTL
-----------------------------------------------------------------------------
\* Steps of the portal that SetupMode does not see.
Unseen ==
  /\ stored' = stored
  /\ (verified' # {}) = (verified # {})
  /\ Closing' = Closing

LEMMA UnseenStutters == Unseen => UNCHANGED Contract!setupVars
BY Zenon DEF Unseen, Closing, Contract!setupVars

LEMMA StepImplements ==
  PortalInv /\ [Next]_vars => [Contract!SetupNext]_(Contract!setupVars)
<1> SUFFICES ASSUME PortalInv, [Next]_vars
             PROVE  Unseen \/ Contract!SetupNext
  BY UnseenStutters
<1>1. ASSUME NEW w \in Workers, Worker(w) PROVE Unseen \/ Contract!SetupNext
  <2>1. CASE SendConfig(w)
    BY <2>1, SendConfigOK DEF Unseen, SendConfig
  <2>2. CASE ReceiveResult(w)
    <3>1. stored' = stored /\ verified' = verified
      BY <2>2 DEF ReceiveResult, history
    <3>2. CASE Closing' = Closing
      BY <3>1, <3>2 DEF Unseen
    <3>3. CASE Closing' /\ verified # {}
      <4>1. Contract!Announce
        BY <3>1, <3>3 DEF Contract!Announce, Closing
      <4> QED BY <4>1 DEF Contract!SetupNext
    <3> QED BY <2>2, <3>2, <3>3, ReceiveResultOK
  <2>3. CASE Respond(w)
    BY <2>3, RespondOK DEF Unseen, Respond, history
  <2>4. CASE SoftwareReset(w)
    <3>1. Contract!SoftwareReset
      BY <2>4, SoftwareResetOK
         DEF SoftwareReset, Contract!SoftwareReset, Contract!Forget, Closing
    <3> QED BY <3>1 DEF Contract!SetupNext
  <2> QED BY <1>1, <2>1, <2>2, <2>3, <2>4 DEF Worker
<1>2. ASSUME NEW w \in Workers, Browser(w) PROVE Unseen \/ Contract!SetupNext
  BY <1>2, BrowserOK DEF Unseen, Browser, Accept, ReadForm, ReadOther, history
<1>3. CASE SendResult
  BY <1>3, SendResultOK DEF Unseen, SendResult, history
<1>4. ASSUME NEW saved \in BOOLEAN, SaveNewConfig(saved)
      PROVE  Unseen \/ Contract!SetupNext
  <2>1. Closing' = Closing
    BY <1>4, SaveNewConfigOK
  <2>2. PICK c \in Configs :
           \/ stored' = c /\ verified' = verified \union {c}
           \/ stored' \in {stored, c} /\ verified' = verified
    BY <1>4, SaveNewConfigOK
  <2>3. CASE stored' = c /\ verified' = verified \union {c}
    <3>1. Contract!Save(c)
      BY <2>1, <2>3 DEF Contract!Save, Closing
    <3> QED BY <3>1 DEF Contract!SetupNext
  <2>4. CASE stored' \in {stored, c} /\ verified' = verified
    <3>1. Contract!FailSave(c)
      BY <2>1, <2>4 DEF Contract!FailSave, Closing
    <3> QED BY <3>1 DEF Contract!SetupNext
  <2> QED BY <2>2, <2>3, <2>4
<1>5. CASE PowerLoss
  <2>1. Contract!PowerLoss
    BY <1>5, PowerLossOK DEF Contract!PowerLoss, Contract!Forget, Closing
  <2> QED BY <2>1 DEF Contract!SetupNext
<1>6. CASE UNCHANGED vars
  BY <1>6, UnchangedOK DEF Unseen, vars, history
<1> QED BY <1>1, <1>2, <1>3, <1>4, <1>5, <1>6 DEF Next, Main

(***************************************************************************)
(* The portal keeps SetupMode's promises: only submitted configurations    *)
(* replace the stored one, and no restart is announced without a save.     *)
(***************************************************************************)
THEOREM PortalImplementsSetupMode == Spec => ImplementsSetupMode
<1>1. Init => Contract!SetupInit
  BY InvInit DEF Init, Contract!SetupInit, Closing
<1>2. PortalInv /\ [Next]_vars => [Contract!SetupNext]_(Contract!setupVars)
  BY StepImplements
<1> QED BY <1>1, <1>2, PortalInvariant, PTL
        DEF Spec, ImplementsSetupMode, Contract!SetupSpec
-----------------------------------------------------------------------------
Waiting == {w \in Workers : pc[w] = "receive"}

Underway ==
  Len(NEW_CONFIG) + Len(CONFIG_SAVE_RESULT) + (IF unsent = None THEN 0 ELSE 1)

LEMMA WaitingIsFinite == IsFiniteSet(Waiting) /\ Cardinality(Waiting) \in Nat
BY WorkersAssumption, FS_Subset, FS_CardinalityType DEF Waiting

\* The channels hold nothing or one value.
LEMMA Lengths ==
  ASSUME PortalInv
  PROVE  /\ Len(NEW_CONFIG) \in {0, 1} /\ Len(CONFIG_SAVE_RESULT) \in {0, 1}
         /\ NEW_CONFIG = <<>> <=> Len(NEW_CONFIG) = 0
         /\ CONFIG_SAVE_RESULT = <<>> <=> Len(CONFIG_SAVE_RESULT) = 0
<1>1. Len(<<>>) = 0
  OBVIOUS
<1>2. Len(NEW_CONFIG) \in {0, 1} /\ (NEW_CONFIG = <<>> <=> Len(NEW_CONFIG) = 0)
  BY <1>1 DEF PortalInv, ChannelsOK
<1>3. Len(<<TRUE>>) = 1 /\ Len(<<FALSE>>) = 1
  BY OneResult, Zenon
<1>4. \/ CONFIG_SAVE_RESULT = <<>>
      \/ CONFIG_SAVE_RESULT # <<>> /\ Len(CONFIG_SAVE_RESULT) = 1
  BY <1>3, OneResult, Zenon DEF PortalInv, ChannelsOK
<1> QED BY <1>1, <1>2, <1>4

\* main takes the configuration, and its result is in the channel or unsent.
LEMMA SaveMoves ==
  ASSUME PortalInv, PortalInv', NEW saved \in BOOLEAN, SaveNewConfig(saved)
  PROVE  /\ Len(NEW_CONFIG) = 1 /\ Len(NEW_CONFIG') = 0 /\ unsent = None
         /\ \/ Len(CONFIG_SAVE_RESULT') = Len(CONFIG_SAVE_RESULT) + 1 /\ unsent' = None
            \/ Len(CONFIG_SAVE_RESULT') = Len(CONFIG_SAVE_RESULT) /\ unsent' # None
<1> USE PortalNoneAssumption
<1>1. Len(NEW_CONFIG) = 1 /\ Len(NEW_CONFIG') = 0
  BY Lengths DEF PortalInv, ChannelsOK, SaveNewConfig
<1>2. unsent = None
  BY DEF SaveNewConfig
<1>3. CASE Len(CONFIG_SAVE_RESULT) < CAPACITY
  <2>1. CONFIG_SAVE_RESULT = <<>>
    BY <1>3, Lengths DEF CAPACITY
  <2>2. Append(<<>>, saved) = <<saved>> /\ Len(<<saved>>) = 1 /\ Len(<<>>) = 0
    BY OneResult
  <2>3. CONFIG_SAVE_RESULT' = <<saved>> /\ unsent' = unsent
    BY <1>3, <2>1, <2>2, Zenon DEF SaveNewConfig
  <2>4. Len(CONFIG_SAVE_RESULT') = 1 /\ Len(CONFIG_SAVE_RESULT) = 0
    BY <2>1, <2>2, <2>3, Zenon
  <2> QED BY <1>1, <1>2, <2>3, <2>4
<1>4. CASE ~(Len(CONFIG_SAVE_RESULT) < CAPACITY)
  <2>1. unsent' = saved /\ CONFIG_SAVE_RESULT' = CONFIG_SAVE_RESULT
    BY <1>4, Zenon DEF SaveNewConfig
  <2>2. unsent' # None
    BY <2>1, Zenon
  <2> QED BY <1>1, <1>2, <2>1, <2>2
<1> QED BY <1>3, <1>4

\* main's send goes through once the channel is empty.
LEMMA ResultMoves ==
  ASSUME PortalInv, PortalInv', SendResult
  PROVE  /\ unsent # None /\ unsent' = None
         /\ Len(CONFIG_SAVE_RESULT) = 0 /\ Len(CONFIG_SAVE_RESULT') = 1
<1>1. unsent # None /\ unsent' = None
  BY DEF SendResult
<1>2. CONFIG_SAVE_RESULT = <<>>
  BY Lengths DEF SendResult, CAPACITY
<1>3. Append(<<>>, unsent) = <<unsent>> /\ Len(<<unsent>>) = 1
  BY OneResult
<1>4. CONFIG_SAVE_RESULT' = <<unsent>>
  BY <1>2, <1>3, Zenon DEF SendResult
<1> QED BY <1>1, <1>2, <1>3, <1>4, Zenon, Lengths

\* As many workers wait as there are configurations and results underway.
Matched == Cardinality(Waiting) = Underway

LEMMA MatchedStep == PortalInv /\ PortalInv' /\ Matched /\ [Next]_vars => Matched'
<1> SUFFICES ASSUME PortalInv, PortalInv', Matched, [Next]_vars PROVE Matched'
  OBVIOUS
<1> USE PortalNoneAssumption
<1>1. ASSUME NEW w \in Workers, SendConfig(w) PROVE Matched'
  <2>1. w \notin Waiting /\ Waiting' = Waiting \union {w}
    BY <1>1 DEF PortalInv, TasksOK, SendConfig, Goto, Waiting
  <2>2. Cardinality(Waiting') = Cardinality(Waiting) + 1
    BY <2>1, WaitingIsFinite, FS_AddElement
  <2>3. Len(NEW_CONFIG) = 0 /\ Len(NEW_CONFIG') = 1
    BY <1>1, SendConfigOK, Lengths
  <2> QED BY <1>1, <2>2, <2>3, Lengths DEF Matched, Underway, SendConfig
<1>2. ASSUME NEW w \in Workers, ReceiveResult(w) PROVE Matched'
  <2>1. w \in Waiting /\ Waiting' = Waiting \ {w}
    BY <1>2 DEF PortalInv, TasksOK, ReceiveResult, Goto, Waiting
  <2>2. Cardinality(Waiting') = Cardinality(Waiting) - 1
    BY <2>1, WaitingIsFinite, FS_RemoveElement
  <2>3. Len(CONFIG_SAVE_RESULT) = 1 /\ Len(CONFIG_SAVE_RESULT') = 0
    BY <1>2, ReceiveResultOK
  <2>4. NEW_CONFIG' = NEW_CONFIG /\ unsent' = unsent
    BY <1>2 DEF ReceiveResult
  <2> QED BY <2>2, <2>3, <2>4, Lengths, WaitingIsFinite DEF Matched, Underway
<1>3. ASSUME NEW w \in Workers, Respond(w) PROVE Matched'
  <2>1. Waiting' = Waiting
    BY <1>3 DEF PortalInv, TasksOK, Respond, Goto, Waiting
  <2> QED BY <1>3, <2>1 DEF Matched, Underway, Respond, channels
<1>4. ASSUME NEW w \in Workers, Browser(w) PROVE Matched'
  <2>1. Waiting' = Waiting
    BY <1>4 DEF PortalInv, TasksOK, Browser, Accept, ReadForm, ReadOther, Goto, Waiting
  <2> QED BY <1>4, <2>1
          DEF Matched, Underway, Browser, Accept, ReadForm, ReadOther, channels
<1>5. ASSUME NEW saved \in BOOLEAN, SaveNewConfig(saved) PROVE Matched'
  <2>1. Waiting' = Waiting
    BY <1>5 DEF SaveNewConfig, workerVars, Waiting
  <2>2. /\ Len(NEW_CONFIG) = 1 /\ Len(NEW_CONFIG') = 0 /\ unsent = None
        /\ \/ Len(CONFIG_SAVE_RESULT') = Len(CONFIG_SAVE_RESULT) + 1 /\ unsent' = None
           \/ Len(CONFIG_SAVE_RESULT') = Len(CONFIG_SAVE_RESULT) /\ unsent' # None
    BY <1>5, SaveMoves
  <2> QED BY <2>1, <2>2, Lengths DEF Matched, Underway
<1>6. CASE SendResult
  <2>1. Waiting' = Waiting /\ NEW_CONFIG' = NEW_CONFIG
    BY <1>6 DEF SendResult, workerVars, Waiting
  <2>2. /\ unsent # None /\ unsent' = None
        /\ Len(CONFIG_SAVE_RESULT) = 0 /\ Len(CONFIG_SAVE_RESULT') = 1
    BY <1>6, ResultMoves
  <2> QED BY <2>1, <2>2, Lengths DEF Matched, Underway
<1>7. ASSUME Boot PROVE Matched'
  <2>1. Waiting' = {}
    BY <1>7 DEF Boot, AllWorkers, Waiting
  <2>2. NEW_CONFIG' = <<>> /\ CONFIG_SAVE_RESULT' = <<>> /\ unsent' = None
    BY <1>7 DEF Boot
  <2> QED BY <2>1, <2>2, FS_EmptySet DEF Matched, Underway
<1>8. CASE UNCHANGED vars
  BY <1>8 DEF vars, workerVars, channels, Matched, Waiting, Underway
<1> QED
  BY <1>1, <1>2, <1>3, <1>4, <1>5, <1>6, <1>7, <1>8
     DEF Next, Worker, Main, SoftwareReset, PowerLoss

LEMMA MatchedInvariant == Spec => []Matched
<1>1. Init => Matched
  <2> SUFFICES ASSUME Init PROVE Matched
    OBVIOUS
  <2>1. Waiting = {}
    BY DEF Init, AllWorkers, Waiting
  <2> QED BY <2>1, FS_EmptySet DEF Init, Matched, Underway
<1>2. PortalInv /\ PortalInv' /\ Matched /\ [Next]_vars => Matched'
  BY MatchedStep
<1> QED BY <1>1, <1>2, PortalInvariant, PTL DEF Spec

(***************************************************************************)
(* For any number of workers: nobody waits for a result that never comes,  *)
(* and no result waits for nobody.                                         *)
(***************************************************************************)
THEOREM WaitersAreServed == Spec => []EveryWaiterHasAResult
<1>1. Matched => EveryWaiterHasAResult
  BY DEF Matched, Waiting, Underway, EveryWaiterHasAResult
<1> QED BY <1>1, MatchedInvariant, PTL
-----------------------------------------------------------------------------
(***************************************************************************)
(* The steps on which a form waits, for the capacity of a channel or for   *)
(* what a channel is to bring: the guards of SendConfig, ReceiveResult,    *)
(* SaveNewConfig and SendResult.                                           *)
(***************************************************************************)
SomeStepIsReady ==
  \/ \E w \in Workers : pc[w] = "send" /\ Len(NEW_CONFIG) < CAPACITY
  \/ \E w \in Workers : pc[w] = "receive" /\ CONFIG_SAVE_RESULT # <<>>
  \/ unsent = None /\ NEW_CONFIG # <<>>
  \/ unsent # None /\ Len(CONFIG_SAVE_RESULT) < CAPACITY

\* A full channel has someone to empty it, and who waits has something coming.
LEMMA MatchedIsReady ==
  ASSUME PortalInv, Matched, NEW w \in Workers, Submitting(w)
  PROVE  SomeStepIsReady
<1>1. Underway > 0 \/ Len(NEW_CONFIG) < CAPACITY
  BY Lengths DEF Underway, CAPACITY
<1>2. pc[w] = "receive" => Underway > 0
  <2> SUFFICES ASSUME pc[w] = "receive" PROVE Underway > 0
    OBVIOUS
  <2>1. Waiting # {}
    BY DEF Waiting
  <2>2. Cardinality(Waiting) # 0
    BY <2>1, WaitingIsFinite, FS_EmptySet
  <2> QED BY <2>2, WaitingIsFinite DEF Matched
<1>3. Underway > 0 => \E v \in Workers : pc[v] = "receive"
  <2> SUFFICES ASSUME Underway > 0 PROVE Waiting # {}
    BY DEF Waiting
  <2> QED BY FS_EmptySet, WaitingIsFinite DEF Matched
<1>4. CASE pc[w] = "send" /\ Len(NEW_CONFIG) < CAPACITY
  BY <1>4, Zenon DEF SomeStepIsReady
<1>5. CASE Underway > 0
  <2>1. \/ CONFIG_SAVE_RESULT # <<>>
        \/ Len(CONFIG_SAVE_RESULT) < CAPACITY /\ unsent # None
        \/ unsent = None /\ NEW_CONFIG # <<>>
    BY <1>5, Lengths DEF Underway, CAPACITY
  <2> QED BY <1>3, <1>5, <2>1, Zenon DEF SomeStepIsReady
<1> QED BY <1>1, <1>2, <1>4, <1>5, Zenon DEF Submitting

(***************************************************************************)
(* Workers and main never wait for one another in a circle, for any number *)
(* of workers: as long as a form is underway, a channel that someone waits *)
(* for is ready.                                                           *)
(***************************************************************************)
THEOREM NobodyWaitsInACircle ==
  Spec => []((\E w \in Workers : Submitting(w)) => SomeStepIsReady)
<1>1. PortalInv /\ Matched => ((\E w \in Workers : Submitting(w)) => SomeStepIsReady)
  BY MatchedIsReady
<1> QED BY <1>1, PortalInvariant, MatchedInvariant, PTL
-----------------------------------------------------------------------------
Sending == {w \in Workers : pc[w] = "send"}

\* The steps that forms in the portal still need, at most: a form to be sent, a
\* configuration to be saved, a result to be sent and one to be received.
Answers == Len(CONFIG_SAVE_RESULT) + (IF unsent = None THEN 0 ELSE 2)
Work == 4 * Cardinality(Sending) + 3 * Len(NEW_CONFIG) + Answers

LEMMA SendingIsFinite == IsFiniteSet(Sending) /\ Cardinality(Sending) \in Nat
BY WorkersAssumption, FS_Subset, FS_CardinalityType DEF Sending

LEMMA WorkIsNatural == PortalInv => Work \in Nat
BY SendingIsFinite, Lengths DEF Work, Answers

\* A step of main, or of a worker with a form, leaves less to do; any other that is
\* not another form leaves no more.
FormStep == Main \/ \E w \in Workers : SendConfig(w) \/ ReceiveResult(w)

LessWork == /\ FormStep => Work' < Work
            /\ ~Submit => Work' <= Work

LEMMA WorkGetsLess == PortalInv /\ PortalInv' /\ [Next]_vars => [LessWork]_vars
<1> SUFFICES ASSUME PortalInv, PortalInv', Next PROVE LessWork
  OBVIOUS
<1>0. Cardinality(Sending) \in Nat /\ Work \in Nat
  BY SendingIsFinite, WorkIsNatural
<1>1. ASSUME NEW w \in Workers, SendConfig(w) PROVE Work' \in Nat /\ Work' < Work
  <2>1. w \in Sending /\ Sending' = Sending \ {w}
    BY <1>1 DEF PortalInv, TasksOK, SendConfig, Goto, Sending
  <2>2. Cardinality(Sending') = Cardinality(Sending) - 1
    BY <2>1, SendingIsFinite, FS_RemoveElement
  <2>3. Len(NEW_CONFIG) = 0 /\ Len(NEW_CONFIG') = 1
    BY <1>1, SendConfigOK, Lengths
  <2>4. CONFIG_SAVE_RESULT' = CONFIG_SAVE_RESULT /\ unsent' = unsent
    BY <1>1 DEF SendConfig
  <2>5. Cardinality(Sending') \in Nat
    BY <2>1, SendingIsFinite, FS_RemoveElement, FS_CardinalityType
  <2>6. Answers' = Answers /\ Answers \in Nat
    BY <2>4, Lengths DEF Answers
  <2> QED BY <1>0, <2>2, <2>3, <2>5, <2>6 DEF Work
<1>2. ASSUME NEW w \in Workers, ReceiveResult(w) PROVE Work' \in Nat /\ Work' < Work
  <2>1. Sending' = Sending
    BY <1>2 DEF PortalInv, TasksOK, ReceiveResult, Goto, Sending
  <2>2. Len(CONFIG_SAVE_RESULT) = 1 /\ Len(CONFIG_SAVE_RESULT') = 0
    BY <1>2, ReceiveResultOK
  <2>3. NEW_CONFIG' = NEW_CONFIG /\ unsent' = unsent
    BY <1>2 DEF ReceiveResult
  <2> QED BY <1>0, <2>1, <2>2, <2>3, Lengths DEF Work, Answers
<1>3. ASSUME NEW saved \in BOOLEAN, SaveNewConfig(saved) PROVE Work' \in Nat /\ Work' < Work
  <2>1. Sending' = Sending
    BY <1>3 DEF SaveNewConfig, workerVars, Sending
  <2>2. /\ Len(NEW_CONFIG) = 1 /\ Len(NEW_CONFIG') = 0 /\ unsent = None
        /\ \/ Len(CONFIG_SAVE_RESULT') = Len(CONFIG_SAVE_RESULT) + 1 /\ unsent' = None
           \/ Len(CONFIG_SAVE_RESULT') = Len(CONFIG_SAVE_RESULT) /\ unsent' # None
    BY <1>3, SaveMoves
  <2> QED BY <1>0, <2>1, <2>2, Lengths DEF Work, Answers
<1>4. ASSUME SendResult PROVE Work' \in Nat /\ Work' < Work
  <2>1. Sending' = Sending /\ NEW_CONFIG' = NEW_CONFIG
    BY <1>4 DEF SendResult, workerVars, Sending
  <2>2. /\ unsent # None /\ unsent' = None
        /\ Len(CONFIG_SAVE_RESULT) = 0 /\ Len(CONFIG_SAVE_RESULT') = 1
    BY <1>4, ResultMoves
  <2> QED BY <1>0, <2>1, <2>2, Lengths DEF Work, Answers
<1>5. ASSUME NEW w \in Workers, Respond(w) \/ Accept(w) \/ ReadOther(w)
      PROVE  Work' = Work
  <2>1. Sending' = Sending
    BY <1>5 DEF PortalInv, TasksOK, Respond, Accept, ReadOther, Goto, Sending
  <2> QED BY <1>5, <2>1 DEF Work, Answers, Respond, Accept, ReadOther, channels
<1>6. ASSUME Boot PROVE Work' = 0
  <2>1. Sending' = {}
    BY <1>6 DEF Boot, AllWorkers, Sending
  <2>2. NEW_CONFIG' = <<>> /\ CONFIG_SAVE_RESULT' = <<>> /\ unsent' = None
    BY <1>6 DEF Boot
  <2> QED BY <2>1, <2>2, FS_EmptySet DEF Work, Answers
<1>7. FormStep => Work' < Work
  BY <1>1, <1>2, <1>3, <1>4, Zenon DEF FormStep, Main
<1>8. (Work' \in Nat /\ Work' < Work) \/ Work' = Work \/ Work' = 0 => Work' <= Work
  BY <1>0
<1>9. ~Submit => (Work' \in Nat /\ Work' < Work) \/ Work' = Work \/ Work' = 0
  BY <1>1, <1>2, <1>3, <1>4, <1>5, <1>6, Zenon
     DEF Next, Worker, Main, Browser, Submit, SoftwareReset, PowerLoss
<1> QED BY <1>7, <1>8, <1>9, Zenon DEF LessWork

(***************************************************************************)
(* Forms do not go round for ever: every step of main or of a worker with  *)
(* a form leaves less to do, and nothing but another form adds to it.      *)
(* With NobodyWaitsInACircle this is why every form is answered, however   *)
(* many workers there are; what is left to fairness is that a task whose   *)
(* step stays possible takes it.                                           *)
(***************************************************************************)
THEOREM FormsRunOut == Spec => [](Work \in Nat) /\ [][LessWork]_vars
<1>1. PortalInv /\ PortalInv' /\ [Next]_vars => [LessWork]_vars
  BY WorkGetsLess
<1> QED BY <1>1, WorkIsNatural, PortalInvariant, PTL DEF Spec
=============================================================================
