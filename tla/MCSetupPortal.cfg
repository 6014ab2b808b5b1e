SPECIFICATION FairSpec
CONSTANTS
  None = None
  Configs = {home, office}
  Workers = {w1, w2, w3}
INVARIANTS
  PortalTypeOK
  EveryWaiterHasAResult
  RestartAfterVerifiedSave
PROPERTIES
  ImplementsSetupMode
  FormsAreAnswered
  SavedThenRestart
