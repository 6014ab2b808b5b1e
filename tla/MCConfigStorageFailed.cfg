SPECIFICATION Spec
CONSTANTS
  None = None
  Configs = {home, office}
  SLOT_COUNT = 3
  GENERATION_MODULUS = 6
INVARIANTS
  FailedSaveChangesNothing
