SPECIFICATION Spec
CONSTANTS
  None = None
  Configs = {home, office}
  SLOT_COUNT = 6
  GENERATION_MODULUS = 12
INVARIANTS
  StorageTypeOK
  JournalInOrder
  ScanFindsHead
PROPERTIES
  ImplementsRegister
