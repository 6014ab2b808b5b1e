SPECIFICATION FairSpec
CONSTANTS
  None = None
  Token = token
  Packets <- MCPackets
  SEQUENCE_MODULUS = 4
  SAMPLE_TIMEOUT_MILLIS = 2
  OFFLINE_COOLDOWN_MILLIS = 12
  MIN_TEMPERATURE_MILLI_C = 0
  MAX_TEMPERATURE_MILLI_C = 120
  HARD_EMERGENCY_TEMPERATURE_MILLI_C = 90
  MIN_DUTY_PERCENT = 20
  MAX_DUTY_PERCENT = 100
  CONNECT_LIMIT = 4
  RECONNECT_DELAY = 1
  Configs = {home, office}
  Joinable = {home}
  MAX_FAULTS = 3
INVARIANTS
  CoolerTypeOK
  OutageBounded
  PatientRestart
  FanOffUntilCommanded
PROPERTIES
  OutageResolves
  NetworkIsUsed
  FormLeadsToLink
