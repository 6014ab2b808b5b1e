SPECIFICATION Spec
CONSTANTS
  None = None
  Token = token
  SEQUENCE_MODULUS = 6
  SAMPLE_TIMEOUT_MILLIS = 2
  OFFLINE_COOLDOWN_MILLIS = 3
  MIN_TEMPERATURE_MILLI_C = 0
  MAX_TEMPERATURE_MILLI_C = 120
  HARD_EMERGENCY_TEMPERATURE_MILLI_C = 90
  MIN_DUTY_PERCENT = 20
  MAX_DUTY_PERCENT = 100
  INTERVAL = 1
  RESTART_SEC = 2
  Readings <- CoolAndHot
  PolicyDuties = {20}
  EMERGENCY_TEMPERATURE_MILLI_C = 90
  MAX_DELAY = 2
  MAX_DISTURBANCES = 1
INVARIANTS
  LinkTypeOK
  FanOffAfterSilence
  EpochAdopted
PROPERTIES
  NoRegression
