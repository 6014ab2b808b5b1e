SPECIFICATION Spec
CONSTANTS
  None = None
  Token = token
  SEQUENCE_MODULUS = 4
  SAMPLE_TIMEOUT_MILLIS = 1
  OFFLINE_COOLDOWN_MILLIS = 2
  MIN_TEMPERATURE_MILLI_C = 0
  MAX_TEMPERATURE_MILLI_C = 120
  HARD_EMERGENCY_TEMPERATURE_MILLI_C = 90
  MIN_DUTY_PERCENT = 20
  MAX_DUTY_PERCENT = 100
  INTERVAL = 1
  RESTART_SEC = 1
  Readings <- CoolAndImplausible
  PolicyDuties = {20}
  EMERGENCY_TEMPERATURE_MILLI_C = 90
  MAX_DELAY = 1
  MAX_DISTURBANCES = 0
INVARIANTS
  ReportedHotForcesFull
