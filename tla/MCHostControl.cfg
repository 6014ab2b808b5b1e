SPECIFICATION ReplaySpec
CONSTANTS
  None = None
  Token = token
  Packets <- MCPackets
  SEQUENCE_MODULUS = 6
  SAMPLE_TIMEOUT_MILLIS = 1
  OFFLINE_COOLDOWN_MILLIS = 3
  MIN_TEMPERATURE_MILLI_C = 0
  MAX_TEMPERATURE_MILLI_C = 120
  HARD_EMERGENCY_TEMPERATURE_MILLI_C = 90
  MIN_DUTY_PERCENT = 20
  MAX_DUTY_PERCENT = 100
INVARIANTS
  ReplayTypeOK
  EpochIsBehind
PROPERTIES
  NoReplayInEpoch
  HeatForcesFull
