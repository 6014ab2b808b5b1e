SPECIFICATION SlewSpec
CONSTANTS
  None = None
  Candidates <- MCCandidates
  Temperatures <- MCTemperatures
  Elapsed = {1, 6}
  TICKS_PER_SECOND = 2
  SCALE = 2
INVARIANTS
  PolicyTypeOK
  SlewBounded
  RampIsFollowed
  TargetTracksCurve
PROPERTIES
  NeverOvershoots
  NoHunting
  SettledTargetReached
  SteadyReadingSettles
