SPECIFICATION Spec
CONSTANTS
  None = None
  Configs = {home, office}
  Workers = {w1, w2}
INVARIANTS
  SavedPageIsTrue
