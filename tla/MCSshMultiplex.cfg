SPECIFICATION Spec
CONSTANTS
  Calls = {c1, c2, c3}
  Targets = {t1, t2}
  NoTarget = NoTarget
  NoCall = NoCall
  MaxTargets = 1
  Required = FALSE
  Inherited = {t2}
SYMMETRY Symmetry
INVARIANTS
  SingleFlight
  MastersAreBounded
  MastersAreKnown
CHECK_DEADLOCK FALSE
