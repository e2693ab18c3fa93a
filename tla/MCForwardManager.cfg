SPECIFICATION Spec
CONSTANTS
  Calls = {c1, c2}
  Fwds = {f1, f2}
  Pids = {p1, p2}
  NoPid = NoPid
  Names = {n1}
  NoName = NoName
  Ports = {q1, q2}
  Free = Free
  Stranger = Stranger
  NoFwd = NoFwd
  MaxChecks = 2
  MaxCrashes = 1
SYMMETRY Symmetry
INVARIANTS
  OnlyOwnProcessesAreSignalled
  ClosedMeansGone
  NoOrphanProcess
  NamesAreUnique
CHECK_DEADLOCK FALSE
