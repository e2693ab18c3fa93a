SPECIFICATION Spec
CONSTANTS
  t1 = t1
  t2 = t2
  c1 = c1
  p = p
  q = q
  old = old
  new = new
  Absent = Absent
  Folder = Folder
  Link = Link
  Binary = Binary
  Unset = Unset
  NoCaller = NoCaller
  Callers = {t1, t2, c1}
  Txns = {t1, t2}
  Paths = {p, q}
  Texts = {old, new}
  Before <- MCBefore
  UnitBefore <- MCUnitBefore
  Mutation <- MCMutation
  ToolRequests <- MCToolRequests
  MaxEdits = 1
  MaxFaults = 1
INVARIANTS
  TempsAreOwned
  OneInstaller
  OutcomeTellsEffects
  RollbackRestores
CHECK_DEADLOCK FALSE
