SPECIFICATION Spec
CONSTANTS
  t1 = t1
  t2 = t2
  c1 = c1
  p = p
  q = q
  old = old
  new = new
  Absent = Absent
  Folder = Folder
  Link = Link
  Binary = Binary
  Unset = Unset
  NoCaller = NoCaller
  Callers = {t1}
  Txns = {t1}
  Paths = {p, q}
  Texts = {old, new}
  Before <- MCBefore
  UnitBefore <- MCUnitBefore
  Mutation <- MCPatch
  ToolRequests <- MCToolRequests
  MaxEdits = 0
  MaxFaults = 0
INVARIANTS
  MatchingPatchIsMade
CHECK_DEADLOCK FALSE
