SPECIFICATION Spec
CONSTANTS
  a = a
  b = b
  r1 = r1
  r2 = r2
  r3 = r3
  Calls = {c1, c2}
  Requests = {"ensure", "detach", "close"}
  Names = {n1, n2}
  Targets = {a}
  Remotes = {r1, r2, r3}
  Home <- HomeOnOne
  Handles = {h1, h2, h3}
  NoEntry = NoEntry
  NoHandle = NoHandle
  NoRemote = NoRemote
  NoName = NoName
  NoTarget = NoTarget
  OneCallPerName = TRUE
  ReportsRemoteId = FALSE
  MayCrash = FALSE
  MayFail = FALSE
  MayBreak = FALSE
  Mortal = {}
SYMMETRY Symmetry
CHECK_DEADLOCK FALSE
INVARIANT NoOrphanSession
PROPERTY ImplementsSessionNames
