SPECIFICATION Spec
CONSTANTS
  a = a
  b = b
  r1 = r1
  r2 = r2
  r3 = r3
  Calls = {c1, c2}
  Requests = {"ensure", "detach", "close"}
  Names = {n1, n2}
  Targets = {a, b}
  Remotes = {r1, r2, r3}
  Home <- HomeOnTwo
  Handles = {h1, h2, h3}
  NoEntry = NoEntry
  NoHandle = NoHandle
  NoRemote = NoRemote
  NoName = NoName
  NoTarget = NoTarget
  OneCallPerName = FALSE
  ReportsRemoteId = TRUE
  MayCrash = TRUE
  MayFail = TRUE
  MayBreak = TRUE
  Mortal = {r3}
SYMMETRY Symmetry
CHECK_DEADLOCK FALSE
INVARIANTS SessionInv HandleReachesTarget HandleReachesSession NamesHaveOwnSessions
