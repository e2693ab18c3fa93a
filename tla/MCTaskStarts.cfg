SPECIFICATION Spec
CONSTANTS
  Calls = {c1, c2}
  Requests = {"start", "terminate"}
  Tasks = {t1, t2}
  Remotes = {r1, r2}
  Handles = {h1, h2}
  NoTask = NoTask
  NoRecord = NoRecord
  NoRemote = NoRemote
  MAX_BUFFER_DRAIN_READS = 1
  MaxBody = 0
  ReportsRemoteId = FALSE
  MayCrash = FALSE
  MayFail = FALSE
  MayTruncate = FALSE
  MayBreak = FALSE
CHECK_DEADLOCK FALSE
SYMMETRY Symmetry
INVARIANTS
  RunsInRecordedSession
  NoOrphanSession
