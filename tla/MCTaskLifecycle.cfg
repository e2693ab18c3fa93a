SPECIFICATION FairSpec
CONSTANTS
  Calls = {c1}
  Requests = {"start", "status", "output", "wait", "cancel", "terminate"}
  Tasks = {t1}
  Remotes = {r1}
  Handles = {h1, h2}
  NoTask = NoTask
  NoRecord = NoRecord
  NoRemote = NoRemote
  MAX_BUFFER_DRAIN_READS = 2
  MaxBody = 1
  ReportsRemoteId = FALSE
  MayCrash = TRUE
  MayFail = TRUE
  MayTruncate = TRUE
  MayBreak = TRUE
INVARIANTS
  TaskInv
  ExitStateIsTruthful
  LostMeansGone
  CancelledWasInterrupted
PROPERTY FollowsLifecycle
PROPERTY CallsReturn
