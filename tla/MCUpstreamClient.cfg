SPECIFICATION FairSpec
CONSTANTS
  Calls = {c1, l1}
  Lists = {l1}
  MaxConns = 3
  NoConn = 0
  Failure = Failure
  NoCall = NoCall
  MaxAttempts = 2
  MaxRestarts = 1
INVARIANTS
  ClientIsTheLiveConnection
  ClosedForGood
PROPERTIES
  ImplementsChannel
  CallsReturn
CHECK_DEADLOCK FALSE
