SPECIFICATION FairSpec
CONSTANTS
  Clients = {c1, c2}
  Keys = {k1}
  Values = {v1, v2}
  Absent = Absent
  BadOp = BadOp
  NoState = NoState
  Torn = Torn
PROPERTY UpdatesAreAnswered
INVARIANTS StoreInv FileIsWhole CacheMatchesFile InitialReadPrecedesWrites
PROPERTY ImplementsAtomicStore
