SPECIFICATION Spec
CONSTANTS
  c1 = c1
  c2 = c2
  Calls = {c1, c2}
  Worlds <- MCWorlds
  NoEntry = NoEntry
  MaxChanges = 1
INVARIANTS
  SecretIsLastResort
  NoReplayOfSelected
  NoPromptLeftOpen
