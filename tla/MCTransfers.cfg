SPECIFICATION TransferSpec
CONSTANTS
  TransferCalls = {c1, c2}
  Texts = {v1}
  Folder = Folder
  Absent = Absent
  Requests <- MCRequests
  MaxEdits = 1
  MaxFaults = 1
SYMMETRY Symmetry
INVARIANTS
  VerifiedMeansSame
  SuccessMeansCopied
