\* Two clients that read and write; the reallocation of the vector happens.
CONSTANTS
  c1 = c1
  c2 = c2
  Clients = {c1, c2}
  f1 = f1
  Files = {f1}
  WriteRanges <- Writes
  ReadRanges <- Reads
  NoClient = NoClient
  NoRequest = NoRequest
SYMMETRY Symmetry
SPECIFICATION Spec
INVARIANTS TypeOK TokenInv ServiceInv RangesNonEmpty PassedTokensAgree ExclusiveUntilContested ClosedHoldsNothing
PROPERTIES SplitLoopAdvances WriteGrantExclusive ImplementsLockService
CHECK_DEADLOCK FALSE
