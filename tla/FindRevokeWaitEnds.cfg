\* Finding: the wait for acknowledgements never ends.
CONSTANTS
  c1 = c1
  c2 = c2
  Clients = {c1, c2}
  f1 = f1
  Files = {f1}
  WriteRanges <- OneByte
  ReadRanges = {}
  NoClient = NoClient
  NoRequest = NoRequest
SPECIFICATION FairSpec
PROPERTY RevokeWaitEnds
CHECK_DEADLOCK FALSE
