\* Three handlers and one file of two bytes; the disk may fail.
SPECIFICATION FairFSSpec
CONSTANTS
  h1 = h1
  h2 = h2
  h3 = h3
  Handlers = {h1, h2, h3}
  Files = {"f"}
  Bytes = {0, 1}
  Hole = Hole
  Missing = Missing
  NoHandler = NoHandler
  NoCall = NoCall
  NoAnswer = NoAnswer
  Shut = Shut
  Linked = Linked
  MayFault = TRUE
  Requests <- TwoByteCalls
INVARIANTS FSInv FSTypeOK OrphansAreLast
PROPERTIES ImplementsFileStore MutexGivenBack
