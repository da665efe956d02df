SPECIFICATION FairSpec
CONSTANTS
  Chunk = 4
  StreamChars = 8
  MaxSize = 19
  MaxRead = 7
  MaxImageBytes = 16
  Optimize = TRUE
INVARIANTS TypeOK EncodedExactly DeliveredExactly FetchedWhole
PROPERTY TransferEnds
CHECK_DEADLOCK FALSE
