\* Buffers of 16 to 17 bytes for 4 to 40 MiB, a send buffer of 3 for 10 KiB.
CONSTANTS
  InitialSize = 16
  MaxRQGrowSize = 17
  SendSize = 3
  MessageSizes = {0, 1, 15}
  ReadSizes = {5, 10}
  WriteSizes = {2}
  CutTextHeader = 1
  CutTextSizes = {0, 4}
  MaxArrived = 18
  MaxWritten = 5
SPECIFICATION Spec
INVARIANTS
  TypeOK
  ReadsTheStream
  SentInOrder
PROPERTIES
  DropsOnlyWhatCannotFit
  PasteEnds
CHECK_DEADLOCK FALSE
