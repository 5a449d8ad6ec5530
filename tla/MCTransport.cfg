SPECIFICATION FairTransport
CONSTANTS
  Co = {1, 2, 3}
  None = 0
  capacity = 1
  MaxPush = 3
  buffer_size = 3
  Options <- BufferOptions
  Lengths = {1, 2, 3}
  MaxBytes = 9
  NULL = NULL
INVARIANTS
  ChannelSound
  InOrder
  BytesKept
  PacketsWhole
PROPERTIES
  SendsKept
  
  MemoryKept
  TableKept
  HeapIsQueue
  
\* The parts end: their bounds are reached.
CHECK_DEADLOCK FALSE
