SPECIFICATION KernelSpec
CONSTANTS
  shell = shell
  Blocks = 8
  WordBits = 2
  Caller = {shell}
  Size = {4, 5, 20, 64}
  BlockSize = 8
  DescSize = 4
  FrameCount = 60
  Slot = {a, b}
  Available <- MCAvailable
  Special <- MCSpecial
  Images <- MCImages
  SbrkLim = 6
  Increments = {1, 4}
  TablePages = 8
  PageCount = 48
  KernelStacks = 24
  UserSpace = 32
  OwnKernelStacks = 40
  SpaceMaxCalls = 5
  EvSlots = 3
  EvHandlers = {h1, h2}
  EvVoidHandlers = 1
  EvMark = {"a", "b", "c", "d", "e"}
INVARIANTS
  TypeOK
  Disjoint
  CounterAgrees
  FramesOwned
  HeapMapped
  EventsOrdered
PROPERTIES
  ImplementsAllocator
  EventsServed
CHECK_DEADLOCK FALSE
