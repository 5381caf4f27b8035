SPECIFICATION FairSpec
CONSTANTS
  p = p
  q = q
  winsys = winsys
  display = display
  focus = focus
  Producer = {p, q}
  Listener = winsys
  Interrupted = {winsys}
  Depth = 2
  Op = {display, focus}
  NoOp = NoOp
  Size = 3
  Burst = 2
INVARIANTS
  TypeOK
  OneHolder
  SelfSpinsInWakeUp
PROPERTIES
  RefinesQueue
  OperationsPerformed
CHECK_DEADLOCK FALSE
