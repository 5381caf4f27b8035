SPECIFICATION FairSpec
CONSTANTS
  desktop = desktop
  winA = winA
  winB = winB
  progA = progA
  progB = progB
  kernel = kernel
  mouse = mouse
  Window = {desktop, winA, winB}
  Desktop = desktop
  NoWin = NoWin
  Program = {progA}
  Kernel = kernel
  Handlers = {}
  MaxCreated = 1
  MaxOps = 1
PROPERTY WindowsReleased
CHECK_DEADLOCK FALSE
