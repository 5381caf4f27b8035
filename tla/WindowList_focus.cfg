SPECIFICATION Spec
SYMMETRY Symmetry
CONSTANTS
  desktop = desktop
  winA = winA
  winB = winB
  progA = progA
  progB = progB
  kernel = kernel
  mouse = mouse
  Window = {desktop, winA, winB}
  Desktop = desktop
  NoWin = NoWin
  Program = {progA, progB}
  Kernel = kernel
  Handlers = {mouse}
  MaxCreated = 2
  MaxOps = 1
INVARIANTS
  TypeOK
  ListSound
  FocusAlive
  FocusInFront
CHECK_DEADLOCK FALSE
