SPECIFICATION Spec
CONSTANTS
  winsys = winsys
  shell = shell
  mainA = mainA
  childA = childA
  mainB = mainB
  kernelP = kernelP
  shellP = shellP
  progA = progA
  progB = progB
  Thread = {shell, mainA, childA, mainB}
  Proc = {kernelP, shellP, progA, progB}
  UserProc = {progA, progB}
  Owner <- MCOwner
  Prio <- MCPrio
  NoTask = NoTask
  InitQueue <- WithoutServer
  InitList <- NoServerList
  Awake = {}
  Launcher = {shell}
  PHASE = 100
  SleepMs = {10}
INVARIANTS
  TypeOK
  RunningIsHead
  QueueSound
  ParentsLive
  LivingCounts
  MarkedOnlyYields
  SleepArmed
  OwnAddressSpace
  CriticalSections
