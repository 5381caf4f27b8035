SPECIFICATION FairSpec
CONSTANTS
  winsys = winsys
  shell = shell
  mainA = mainA
  childA = childA
  mainB = mainB
  kernelP = kernelP
  shellP = shellP
  progA = progA
  progB = progB
  Thread = {winsys, shell}
  Proc = {kernelP, shellP, progA, progB}
  UserProc = {progA, progB}
  Owner <- MCOwner
  Prio <- MCPrio
  NoTask = NoTask
  InitQueue <- KernelThreads
  InitList <- KernelList
  Awake = {winsys}
  Launcher = {}
  PHASE = 100
  SleepMs = {10}
PROPERTY SleepEnds
