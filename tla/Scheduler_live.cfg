SPECIFICATION FairSpec
CONSTANTS
  winsys = winsys
  shell = shell
  mainA = mainA
  childA = childA
  mainB = mainB
  kernelP = kernelP
  shellP = shellP
  progA = progA
  progB = progB
  Thread = {winsys, shell, mainA, childA}
  Proc = {kernelP, shellP, progA, progB}
  UserProc = {progA, progB}
  Owner <- MCOwner
  Prio <- MCPrio
  NoTask = NoTask
  InitQueue <- WithProgram
  InitList <- ProgramList
  Awake = {winsys}
  Launcher = {}
  PHASE = 100
  SleepMs = {10}
PROPERTIES
  DispatchReturns
  EveryoneRuns
  SleepersWake
  TerminatedIsFreed
