----------------------------- MODULE MCScheduler -----------------------------
(***************************************************************************)
(* Instances of Scheduler for TLC: the window server, which never blocks,  *)
(* the shell, which may start programs, and two user programs, the first   *)
(* with a child.                                                           *)
(***************************************************************************)
EXTENDS Scheduler

CONSTANTS winsys, shell, mainA, childA, mainB,
          kernelP, shellP, progA, progB

MCPrio == [t \in Thread |-> IF t \in {winsys, shell} THEN 1 ELSE 2]

MCOwner == [t \in Thread |-> CASE t = winsys -> kernelP
                               [] t = shell -> shellP
                               [] t \in {mainA, childA} -> progA
                               [] OTHER -> progB]

\* What is running at the start: the kernel threads, a program as well, or
\* the shell and a program after "kill" has ended the window server.
KernelThreads == << winsys, shell >>
WithProgram   == << shell, winsys, mainA >>
WithoutServer == << shell, mainA >>

KernelList   == << kernelP, shellP >>
ProgramList  == << kernelP, shellP, progA >>
NoServerList == << shellP, progA >>
=============================================================================
