------------------------------ MODULE Scheduler ------------------------------
(***************************************************************************)
(* kernel/scheduler.c with the two interrupt stubs that drive it           *)
(* (scheduler_isr on irq 0, scheduler_raw on int 0x81) and the steps of    *)
(* kernel/process.c that create and end user processes, as far as they     *)
(* touch the scheduler.                                                    *)
(*                                                                         *)
(* One CPU: at any moment one thread executes, and it executes one line of *)
(* the model at a time; between two lines the timer may preempt it.  The   *)
(* critical sections of the code are "disable_scheduling(); ...;           *)
(* enable_scheduling();": _currentTask = 0 makes both stubs return at      *)
(* once, and enabling again trusts that the caller is the queue's head.    *)
(***************************************************************************)
EXTENDS ReadyQueue, FiniteSets

CONSTANTS
  Proc,        \* processes; a process stands for its descriptor and page directory
  Owner,       \* the process each thread belongs to (thread.parent)
  UserProc,    \* the processes started from an executable
  NoTask,      \* the null _currentTask
  InitQueue,   \* the threads scheduler_initialize leaves in the queue
  InitList,    \* their processes in the order of processList
  Awake,       \* threads that never block: winsys_listener polls its queue
  Launcher,    \* threads that start programs (the shell, or any user program)
  PHASE,       \* timer interrupts a second
  SleepMs      \* the arguments thread_sleep is called with

ASSUME SchedulerAssumption ==
  /\ Owner \in [Thread -> Proc]
  /\ UserProc \subseteq Proc
  /\ NoTask \notin Thread \cup Proc
  /\ InitQueue \in Seq(Thread)
  /\ InitQueue # << >>
  /\ NoDuplicates(InitQueue)
  /\ InitList \in Seq(Proc) /\ InitList # << >>
  /\ Awake \subseteq Thread /\ Launcher \subseteq Thread
  /\ PHASE \in 1 .. 1000
  /\ SleepMs \subseteq Nat

VARIABLES
  queue,    \* _readyQueue
  current,  \* _currentTask: a thread, or NoTask while scheduling is disabled
  cpu,      \* the thread whose stack and registers are on the processor
  mode,     \* "run", or inside scheduler_dispatch, called by "tick" or "raw"
  curdir,   \* _cur_directory: the process whose page directory is loaded
  flags,    \* thread.state without the always-set THREAD_RUN
  delta,    \* thread.sleepTimeDelta, in ticks
  pc,       \* the kernel operation a thread is in the middle of
  arg,      \* the operand of that operation: a thread or a process
  reg,      \* what the operation has read and is about to use
  fresh,    \* threads that do not exist yet
  linked,   \* threads in their process's threadList
  living,   \* process.livingThreads
  space,    \* descriptor and page directory: "none", "live" or "freed"
  next      \* process.next of every process; of NoTask: processList

queueVars  == << queue, current, cpu, mode, curdir >>
threadVars == << flags, delta, pc, arg, reg, fresh >>
procVars   == << linked, living, space, next >>
vars       == << queueVars, threadVars, procVars >>

Flag  == {"SLEEP", "TERMINATE", "SUSPENDED"}
Label == {"run", "sleep", "yield", "load", "publish", "enter", "insert", "link",
          "append", "count", "store", "unlink", "leave", "disable", "mark"}

ThreadsOf(p) == {t \in Thread : Owner[t] = p}
Blocked(t)   == "SLEEP" \in flags[t] \/ "SUSPENDED" \in flags[t]
Marked(t)    == "TERMINATE" \in flags[t]
\* Faulty: a marked thread counts as runnable.
RunnableMarked(t) == ~ Blocked(t)
Runnable(t)  == ~ Blocked(t) /\ ~ Marked(t)

Node     == Proc \cup {NoTask}
Register == [at : Node, to : Node, list : SUBSET Thread, count : Int]
NoReg    == [at |-> NoTask, to |-> NoTask, list |-> {}, count |-> 0]

\* The processes processList leads to.
Listed ==
  Proc \cap FoldLeft(LAMBDA found, i : found \cup {next[p] : p \in found},
                    {NoTask}, [i \in 1 .. Cardinality(Proc) |-> i])

\* queue_get(), and so the value enable_scheduling() gives _currentTask.
QueueGet(q) == IF q = << >> THEN NoTask ELSE Head(q)

Init ==
  /\ queue = InitQueue
  /\ current = Head(InitQueue)
  /\ cpu = Head(InitQueue)
  /\ mode = "run"
  /\ curdir = Owner[Head(InitQueue)]
  /\ flags = [t \in Thread |-> {}]
  /\ delta = [t \in Thread |-> 0]
  /\ pc = [t \in Thread |-> "run"]
  /\ arg = [t \in Thread |-> NoTask]
  /\ reg = [t \in Thread |-> NoReg]
  /\ fresh = Thread \ Queued(InitQueue)
  /\ linked = Queued(InitQueue)
  /\ living = [p \in Proc |-> Cardinality({t \in Queued(InitQueue) : Owner[t] = p})]
  /\ space = [p \in Proc |-> IF \E t \in Queued(InitQueue) : Owner[t] = p
                             THEN "live" ELSE "none"]
  /\ next = [p \in Node |->
               IF p = NoTask THEN InitList[1]
               ELSE IF \E i \in 1 .. Len(InitList) - 1 : InitList[i] = p
               THEN InitList[(CHOOSE i \in 1 .. Len(InitList) - 1 : InitList[i] = p) + 1]
               ELSE NoTask]
-----------------------------------------------------------------------------
(***************************************************************************)
(* Interrupts.  Irq 0 preempts the running thread unless scheduling is     *)
(* disabled; int 0x81 is the thread's own schedule().                      *)
(***************************************************************************)
At(t, l) == mode = "run" /\ cpu = t /\ pc[t] = l

Goto(t, l) == pc' = [pc EXCEPT ![t] = l]

Tick ==
  /\ mode = "run" /\ current # NoTask
  /\ mode' = "tick"
  /\ UNCHANGED << queue, current, cpu, curdir, threadVars, procVars >>

Schedule(t) ==
  /\ At(t, "yield")
  /\ Goto(t, "run")
  /\ mode' = IF current # NoTask THEN "raw" ELSE mode
  /\ UNCHANGED << queue, current, cpu, curdir, flags, delta, arg, reg, fresh, procVars >>

(***************************************************************************)
(* scheduler_dispatch, one action per way a turn of its loop can end.      *)
(* Interrupts are off, so nothing else happens between two turns.          *)
(***************************************************************************)
InDispatch == mode \in {"tick", "raw"}
Candidate  == Head(Rotate(queue))

\* A terminated thread whose page directory is loaded is left for later.
DispatchSkip ==
  /\ InDispatch /\ queue # << >>
  /\ Marked(Candidate) /\ curdir = Owner[Candidate]
  /\ queue' = Rotate(queue) /\ current' = Candidate
  /\ UNCHANGED << cpu, mode, curdir, threadVars, procVars >>

\* Faulty: reaps also when the thread's page directory is the one loaded.
DispatchReapLoaded ==
  LET t == Candidate
      p == Owner[t]
  IN  /\ InDispatch /\ queue # << >>
      /\ Marked(t)
      /\ queue' = Tail(Rotate(queue)) /\ current' = t
      /\ living' = [living EXCEPT ![p] = @ - 1]
      /\ space' = IF living[p] = 1 THEN [space EXCEPT ![p] = "freed"] ELSE space
      /\ UNCHANGED << cpu, mode, curdir, threadVars, linked, next >>

\* Any other terminated thread is reaped, the process with its last thread.
DispatchReap ==
  LET t == Candidate
      p == Owner[t]
  IN  /\ InDispatch /\ queue # << >>
      /\ Marked(t) /\ curdir # p
      /\ queue' = Tail(Rotate(queue)) /\ current' = t
      /\ living' = [living EXCEPT ![p] = @ - 1]
      /\ space' = IF living[p] = 1 THEN [space EXCEPT ![p] = "freed"] ELSE space
      /\ UNCHANGED << cpu, mode, curdir, threadVars, linked, next >>

DispatchBlocked ==
  /\ InDispatch /\ queue # << >>
  /\ ~ Marked(Candidate) /\ Blocked(Candidate)
  /\ queue' = Rotate(queue) /\ current' = Candidate
  /\ UNCHANGED << cpu, mode, curdir, threadVars, procVars >>

\* Faulty: counts down threads that are not asleep too.
CountDownAll ==
  /\ delta' = [t \in Thread |-> IF t \in Queued(queue) THEN delta[t] - 1 ELSE delta[t]]
  /\ flags' = [t \in Thread |-> IF t \in Queued(queue) /\ delta[t] = 1
                                THEN flags[t] \ {"SLEEP"} ELSE flags[t]]

\* Faulty: never clears the sleep flag.
CountDownOnly ==
  /\ delta' = [t \in Thread |-> IF t \in Queued(queue) /\ delta[t] > 0
                                THEN delta[t] - 1 ELSE delta[t]]
  /\ UNCHANGED flags

(***************************************************************************)
(* The loop ends: scheduler_tick counts every queued sleeper down, and the *)
(* stub loads the new thread's stack and page directory.                   *)
(***************************************************************************)
CountDown ==
  LET due == {t \in Queued(queue) : delta[t] > 0}
  IN  /\ delta' = [t \in Thread |-> IF t \in due THEN delta[t] - 1 ELSE delta[t]]
      /\ flags' = [t \in Thread |-> IF t \in due /\ delta[t] = 1
                                    THEN flags[t] \ {"SLEEP"} ELSE flags[t]]

DispatchRun ==
  /\ InDispatch /\ queue # << >>
  /\ Runnable(Candidate)
  /\ queue' = Rotate(queue)
  /\ current' = Candidate /\ cpu' = Candidate /\ curdir' = Owner[Candidate]
  /\ mode' = "run"
  /\ IF mode = "tick" THEN CountDown ELSE UNCHANGED << flags, delta >>
  /\ UNCHANGED << pc, arg, reg, fresh, procVars >>

Dispatch == DispatchSkip \/ DispatchReap \/ DispatchBlocked \/ DispatchRun
-----------------------------------------------------------------------------
(***************************************************************************)
(* Blocking.  Both functions act on _currentTask, which is the caller only *)
(* as long as scheduling is enabled and the caller heads the queue.        *)
(***************************************************************************)
SleepFlag(t) ==
  /\ At(t, "run") /\ t \notin Awake /\ current # NoTask
  /\ flags' = [flags EXCEPT ![current] = @ \cup {"SLEEP"}]
  /\ Goto(t, "sleep")
  /\ UNCHANGED << queueVars, delta, arg, reg, fresh, procVars >>

\* Faulty: divides before it scales.
SleepDeltaSeconds(t, ms) ==
  /\ At(t, "sleep") /\ current # NoTask
  /\ delta' = [delta EXCEPT ![current] = (ms \div 1000) * PHASE]
  /\ Goto(t, "yield")
  /\ UNCHANGED << queueVars, flags, arg, reg, fresh, procVars >>

SleepDelta(t, ms) ==
  /\ At(t, "sleep") /\ current # NoTask
  /\ delta' = [delta EXCEPT ![current] = ms \div (1000 \div PHASE)]
  /\ Goto(t, "yield")
  /\ UNCHANGED << queueVars, flags, arg, reg, fresh, procVars >>

Suspend(t) ==
  /\ At(t, "run") /\ t \notin Awake /\ current # NoTask
  /\ flags' = [flags EXCEPT ![current] = @ \cup {"SUSPENDED"}]
  /\ Goto(t, "yield")
  /\ UNCHANGED << queueVars, delta, arg, reg, fresh, procVars >>

(***************************************************************************)
(* unsuspend_suspended_threads, called by the mouse and keyboard handlers  *)
(* in the context of whatever thread they interrupted.  It restores        *)
(* _currentTask only if scheduling was enabled when it started.            *)
(***************************************************************************)
Unsuspend(p) ==
  /\ mode = "run" /\ p \in Listed
  /\ \E t \in Queued(queue) : Owner[t] = p /\ "SUSPENDED" \in flags[t]
  /\ flags' = [t \in Thread |-> IF t \in Queued(queue) /\ Owner[t] = p
                                THEN flags[t] \ {"SUSPENDED"} ELSE flags[t]]
  /\ current' = IF current = NoTask THEN NoTask ELSE QueueGet(queue)
  /\ UNCHANGED << queue, cpu, mode, curdir, delta, pc, arg, reg, fresh, procVars >>
-----------------------------------------------------------------------------
(***************************************************************************)
(* createProcess.  The executable is loaded with the new page directory in *)
(* cr3 and scheduling disabled; the rest, from enable_scheduling() on, can *)
(* be preempted: enter the process in processList, the thread in the       *)
(* queue, the thread in the process's threadList.                          *)
(***************************************************************************)
CreateBegin(t, m) ==
  /\ At(t, "run") /\ t \in Launcher
  /\ m \in fresh /\ Owner[m] \in UserProc /\ space[Owner[m]] = "none"
  /\ space' = [space EXCEPT ![Owner[m]] = "live"]
  /\ fresh' = fresh \ {m}
  /\ arg' = [arg EXCEPT ![t] = m]
  /\ current' = NoTask /\ curdir' = Owner[m]
  /\ Goto(t, "load")
  /\ UNCHANGED << queue, cpu, mode, flags, delta, reg, linked, living, next >>

\* Faulty: the old page directory is not loaded again.
CreateFailNoSwitch(t) ==
  /\ At(t, "load")
  /\ space' = [space EXCEPT ![Owner[arg[t]]] = "none"]
  /\ fresh' = fresh \cup {arg[t]}
  /\ arg' = [arg EXCEPT ![t] = NoTask]
  /\ current' = QueueGet(queue) /\ UNCHANGED curdir
  /\ Goto(t, "run")
  /\ UNCHANGED << queue, cpu, mode, flags, delta, reg, linked, living, next >>

\* Faulty: the early return leaves scheduling disabled.
CreateFailDisabled(t) ==
  /\ At(t, "load")
  /\ space' = [space EXCEPT ![Owner[arg[t]]] = "none"]
  /\ fresh' = fresh \cup {arg[t]}
  /\ arg' = [arg EXCEPT ![t] = NoTask]
  /\ curdir' = Owner[t] /\ UNCHANGED current
  /\ Goto(t, "run")
  /\ UNCHANGED << queue, cpu, mode, flags, delta, reg, linked, living, next >>

\* load_executable fails: the new page directory is released again.
CreateFail(t) ==
  /\ At(t, "load")
  /\ space' = [space EXCEPT ![Owner[arg[t]]] = "none"]
  /\ fresh' = fresh \cup {arg[t]}
  /\ arg' = [arg EXCEPT ![t] = NoTask]
  /\ current' = QueueGet(queue) /\ curdir' = Owner[t]
  /\ Goto(t, "run")
  /\ UNCHANGED << queue, cpu, mode, flags, delta, reg, linked, living, next >>

CreateLoaded(t) ==
  /\ At(t, "load")
  /\ current' = QueueGet(queue) /\ curdir' = Owner[t]
  /\ Goto(t, "publish")
  /\ UNCHANGED << queue, cpu, mode, flags, delta, arg, reg, fresh, procVars >>

(***************************************************************************)
(* insert_process, with scheduling enabled: the walk to the end of the     *)
(* list, and the assignment there, whatever has become of that end.        *)
(***************************************************************************)
InsertProcess(t) ==
  \/ /\ At(t, "publish")
     /\ \E p \in Listed \cup {NoTask} :
          /\ next[p] = NoTask
          /\ reg' = [reg EXCEPT ![t].at = p, ![t].to = Owner[arg[t]]]
     /\ Goto(t, "enter")
     /\ UNCHANGED << queueVars, flags, delta, arg, fresh, procVars >>
  \/ /\ At(t, "enter")
     /\ next' = [next EXCEPT ![reg[t].at] = reg[t].to]
     /\ reg' = [reg EXCEPT ![t] = NoReg]
     /\ Goto(t, "insert")
     /\ UNCHANGED << queueVars, flags, delta, arg, fresh, linked, living, space >>

QueueInsert(t) ==
  /\ At(t, "insert")
  /\ queue' = Insert(queue, arg[t])
  /\ current' = IF current = NoTask THEN NoTask ELSE QueueGet(queue')
  /\ Goto(t, "link")
  /\ UNCHANGED << cpu, mode, curdir, flags, delta, arg, reg, fresh, procVars >>

(***************************************************************************)
(* insert_thread_to_proc, with scheduling enabled: the walk to the end of  *)
(* threadList, the assignment there, and livingThreads++, a load and a     *)
(* store.  What was appended after the walk is cut off again; if the list  *)
(* has been released the thread goes into freed memory.                    *)
(***************************************************************************)
AppendThread(t) ==
  LET p   == Owner[arg[t]]
      saw == reg[t].list
  IN  \/ /\ At(t, "link")
         /\ reg' = [reg EXCEPT ![t].list = linked \cap ThreadsOf(p)]
         /\ Goto(t, "append")
         /\ UNCHANGED linked
      \/ /\ At(t, "append")
         /\ linked' = IF saw \subseteq linked
                      THEN (linked \ (ThreadsOf(p) \ saw)) \cup {arg[t]} ELSE linked
         /\ reg' = [reg EXCEPT ![t] = NoReg]
         /\ Goto(t, "count")

CountThread(t) ==
  LET p == Owner[arg[t]]
  IN  \/ /\ At(t, "count")
         /\ reg' = [reg EXCEPT ![t].count = living[p]]
         /\ Goto(t, "store")
         /\ UNCHANGED << living, arg >>
      \/ /\ At(t, "store")
         /\ living' = [living EXCEPT ![p] = reg[t].count + 1]
         /\ arg' = [arg EXCEPT ![t] = NoTask] /\ reg' = [reg EXCEPT ![t] = NoReg]
         /\ Goto(t, "run")

InsertThreadToProc(t) ==
  \/ AppendThread(t) /\ UNCHANGED << queueVars, flags, delta, arg, fresh, living, space, next >>
  \/ CountThread(t) /\ UNCHANGED << queueVars, flags, delta, fresh, linked, space, next >>

\* Faulty: the child is not counted in livingThreads.
ForkUncounted(t, c) ==
  /\ At(t, "run") /\ Owner[t] \in UserProc
  /\ c \in fresh /\ Owner[c] = Owner[t] /\ Prio[c] = Prio[t]
  /\ fresh' = fresh \ {c}
  /\ linked' = linked \cup {c}
  /\ queue' = InsertPrioritized(queue, c)
  /\ current' = QueueGet(queue')
  /\ UNCHANGED << cpu, mode, curdir, flags, delta, pc, arg, reg, living, space, next >>

\* Faulty: the child is not entered in threadList.
ForkUnlisted(t, c) ==
  /\ At(t, "run") /\ Owner[t] \in UserProc
  /\ c \in fresh /\ Owner[c] = Owner[t] /\ Prio[c] = Prio[t]
  /\ fresh' = fresh \ {c}
  /\ living' = [living EXCEPT ![Owner[t]] = @ + 1]
  /\ queue' = InsertPrioritized(queue, c)
  /\ current' = QueueGet(queue')
  /\ UNCHANGED << cpu, mode, curdir, flags, delta, pc, arg, reg, linked, space, next >>

(***************************************************************************)
(* fork: one critical section.  The parent is the head of the queue, taken *)
(* after scheduling was disabled; the child joins its process and enters   *)
(* the queue by priority.                                                  *)
(***************************************************************************)
Fork(t, c) ==
  LET parent == QueueGet(queue)
      p      == Owner[parent]
  IN  /\ At(t, "run") /\ Owner[t] \in UserProc
      /\ c \in fresh /\ Owner[c] = p /\ Prio[c] = Prio[parent]
      /\ fresh' = fresh \ {c}
      /\ linked' = linked \cup {c}
      /\ living' = [living EXCEPT ![p] = @ + 1]
      /\ queue' = InsertPrioritized(queue, c)
      /\ current' = QueueGet(queue')
      /\ UNCHANGED << cpu, mode, curdir, flags, delta, pc, arg, reg, space, next >>
-----------------------------------------------------------------------------
(***************************************************************************)
(* terminateProcess and terminateProcessById of a user process, run by one *)
(* of its own threads (the exit system call or a fault).  The descriptor   *)
(* is looked up, taken out of processList, and then, with scheduling       *)
(* disabled, every thread of its threadList is marked; the dispatcher      *)
(* releases the descriptor later.                                          *)
(***************************************************************************)
TerminateLookup(t) ==
  /\ At(t, "run") /\ current # NoTask
  /\ Owner[current] \in UserProc \cap Listed
  /\ arg' = [arg EXCEPT ![t] = Owner[current]]
  /\ Goto(t, "unlink")
  /\ UNCHANGED << queueVars, flags, delta, reg, fresh, procVars >>

(***************************************************************************)
(* removeProcessFromList, with scheduling enabled: the walk to the process *)
(* and the one in front of it, and the assignment that bypasses it.        *)
(***************************************************************************)
RemoveProcessFromList(t) ==
  \/ /\ At(t, "unlink")
     /\ \/ \E p \in Listed \cup {NoTask} :
             /\ next[p] = arg[t]
             /\ reg' = [reg EXCEPT ![t].at = p, ![t].to = next[arg[t]]]
             /\ Goto(t, "leave")
        \/ arg[t] \notin Listed /\ UNCHANGED reg /\ Goto(t, "disable")
     /\ UNCHANGED << queueVars, flags, delta, arg, fresh, procVars >>
  \/ /\ At(t, "leave")
     /\ next' = [next EXCEPT ![reg[t].at] = reg[t].to]
     /\ reg' = [reg EXCEPT ![t] = NoReg]
     /\ Goto(t, "disable")
     /\ UNCHANGED << queueVars, flags, delta, arg, fresh, linked, living, space >>

TerminateDisable(t) ==
  /\ At(t, "disable")
  /\ current' = NoTask
  /\ Goto(t, "mark")
  /\ UNCHANGED << queue, cpu, mode, curdir, flags, delta, arg, reg, fresh, procVars >>

TerminateMark(t) ==
  LET doomed == linked \cap ThreadsOf(arg[t])
  IN  /\ At(t, "mark")
      /\ flags' = [u \in Thread |-> IF u \in doomed \cap Queued(queue)
                                    THEN flags[u] \cup {"TERMINATE"} ELSE flags[u]]
      /\ linked' = linked \ doomed
      /\ current' = QueueGet(queue)
      /\ arg' = [arg EXCEPT ![t] = NoTask]
      /\ Goto(t, "yield")
      /\ UNCHANGED << queue, cpu, mode, curdir, delta, reg, fresh, living, space, next >>
-----------------------------------------------------------------------------
\* The steps of an operation a thread has begun.
KernelStep(t) ==
  \/ Schedule(t)
  \/ \E ms \in SleepMs : SleepDelta(t, ms)
  \/ CreateFail(t) \/ CreateLoaded(t)
  \/ InsertProcess(t) \/ QueueInsert(t) \/ InsertThreadToProc(t)
  \/ RemoveProcessFromList(t) \/ TerminateDisable(t) \/ TerminateMark(t)

\* The operations a thread may begin.
Call(t) ==
  \/ SleepFlag(t) \/ Suspend(t)
  \/ \E m \in Thread : CreateBegin(t, m)
  \/ \E c \in Thread : Fork(t, c)
  \/ TerminateLookup(t)

Next ==
  \/ Tick
  \/ Dispatch
  \/ \E p \in Proc : Unsuspend(p)
  \/ \E t \in Thread : KernelStep(t) \/ Call(t)

Spec == Init /\ [][Next]_vars

(***************************************************************************)
(* Fairness.  The timer keeps interrupting, and of the interrupts some     *)
(* fall outside the critical sections, which are short against the 10 ms   *)
(* period; the dispatch loop, which runs with interrupts off, keeps        *)
(* turning.  A thread that gets the CPU again and again gets further with  *)
(* the operation it is in, a few hundred instructions long.  Nothing is    *)
(* assumed of what a thread calls, nor that input ever arrives.            *)
(***************************************************************************)
Fairness ==
  /\ SF_vars(Tick)
  /\ WF_vars(Dispatch)
  /\ \A t \in Thread : SF_vars(KernelStep(t))

FairSpec == Spec /\ Fairness
-----------------------------------------------------------------------------
(***************************************************************************)
(* Properties.                                                             *)
(***************************************************************************)

\* The type invariant: the shape of the scheduler's variables.
TypeOK ==
  /\ queue \in Seq(Thread)
  /\ current \in Thread \cup {NoTask}
  /\ cpu \in Thread
  /\ mode \in {"run", "tick", "raw"}
  /\ curdir \in Proc
  /\ flags \in [Thread -> SUBSET Flag]
  /\ delta \in [Thread -> Nat]
  /\ pc \in [Thread -> Label]
  /\ arg \in [Thread -> Thread \cup Proc \cup {NoTask}]
  /\ reg \in [Thread -> Register]
  /\ fresh \subseteq Thread
  /\ linked \subseteq Thread
  /\ living \in [Proc -> Int]
  /\ space \in [Proc -> {"none", "live", "freed"}]
  /\ next \in [Node -> Node]

(***************************************************************************)
(* Whenever a thread executes, it heads the ready queue, and _currentTask  *)
(* is that thread or null.  enable_scheduling() (scheduler.c:43) and       *)
(* fork() (:987) take the head for the caller and are wrong otherwise; no  *)
(* insertion, rotation or reaping by others may displace it.               *)
(***************************************************************************)
RunningIsHead ==
  mode = "run" => /\ queue # << >>
                  /\ cpu = Head(queue)
                  /\ current \in {cpu, NoTask}

(***************************************************************************)
(* The queue's entries are distinct threads, none of which is still to be  *)
(* created: the copy of a thread that is marked, woken or counted down is  *)
(* the copy that is dispatched (scheduler.c:76-90 stops at the first).     *)
(***************************************************************************)
QueueSound == NoDuplicates(queue) /\ Queued(queue) \cap fresh = {}

(***************************************************************************)
(* The dispatcher follows thread.parent of every queued thread             *)
(* (scheduler.c:434-450, kernel_entry.asm:431): the descriptor and page    *)
(* directory of a queued thread's process have not been freed, and neither *)
(* has the page directory that is loaded.                                  *)
(***************************************************************************)
ParentsLive ==
  /\ \A t \in Queued(queue) : space[Owner[t]] = "live"
  /\ space[curdir] = "live"

(***************************************************************************)
(* As long as a process has a thread in the queue, livingThreads counts    *)
(* those it has, but for a main thread that its creator has queued and not *)
(* yet counted (process.c:280-282, :511).  The descriptor is freed when    *)
(* it reaches zero.                                                        *)
(***************************************************************************)
Linking(p) == {t \in Thread : /\ pc[t] \in {"link", "append", "count", "store"}
                              /\ Owner[arg[t]] = p}

LivingCounts ==
  \A p \in Proc :
    LET here == Queued(queue) \cap ThreadsOf(p)
    IN  here # {} => living[p] + Cardinality(Linking(p)) = Cardinality(here)

(***************************************************************************)
(* A thread that has been marked for termination executes nothing but the  *)
(* rest of terminateProcessById, up to its schedule() (process.c:606-608). *)
(***************************************************************************)
MarkedOnlyYields == mode = "run" /\ Marked(cpu) => pc[cpu] = "yield"

(***************************************************************************)
(* A thread about to give up the CPU in thread_sleep has a wake-up time:   *)
(* ms/(1000/PHASE) is zero for a sleep shorter than a tick                 *)
(* (scheduler.c:129-131), and the tick wakes no one whose delta is zero.   *)
(***************************************************************************)
SleepArmed ==
  mode = "run" /\ pc[cpu] = "yield" /\ "SLEEP" \in flags[cpu] => delta[cpu] > 0

(***************************************************************************)
(* disable_scheduling()/enable_scheduling() protect what is between them:  *)
(* while one thread is in such a section it is the one that executes, no   *)
(* other thread is in one, and scheduling is disabled exactly that long.   *)
(* The code has no nesting count and no owner to enforce it                *)
(* (scheduler.c:36-44): every early return must enable again.              *)
(***************************************************************************)
Critical == {"load", "mark"}

CriticalSections ==
  /\ \A t \in Thread : pc[t] \in Critical => mode = "run" /\ cpu = t /\ current = NoTask
  /\ mode = "run" /\ current = NoTask => pc[cpu] \in Critical

(***************************************************************************)
(* A page directory changes hands only with scheduling disabled or in a    *)
(* dispatch: a preemptible thread runs in its own address space, although  *)
(* createProcess loads the new one to read the executable into it.         *)
(***************************************************************************)
OwnAddressSpace == mode = "run" /\ current # NoTask => curdir = Owner[cpu]

(***************************************************************************)
(* scheduler_dispatch runs with interrupts off, so it must end: it never   *)
(* goes on turning past marked and blocked threads (scheduler.c:423-459).  *)
(***************************************************************************)
DispatchReturns == [](mode # "run" => <>(mode = "run"))

(***************************************************************************)
(* No starvation: a thread that stays in the queue unblocked and unmarked  *)
(* executes again and again, although an insertion by priority may put     *)
(* others in front of it at every turn (scheduler.c:259-285).              *)
(***************************************************************************)
EveryoneRuns ==
  \A t \in Thread :
    []<>(\/ mode = "run" /\ cpu = t
         \/ t \notin Queued(queue) \/ ~ Runnable(t))

(***************************************************************************)
(* A sleeper whose time has been set is woken (scheduler.c:502-510),       *)
(* whatever else is blocked, unless it is terminated.                      *)
(***************************************************************************)
SleepersWake ==
  \A t \in Thread :
    (delta[t] > 0) ~> (("SLEEP" \notin flags[t]) \/ Marked(t))

(***************************************************************************)
(* What process.c:208 asks for: once a process has been terminated, its    *)
(* page directory is freed.                                                *)
(***************************************************************************)
TerminatedIsFreed ==
  \A p \in Proc :
    (\E t \in Thread : pc[t] = "mark" /\ arg[t] = p) ~> (space[p] = "freed")

(***************************************************************************)
(* What thread_sleep's comments say (scheduler.c:128, :505): a thread that *)
(* goes to sleep is woken by the tick.                                     *)
(***************************************************************************)
SleepEnds ==
  \A t \in Thread :
    (pc[t] = "sleep") ~> (("SLEEP" \notin flags[t]) \/ Marked(t))
=============================================================================
