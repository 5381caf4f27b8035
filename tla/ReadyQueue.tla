----------------------------- MODULE ReadyQueue -----------------------------
(***************************************************************************)
(* The list _readyQueue of kernel/scheduler.c as a sequence of threads,    *)
(* and the functions that read and reorder it.  The head of the list is    *)
(* the thread that owns the CPU: enable_scheduling() and fork() find the   *)
(* running thread by asking for the head, so no insertion may disturb it.  *)
(***************************************************************************)
EXTENDS Integers, Sequences, SequencesExt

CONSTANTS Thread,   \* the threads that may ever be queued
          Prio      \* their priority, 1 (PRIORITY_HIGH) to 3 (PRIORITY_LOW)

ASSUME PrioAssumption == Prio \in [Thread -> 1 .. 3]

-----------------------------------------------------------------------------

(***************************************************************************)
(* Where the walk of a prioritized insertion stops: at the first entry of  *)
(* lower priority than p (a larger number), or at the last entry.          *)
(***************************************************************************)
Stops(q, p) == {i \in 1 .. Len(q) : i = Len(q) \/ Prio[q[i]] > p}
Stop(q, p)  == CHOOSE i \in Stops(q, p) : \A j \in Stops(q, p) : i <= j

\* Faulty: before the first entry of no higher priority, the head included.
InsertPrioritizedFront(q, t) ==
  LET no_higher == {i \in 1 .. Len(q) : Prio[q[i]] >= Prio[t]}
  IN  IF no_higher = {} THEN Append(q, t)
      ELSE InsertAt(q, CHOOSE i \in no_higher : \A j \in no_higher : i <= j, t)

\* Faulty: before the first entry of lower priority, a sorted queue.
InsertPrioritizedSorted(q, t) ==
  LET lower == {i \in 1 .. Len(q) : Prio[q[i]] > Prio[t]}
  IN  IF lower = {} THEN Append(q, t)
      ELSE InsertAt(q, CHOOSE i \in lower : \A j \in lower : i <= j, t)

(***************************************************************************)
(* queue_insert_prioritized: the new entry goes AFTER the entry the walk   *)
(* stops at, even when that entry has the lower priority.                  *)
(***************************************************************************)
InsertPrioritized(q, t) ==
  IF q = << >> THEN << t >> ELSE InsertAt(q, Stop(q, Prio[t]) + 1, t)

\* Faulty: the new entry becomes the head of the list.
InsertFirst(q, t) == << t >> \o q

\* queue_insert: at the tail.
Insert(q, t) == Append(q, t)

\* Faulty: the head is inserted again without being removed.
RotateCopy(q) == InsertPrioritized(q, Head(q))

(***************************************************************************)
(* One turn of the do-while loop of scheduler_dispatch: the head is        *)
(* removed and inserted again by priority among the others.                *)
(***************************************************************************)
Rotate(q) == InsertPrioritized(Tail(q), Head(q))

\* The threads in the queue, and that no thread has two entries.
Queued(q) == {q[i] : i \in 1 .. Len(q)}

NoDuplicates(q) == \A i, j \in 1 .. Len(q) : q[i] = q[j] => i = j
=============================================================================
