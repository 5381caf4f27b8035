--------------------------- MODULE SchedulerProofs ---------------------------
(***************************************************************************)
(* Theorems about Scheduler for any threads, processes and priorities.     *)
(***************************************************************************)
EXTENDS Scheduler, TLAPS, WellFoundedInduction, SequenceTheorems, FiniteSetTheorems

(***************************************************************************)
(* What the steps need of SchedulerAssumption.                             *)
(***************************************************************************)
LEMMA Owners == Owner \in [Thread -> Proc] /\ UserProc \subseteq Proc /\ NoTask \notin Thread \cup Proc
  BY SchedulerAssumption

(***************************************************************************)
(* A non-empty set of natural numbers has a least element.                 *)
(***************************************************************************)
LEMMA LeastElement ==
  ASSUME NEW S, S \subseteq Nat, S # {}
  PROVE  \E i \in S : \A j \in S : i <= j
<1>1. PICK i \in S : \A j \in S : <<j, i>> \notin OpToRel(<, Nat)
  BY WFMin, NatLessThanWellFounded, Zenon
<1>2. \A j \in S : ~ (j < i)
  <2>1. ASSUME NEW j \in S, j < i
        PROVE  FALSE
    BY <1>1, <2>1, Zenon DEF OpToRel
  <2>. QED
    BY <2>1
<1>. QED
  BY <1>2

(***************************************************************************)
(* The walk of a prioritized insertion stops at an entry of the queue.     *)
(***************************************************************************)
LEMMA StopInQueue ==
  ASSUME NEW q \in Seq(Thread), q # << >>, NEW p
  PROVE  Stop(q, p) \in 1 .. Len(q)
<1>1. Stops(q, p) \subseteq Nat /\ Stops(q, p) \subseteq 1 .. Len(q)
  BY DEF Stops
<1>2. Len(q) \in Stops(q, p)
  BY EmptySeq DEF Stops
<1>3. \E i \in Stops(q, p) : \A j \in Stops(q, p) : i <= j
  BY <1>1, <1>2, LeastElement
<1>. QED
  BY <1>1, <1>3 DEF Stop

(***************************************************************************)
(* Inserting after the k-th entry, entry by entry.                         *)
(***************************************************************************)
LEMMA InsertAtEntries ==
  ASSUME NEW q \in Seq(Thread), NEW t \in Thread, NEW k \in 1 .. Len(q)
  PROVE  LET r == InsertAt(q, k + 1, t)
         IN  /\ r \in Seq(Thread)
             /\ Len(r) = Len(q) + 1
             /\ \A i \in 1 .. Len(r) : r[i] = IF i <= k THEN q[i]
                                              ELSE IF i = k + 1 THEN t ELSE q[i - 1]
<1> DEFINE a == SubSeq(q, 1, k)
           b == SubSeq(q, k + 1, Len(q))
<1>1. /\ a \in Seq(Thread) /\ Len(a) = k
      /\ \A i \in 1 .. k : a[i] = q[i]
  OBVIOUS
<1>2. /\ b \in Seq(Thread) /\ Len(b) = Len(q) - k
      /\ \A i \in 1 .. Len(q) - k : b[i] = q[k + i]
  OBVIOUS
<1> HIDE DEF a, b
<1> DEFINE c == a \o << t >>
<1>3. InsertAt(q, k + 1, t) = c \o b
  <2>1. (k + 1) - 1 = k
    OBVIOUS
  <2>2. InsertAt(q, k + 1, t) = SubSeq(q, 1, (k + 1) - 1) \o << t >> \o SubSeq(q, k + 1, Len(q))
    BY DEF InsertAt
  <2>. QED
    BY <2>1, <2>2 DEF a, b
<1>4. /\ c \in Seq(Thread) /\ Len(c) = k + 1
      /\ \A i \in 1 .. k : c[i] = q[i]
      /\ c[k + 1] = t
  BY <1>1
<1> HIDE DEF c
<1> DEFINE r == c \o b
<1>5. /\ r \in Seq(Thread) /\ Len(r) = Len(q) + 1
      /\ \A i \in 1 .. Len(r) : r[i] = IF i <= k + 1 THEN c[i] ELSE b[i - (k + 1)]
  <2>1. Len(q) \in Nat /\ k \in Nat /\ k >= 1 /\ k <= Len(q)
    BY LenProperties
  <2>2. /\ r \in Seq(Thread) /\ Len(r) = Len(c) + Len(b)
        /\ \A i \in 1 .. Len(c) + Len(b) : r[i] = IF i <= Len(c) THEN c[i] ELSE b[i - Len(c)]
    BY <1>2, <1>4, ConcatProperties
  <2>3. Len(c) + Len(b) = Len(q) + 1
    BY <2>1, <1>2, <1>4
  <2>. QED
    BY <2>2, <2>3, <1>4
<1> HIDE DEF r
<1>6. ASSUME NEW i \in 1 .. Len(r)
      PROVE  r[i] = IF i <= k THEN q[i] ELSE IF i = k + 1 THEN t ELSE q[i - 1]
  <2>1. CASE i <= k
    BY <2>1, <1>4, <1>5
  <2>2. CASE i = k + 1
    BY <2>2, <1>4, <1>5
  <2>3. CASE i > k + 1
    <3>1. i - (k + 1) \in 1 .. Len(q) - k
      BY <2>3, <1>5, LenProperties
    <3>2. r[i] = b[i - (k + 1)]
      BY <2>3, <1>5
    <3>4. b[i - (k + 1)] = q[k + (i - (k + 1))]
      BY <3>1, <1>2
    <3>3. k + (i - (k + 1)) = i - 1
      BY <1>5, LenProperties
    <3>. QED
      BY <2>3, <3>2, <3>3, <3>4, <1>5
  <2>. QED
    BY <2>1, <2>2, <2>3, <1>5, LenProperties
<1>7. InsertAt(q, k + 1, t) = r
  BY <1>3 DEF r
<1>8. \A i \in 1 .. Len(r) : r[i] = IF i <= k THEN q[i]
                                   ELSE IF i = k + 1 THEN t ELSE q[i - 1]
  BY <1>6
<1>. QED
  BY <1>5, <1>7, <1>8

(***************************************************************************)
(* queue_insert_prioritized adds one entry and leaves the head in place.   *)
(***************************************************************************)
LEMMA InsertPrioritizedProperties ==
  ASSUME NEW q \in Seq(Thread), NEW t \in Thread
  PROVE  LET r == InsertPrioritized(q, t)
         IN  /\ r \in Seq(Thread) /\ r # << >>
             /\ q # << >> => Head(r) = Head(q)
             /\ Queued(r) = Queued(q) \cup {t}
             /\ NoDuplicates(q) /\ t \notin Queued(q) => NoDuplicates(r)
<1>1. CASE q = << >>
  <2>1. InsertPrioritized(q, t) = << t >>
    BY <1>1 DEF InsertPrioritized
  <2>2. Queued(<< t >>) = {t} /\ Queued(q) = {}
    BY <1>1 DEF Queued
  <2>3. NoDuplicates(<< t >>)
    BY DEF NoDuplicates
  <2>4. << t >> \in Seq(Thread) /\ << t >> # << >>
    OBVIOUS
  <2>. QED
    BY <1>1, <2>1, <2>2, <2>3, <2>4
<1>2. CASE q # << >>
  <2> DEFINE k == Stop(q, Prio[t])
             r == InsertAt(q, k + 1, t)
  <2>1. k \in 1 .. Len(q)
    BY <1>2, StopInQueue
  <2> HIDE DEF k
  <2>2. /\ r \in Seq(Thread) /\ Len(r) = Len(q) + 1
        /\ \A i \in 1 .. Len(r) : r[i] = IF i <= k THEN q[i]
                                         ELSE IF i = k + 1 THEN t ELSE q[i - 1]
    BY <2>1, InsertAtEntries
  <2>3. InsertPrioritized(q, t) = r
    BY <1>2 DEF InsertPrioritized, k
  <2> HIDE DEF r
  <2>4. Len(q) \in Nat /\ Len(r) \in Nat /\ k \in Nat /\ k >= 1 /\ k <= Len(q)
    BY <2>1, <2>2, LenProperties
  <2>5. r # << >> /\ Head(r) = Head(q)
    BY <1>2, <2>2, <2>4
  <2>6. Queued(r) = Queued(q) \cup {t}
    <3>1. ASSUME NEW i \in 1 .. Len(r)
          PROVE  r[i] \in Queued(q) \cup {t}
      BY <2>2, <2>4 DEF Queued
    <3>2. ASSUME NEW i \in 1 .. Len(q)
          PROVE  q[i] \in Queued(r)
      <4>1. CASE i <= k
        BY <4>1, <2>2, <2>4 DEF Queued
      <4>2. CASE i > k
        <5>1. i + 1 \in 1 .. Len(r) /\ r[i + 1] = q[(i + 1) - 1]
          BY <4>2, <2>2, <2>4
        <5>2. r[i + 1] = q[i]
          BY <5>1, <2>4
        <5>. QED
          BY <5>1, <5>2 DEF Queued
      <4>. QED
        BY <4>1, <4>2, <2>4
    <3>3. t \in Queued(r)
      <4>1. k + 1 \in 1 .. Len(r) /\ r[k + 1] = t
        BY <2>2, <2>4
      <4>. QED
        BY <4>1 DEF Queued
    <3>. QED
      BY <3>1, <3>2, <3>3 DEF Queued
  <2>7. ASSUME NoDuplicates(q), t \notin Queued(q)
        PROVE  NoDuplicates(r)
    <3>1. \A i \in 1 .. Len(q) : q[i] # t
      BY <2>7 DEF Queued
    <3>2. \A i, j \in 1 .. Len(q) : q[i] = q[j] => i = j
      BY <2>7 DEF NoDuplicates
    <3>3. ASSUME NEW i \in 1 .. Len(r), NEW j \in 1 .. Len(r), r[i] = r[j]
          PROVE  i = j
      <4> DEFINE old(n) == IF n <= k THEN n ELSE n - 1
      <4>3. ASSUME NEW n \in 1 .. Len(r), n # k + 1
            PROVE  old(n) \in 1 .. Len(q) /\ r[n] = q[old(n)]
        BY <4>3, <2>2, <2>4
      <4>4. r[k + 1] = t
        BY <2>2, <2>4
      <4>1. CASE i = k + 1 \/ j = k + 1
        BY <4>1, <4>3, <4>4, <3>1, <3>3
      <4>2. CASE i # k + 1 /\ j # k + 1
        <5>1. old(i) = old(j)
          BY <4>2, <4>3, <3>2, <3>3
        <5>. QED
          BY <5>1, <4>2, <2>4, <3>3
      <4>. QED
        BY <4>1, <4>2
    <3>. QED
      BY <3>3 DEF NoDuplicates
  <2>. QED
    BY <1>2, <2>2, <2>3, <2>5, <2>6, <2>7
<1>. QED
  BY <1>1, <1>2

(***************************************************************************)
(* Removing the head takes that entry, and no other, out of the queue.     *)
(***************************************************************************)
LEMMA TailProperties ==
  ASSUME NEW q \in Seq(Thread), q # << >>
  PROVE  /\ Tail(q) \in Seq(Thread) /\ Head(q) \in Thread
         /\ Queued(q) = Queued(Tail(q)) \cup {Head(q)}
         /\ NoDuplicates(q) => NoDuplicates(Tail(q)) /\ Head(q) \notin Queued(Tail(q))
<1>1. /\ Tail(q) \in Seq(Thread) /\ Head(q) \in Thread /\ Head(q) = q[1]
      /\ Len(Tail(q)) = Len(q) - 1 /\ Len(q) \in Nat /\ Len(q) >= 1
      /\ \A i \in 1 .. Len(q) - 1 : Tail(q)[i] = q[i + 1]
  BY HeadTailProperties, EmptySeq, ElementOfSeq
<1>2. Queued(Tail(q)) \subseteq Queued(q) /\ Head(q) \in Queued(q)
  BY <1>1 DEF Queued
<1>3. ASSUME NEW i \in 1 .. Len(q)
      PROVE  q[i] \in Queued(Tail(q)) \cup {Head(q)}
  <2>1. CASE i = 1
    BY <2>1, <1>1
  <2>2. CASE i # 1
    <3>1. i - 1 \in 1 .. Len(q) - 1 /\ Tail(q)[i - 1] = q[(i - 1) + 1]
      BY <2>2, <1>1
    <3>2. (i - 1) + 1 = i
      BY <1>1
    <3>. QED
      BY <3>1, <3>2, <1>1 DEF Queued
  <2>. QED
    BY <2>1, <2>2
<1>4. Queued(q) = Queued(Tail(q)) \cup {Head(q)}
  BY <1>2, <1>3 DEF Queued
<1>5. ASSUME NoDuplicates(q)
      PROVE  NoDuplicates(Tail(q)) /\ Head(q) \notin Queued(Tail(q))
  BY <1>1, <1>5 DEF NoDuplicates, Queued
<1>. QED
  BY <1>1, <1>4, <1>5

(***************************************************************************)
(* A turn of the dispatch loop permutes the queue.                         *)
(***************************************************************************)
LEMMA RotateProperties ==
  ASSUME NEW q \in Seq(Thread), q # << >>
  PROVE  /\ Rotate(q) \in Seq(Thread) /\ Rotate(q) # << >>
         /\ Queued(Rotate(q)) = Queued(q)
         /\ NoDuplicates(q) => NoDuplicates(Rotate(q))
  BY TailProperties, InsertPrioritizedProperties DEF Rotate

(***************************************************************************)
(* The inductive invariant.  RunningIsHead is not inductive by itself:     *)
(* that enable_scheduling() returns the CPU to its caller depends on who   *)
(* can be inside a critical section, and that insertions keep the entries  *)
(* distinct depends on the operands of creations still in progress.        *)
(***************************************************************************)
Creating == {"load", "publish", "enter", "insert"}
Counting == {"link", "append", "count", "store"}

Operands ==
  /\ \A t \in Thread : pc[t] \in Creating \cup Counting => arg[t] \in Thread
  /\ \A t \in Thread : pc[t] \in {"unlink", "leave", "disable", "mark"} => arg[t] \in Proc

OneCreator ==
  /\ \A t \in Thread : pc[t] \in Creating => arg[t] \notin fresh \cup Queued(queue)
  /\ \A t \in Thread : pc[t] \in Counting => arg[t] \notin fresh
  /\ \A t, u \in Thread : /\ pc[t] \in Creating \cup Counting
                          /\ pc[u] \in Creating \cup Counting
                          /\ arg[t] = arg[u]
                          => t = u

LoadedDirectory == mode = "run" /\ pc[cpu] # "load" => curdir = Owner[cpu]

IInv ==
  /\ TypeOK
  /\ RunningIsHead
  /\ QueueSound
  /\ CriticalSections
  /\ MarkedOnlyYields
  /\ Operands
  /\ OneCreator
  /\ LoadedDirectory

(***************************************************************************)
(* queue_insert appends one entry and leaves the head in place.            *)
(***************************************************************************)
LEMMA AppendEntry ==
  ASSUME NEW q \in Seq(Thread), NEW t \in Thread
  PROVE  /\ Append(q, t) \in Seq(Thread) /\ Append(q, t) # << >>
         /\ q # << >> => Head(Append(q, t)) = Head(q)
         /\ Queued(Append(q, t)) = Queued(q) \cup {t}
         /\ NoDuplicates(q) /\ t \notin Queued(q) => NoDuplicates(Append(q, t))
<1> DEFINE r == Append(q, t)
<1>1. /\ r \in Seq(Thread) /\ Len(r) = Len(q) + 1 /\ Len(q) \in Nat
      /\ \A i \in 1 .. Len(q) : r[i] = q[i]
      /\ r[Len(q) + 1] = t
  BY AppendProperties, LenProperties
<1>2. r # << >> /\ (q # << >> => Head(r) = Head(q))
  BY HeadTailProperties, AppendProperties, EmptySeq
<1> HIDE DEF r
<1>3. Queued(r) = Queued(q) \cup {t}
  <2>1. \A i \in 1 .. Len(r) : r[i] \in Queued(q) \cup {t}
    BY <1>1 DEF Queued
  <2>2. Len(q) + 1 \in 1 .. Len(r) /\ \A i \in 1 .. Len(q) : i \in 1 .. Len(r)
    BY <1>1
  <2>. QED
    BY <1>1, <2>1, <2>2 DEF Queued
<1>4. NoDuplicates(q) /\ t \notin Queued(q) => NoDuplicates(r)
  BY <1>1 DEF NoDuplicates, Queued
<1>. QED
  BY <1>1, <1>2, <1>3, <1>4 DEF r

(***************************************************************************)
(* What is known of a thread that executes: it heads the queue, and        *)
(* _currentTask is null exactly inside its critical sections.              *)
(***************************************************************************)
LEMMA Caller ==
  ASSUME IInv, NEW t \in Thread, NEW l, At(t, l)
  PROVE  /\ mode = "run" /\ cpu = t /\ pc[t] = l
         /\ queue \in Seq(Thread) /\ queue # << >> /\ Head(queue) = t /\ QueueGet(queue) = t
         /\ l \in {"load", "mark"} => current = NoTask
         /\ l \notin {"load", "mark"} => current = t
         /\ t # NoTask
  BY Owners DEF IInv, TypeOK, RunningIsHead, CriticalSections,
     Critical, At, QueueGet

(***************************************************************************)
(* irq 0 enters the dispatcher (scheduler_isr). The inductive invariant is *)
(* preserved.                                                              *)
(***************************************************************************)
LEMMA TickStep ==
  ASSUME IInv, Tick
  PROVE  IInv'
<1>1. /\ queue' = queue /\ current' = current /\ cpu' = cpu /\ curdir' = curdir
      /\ flags' = flags /\ delta' = delta /\ pc' = pc /\ arg' = arg /\ fresh' = fresh
      /\ linked' = linked /\ living' = living /\ space' = space /\ next' = next /\ reg' = reg
  BY DEF Tick, queueVars, threadVars, procVars
<1>2. TypeOK'
  BY <1>1, Owners DEF IInv, TypeOK, Flag, Label, Tick
<1>3. RunningIsHead'
  BY <1>1, Owners DEF IInv, TypeOK, RunningIsHead, QueueGet,
     CriticalSections, Critical, Tick
<1>4. QueueSound'
  BY <1>1, Owners DEF IInv, TypeOK, QueueSound
<1>5. CriticalSections'
  BY <1>1, Owners DEF IInv, TypeOK, CriticalSections, Critical,
     RunningIsHead, QueueGet, Tick
<1>6. MarkedOnlyYields'
  BY <1>1, Owners DEF IInv, TypeOK, MarkedOnlyYields, Marked, Tick
<1>7. Operands'
  BY <1>1, Owners DEF IInv, TypeOK, Operands, Creating, Counting
<1>8. OneCreator'
  BY <1>1, Owners DEF IInv, TypeOK, OneCreator, Creating, Counting, QueueSound
<1>9. LoadedDirectory'
  BY <1>1, Owners DEF IInv, TypeOK, LoadedDirectory, Tick
<1>. QED
  BY <1>2, <1>3, <1>4, <1>5, <1>6, <1>7, <1>8, <1>9 DEF IInv

(***************************************************************************)
(* int 0x81 enters the dispatcher (scheduler_raw). The inductive invariant *)
(* is preserved.                                                           *)
(***************************************************************************)
LEMMA ScheduleStep ==
  ASSUME IInv, NEW t \in Thread, Schedule(t)
  PROVE  IInv'
<1>1. At(t, "yield")
  BY DEF Schedule
<1>2. /\ mode = "run" /\ cpu = t /\ pc[t] = "yield" /\ current = t /\ t # NoTask
      /\ queue \in Seq(Thread) /\ queue # << >> /\ Head(queue) = t /\ QueueGet(queue) = t
  BY <1>1, Caller
<1>3. /\ pc' = [pc EXCEPT ![t] = "run"]
      /\ \A u \in Thread : pc'[u] = IF u = t THEN "run" ELSE pc[u]
  BY DEF IInv, TypeOK, Schedule, Goto
<1>4. /\ queue' = queue /\ current' = current /\ cpu' = cpu /\ curdir' = curdir
      /\ flags' = flags /\ delta' = delta /\ arg' = arg /\ fresh' = fresh
      /\ linked' = linked /\ living' = living /\ space' = space /\ next' = next /\ reg' = reg
  BY DEF Schedule, queueVars, threadVars, procVars
<1>5. TypeOK'
  BY <1>2, <1>3, <1>4, Owners DEF IInv, TypeOK, Flag, Label, Schedule
<1>6. RunningIsHead'
  BY <1>2, <1>3, <1>4, Owners DEF IInv, TypeOK, RunningIsHead, Schedule
<1>7. QueueSound'
  BY <1>2, <1>3, <1>4, Owners DEF IInv, TypeOK, QueueSound
<1>8. CriticalSections'
  BY <1>2, <1>3, <1>4, Owners DEF IInv, TypeOK, CriticalSections,
     Critical, Schedule
<1>9. MarkedOnlyYields'
  BY <1>2, <1>3, <1>4, Owners DEF IInv, TypeOK, MarkedOnlyYields,
     Marked, Schedule
<1>10. Operands'
  BY <1>2, <1>3, <1>4, Owners DEF IInv, TypeOK, Operands, Creating, Counting
<1>11. OneCreator'
  BY <1>2, <1>3, <1>4, Owners DEF IInv, TypeOK, OneCreator, Creating, Counting,
     QueueSound
<1>12. LoadedDirectory'
  BY <1>2, <1>3, <1>4, Owners DEF IInv, TypeOK, LoadedDirectory, Schedule
<1>. QED
  BY <1>5, <1>6, <1>7, <1>8, <1>9, <1>10, <1>11, <1>12 DEF IInv

(***************************************************************************)
(* A turn of scheduler_dispatch that leaves a terminated thread for later. *)
(* The inductive invariant is preserved.                                   *)
(***************************************************************************)
LEMMA DispatchSkipStep ==
  ASSUME IInv, DispatchSkip
  PROVE  IInv'
<1>1. /\ queue \in Seq(Thread) /\ queue # << >>
      /\ mode # "run"
  BY DEF IInv, TypeOK, DispatchSkip, InDispatch
<1>2. /\ Rotate(queue) \in Seq(Thread) /\ Rotate(queue) # << >>
      /\ Queued(Rotate(queue)) = Queued(queue)
      /\ NoDuplicates(Rotate(queue))
  BY <1>1, RotateProperties DEF IInv, QueueSound
<1>3. /\ Tail(Rotate(queue)) \in Seq(Thread) /\ Candidate \in Thread
      /\ Queued(Tail(Rotate(queue))) \subseteq Queued(queue)
      /\ NoDuplicates(Tail(Rotate(queue)))
      /\ Owner[Candidate] \in Proc
  BY <1>2, TailProperties, Owners DEF Candidate
<1>4. \A u \in Thread : pc[u] \notin Critical
  BY <1>1 DEF IInv, CriticalSections
<1>5. /\ cpu' = cpu /\ mode' = mode /\ curdir' = curdir /\ flags' = flags
      /\ delta' = delta /\ pc' = pc /\ arg' = arg /\ fresh' = fresh /\ linked' = linked
      /\ living' = living /\ space' = space /\ next' = next /\ reg' = reg
  BY DEF DispatchSkip, queueVars, threadVars, procVars
<1>6. TypeOK'
  <2>1. queue' = Rotate(queue) /\ current' = Candidate
    BY DEF DispatchSkip
  <2>. QED
    BY <1>2, <1>3, <1>5, <2>1 DEF IInv, TypeOK
<1>7. RunningIsHead'
  BY <1>1, <1>2, <1>3, <1>4, <1>5, Owners DEF IInv, TypeOK,
     RunningIsHead, DispatchSkip
<1>8. QueueSound'
  BY <1>1, <1>2, <1>3, <1>4, <1>5, Owners DEF IInv, TypeOK,
     QueueSound, DispatchSkip
<1>9. CriticalSections'
  BY <1>1, <1>2, <1>3, <1>4, <1>5, Owners DEF IInv, TypeOK,
     CriticalSections, Critical, DispatchSkip
<1>10. MarkedOnlyYields'
  BY <1>1, <1>2, <1>3, <1>4, <1>5, Owners DEF IInv, TypeOK,
     MarkedOnlyYields, Marked
<1>11. Operands'
  BY <1>1, <1>2, <1>3, <1>4, <1>5, Owners DEF IInv, TypeOK, Operands,
     Creating, Counting
<1>12. OneCreator'
  BY <1>1, <1>2, <1>3, <1>4, <1>5, Owners DEF IInv, TypeOK,
     OneCreator, Creating, Counting, QueueSound, DispatchSkip
<1>13. LoadedDirectory'
  BY <1>1, <1>2, <1>3, <1>4, <1>5, Owners DEF IInv, TypeOK,
     LoadedDirectory
<1>. QED
  BY <1>6, <1>7, <1>8, <1>9, <1>10, <1>11, <1>12, <1>13 DEF IInv

(***************************************************************************)
(* A turn of scheduler_dispatch that reaps a terminated thread. The        *)
(* inductive invariant is preserved.                                       *)
(***************************************************************************)
LEMMA DispatchReapStep ==
  ASSUME IInv, DispatchReap
  PROVE  IInv'
<1>1. /\ queue \in Seq(Thread) /\ queue # << >>
      /\ mode # "run"
  BY DEF IInv, TypeOK, DispatchReap, InDispatch
<1>2. /\ Rotate(queue) \in Seq(Thread) /\ Rotate(queue) # << >>
      /\ Queued(Rotate(queue)) = Queued(queue)
      /\ NoDuplicates(Rotate(queue))
  BY <1>1, RotateProperties DEF IInv, QueueSound
<1>3. /\ Tail(Rotate(queue)) \in Seq(Thread) /\ Candidate \in Thread
      /\ Queued(Tail(Rotate(queue))) \subseteq Queued(queue)
      /\ NoDuplicates(Tail(Rotate(queue)))
      /\ Owner[Candidate] \in Proc
  BY <1>2, TailProperties, Owners DEF Candidate
<1>4. \A u \in Thread : pc[u] \notin Critical
  BY <1>1 DEF IInv, CriticalSections
<1>5. /\ cpu' = cpu /\ mode' = mode /\ curdir' = curdir /\ flags' = flags
      /\ delta' = delta /\ pc' = pc /\ arg' = arg /\ fresh' = fresh /\ linked' = linked
      /\ next' = next /\ reg' = reg
  BY DEF DispatchReap, queueVars, threadVars, procVars
<1>6. TypeOK'
  <2>1. living' \in [Proc -> Int]
    BY <1>3 DEF IInv, TypeOK, DispatchReap
  <2>2. space' \in [Proc -> {"none", "live", "freed"}]
    BY <1>3 DEF IInv, TypeOK, DispatchReap
  <2>. QED
    BY <1>3, <2>1, <2>2 DEF IInv, TypeOK, DispatchReap, threadVars
<1>7. RunningIsHead'
  BY <1>1, <1>2, <1>3, <1>4, <1>5, Owners DEF IInv, TypeOK,
     RunningIsHead, DispatchReap
<1>8. QueueSound'
  BY <1>1, <1>2, <1>3, <1>4, <1>5, Owners DEF IInv, TypeOK,
     QueueSound, DispatchReap
<1>9. CriticalSections'
  BY <1>1, <1>2, <1>3, <1>4, <1>5, Owners DEF IInv, TypeOK,
     CriticalSections, Critical, DispatchReap
<1>10. MarkedOnlyYields'
  BY <1>1, <1>2, <1>3, <1>4, <1>5, Owners DEF IInv, TypeOK,
     MarkedOnlyYields, Marked
<1>11. Operands'
  BY <1>1, <1>2, <1>3, <1>4, <1>5, Owners DEF IInv, TypeOK, Operands,
     Creating, Counting
<1>12. OneCreator'
  BY <1>1, <1>2, <1>3, <1>4, <1>5, Owners DEF IInv, TypeOK,
     OneCreator, Creating, Counting, QueueSound, DispatchReap
<1>13. LoadedDirectory'
  BY <1>1, <1>2, <1>3, <1>4, <1>5, Owners DEF IInv, TypeOK,
     LoadedDirectory
<1>. QED
  BY <1>6, <1>7, <1>8, <1>9, <1>10, <1>11, <1>12, <1>13 DEF IInv

(***************************************************************************)
(* A turn of scheduler_dispatch that passes a blocked thread. The          *)
(* inductive invariant is preserved.                                       *)
(***************************************************************************)
LEMMA DispatchBlockedStep ==
  ASSUME IInv, DispatchBlocked
  PROVE  IInv'
<1>1. /\ queue \in Seq(Thread) /\ queue # << >>
      /\ mode # "run"
  BY DEF IInv, TypeOK, DispatchBlocked, InDispatch
<1>2. /\ Rotate(queue) \in Seq(Thread) /\ Rotate(queue) # << >>
      /\ Queued(Rotate(queue)) = Queued(queue)
      /\ NoDuplicates(Rotate(queue))
  BY <1>1, RotateProperties DEF IInv, QueueSound
<1>3. /\ Tail(Rotate(queue)) \in Seq(Thread) /\ Candidate \in Thread
      /\ Queued(Tail(Rotate(queue))) \subseteq Queued(queue)
      /\ NoDuplicates(Tail(Rotate(queue)))
      /\ Owner[Candidate] \in Proc
  BY <1>2, TailProperties, Owners DEF Candidate
<1>4. \A u \in Thread : pc[u] \notin Critical
  BY <1>1 DEF IInv, CriticalSections
<1>5. /\ cpu' = cpu /\ mode' = mode /\ curdir' = curdir /\ flags' = flags
      /\ delta' = delta /\ pc' = pc /\ arg' = arg /\ fresh' = fresh /\ linked' = linked
      /\ living' = living /\ space' = space /\ next' = next /\ reg' = reg
  BY DEF DispatchBlocked, queueVars, threadVars, procVars
<1>6. TypeOK'
  <2>1. queue' = Rotate(queue) /\ current' = Candidate
    BY DEF DispatchBlocked
  <2>. QED
    BY <1>2, <1>3, <1>5, <2>1 DEF IInv, TypeOK
<1>7. RunningIsHead'
  BY <1>1, <1>2, <1>3, <1>4, <1>5, Owners DEF IInv, TypeOK,
     RunningIsHead, DispatchBlocked
<1>8. QueueSound'
  BY <1>1, <1>2, <1>3, <1>4, <1>5, Owners DEF IInv, TypeOK,
     QueueSound, DispatchBlocked
<1>9. CriticalSections'
  BY <1>1, <1>2, <1>3, <1>4, <1>5, Owners DEF IInv, TypeOK,
     CriticalSections, Critical, DispatchBlocked
<1>10. MarkedOnlyYields'
  BY <1>1, <1>2, <1>3, <1>4, <1>5, Owners DEF IInv, TypeOK,
     MarkedOnlyYields, Marked
<1>11. Operands'
  BY <1>1, <1>2, <1>3, <1>4, <1>5, Owners DEF IInv, TypeOK, Operands,
     Creating, Counting
<1>12. OneCreator'
  BY <1>1, <1>2, <1>3, <1>4, <1>5, Owners DEF IInv, TypeOK,
     OneCreator, Creating, Counting, QueueSound, DispatchBlocked
<1>13. LoadedDirectory'
  BY <1>1, <1>2, <1>3, <1>4, <1>5, Owners DEF IInv, TypeOK,
     LoadedDirectory
<1>. QED
  BY <1>6, <1>7, <1>8, <1>9, <1>10, <1>11, <1>12, <1>13 DEF IInv

(***************************************************************************)
(* The last turn of scheduler_dispatch, with the rest of scheduler_tick    *)
(* and the switch of stack and page directory. The inductive invariant is  *)
(* preserved.                                                              *)
(***************************************************************************)
LEMMA DispatchRunStep ==
  ASSUME IInv, DispatchRun
  PROVE  IInv'
<1>1. /\ queue \in Seq(Thread) /\ queue # << >>
      /\ mode # "run"
  BY DEF IInv, TypeOK, DispatchRun, InDispatch
<1>2. /\ Rotate(queue) \in Seq(Thread) /\ Rotate(queue) # << >>
      /\ Queued(Rotate(queue)) = Queued(queue)
      /\ NoDuplicates(Rotate(queue))
  BY <1>1, RotateProperties DEF IInv, QueueSound
<1>3. /\ Tail(Rotate(queue)) \in Seq(Thread) /\ Candidate \in Thread
      /\ Queued(Tail(Rotate(queue))) \subseteq Queued(queue)
      /\ NoDuplicates(Tail(Rotate(queue)))
      /\ Owner[Candidate] \in Proc
  BY <1>2, TailProperties, Owners DEF Candidate
<1>4. \A u \in Thread : pc[u] \notin Critical
  BY <1>1 DEF IInv, CriticalSections
<1>5. /\ pc' = pc /\ arg' = arg /\ fresh' = fresh /\ linked' = linked
      /\ living' = living /\ space' = space /\ next' = next /\ reg' = reg
  BY DEF DispatchRun, queueVars, threadVars, procVars
<1>6. TypeOK'
  <2>1. delta' \in [Thread -> Nat] /\ flags' \in [Thread -> SUBSET Flag]
    <3>1. CASE mode = "tick"
      <4>1. CountDown
        BY <3>1 DEF DispatchRun
      <4>. QED
        BY <4>1 DEF IInv, TypeOK, CountDown
    <3>2. CASE mode # "tick"
      BY <3>2 DEF IInv, TypeOK, DispatchRun
    <3>. QED
      BY <3>1, <3>2
  <2>. QED
    BY <1>2, <1>3, <2>1 DEF IInv, TypeOK, DispatchRun, procVars
<1>7. RunningIsHead'
  BY <1>1, <1>2, <1>3, <1>4, <1>5, Owners DEF IInv, TypeOK,
     RunningIsHead, DispatchRun, Candidate
<1>8. QueueSound'
  BY <1>1, <1>2, <1>3, <1>4, <1>5, Owners DEF IInv, TypeOK,
     QueueSound, DispatchRun
<1>9. CriticalSections'
  <2>1. pc' = pc /\ current' = Candidate
    BY DEF DispatchRun
  <2>. QED
    BY <1>3, <1>4, <2>1, Owners DEF CriticalSections
<1>10. MarkedOnlyYields'
  <2>1. flags \in [Thread -> SUBSET Flag]
    BY DEF IInv, TypeOK
  <2>2. \A u \in Thread : flags'[u] \subseteq flags[u]
    <3>1. CASE mode = "tick"
      BY <2>1, <3>1 DEF DispatchRun, CountDown
    <3>2. CASE mode # "tick"
      BY <3>2 DEF DispatchRun
    <3>. QED
      BY <3>1, <3>2
  <2>3. cpu' = Candidate /\ ~ Marked(Candidate)
    BY DEF DispatchRun, Runnable
  <2>. QED
    BY <1>3, <2>2, <2>3 DEF MarkedOnlyYields, Marked
<1>11. Operands'
  BY <1>1, <1>2, <1>3, <1>4, <1>5, Owners DEF IInv, TypeOK, Operands,
     Creating, Counting
<1>12. OneCreator'
  BY <1>1, <1>2, <1>3, <1>4, <1>5, Owners DEF IInv, TypeOK,
     OneCreator, Creating, Counting, QueueSound, DispatchRun
<1>13. LoadedDirectory'
  BY <1>1, <1>2, <1>3, <1>4, <1>5, Owners DEF IInv, TypeOK,
     LoadedDirectory, DispatchRun
<1>. QED
  BY <1>6, <1>7, <1>8, <1>9, <1>10, <1>11, <1>12, <1>13 DEF IInv

(***************************************************************************)
(* thread_sleep sets the sleep flag. The inductive invariant is preserved. *)
(***************************************************************************)
LEMMA SleepFlagStep ==
  ASSUME IInv, NEW t \in Thread, SleepFlag(t)
  PROVE  IInv'
<1>1. At(t, "run")
  BY DEF SleepFlag
<1>2. /\ mode = "run" /\ cpu = t /\ pc[t] = "run" /\ current = t /\ t # NoTask
      /\ queue \in Seq(Thread) /\ queue # << >> /\ Head(queue) = t /\ QueueGet(queue) = t
  BY <1>1, Caller
<1>3. /\ pc' = [pc EXCEPT ![t] = "sleep"]
      /\ \A u \in Thread : pc'[u] = IF u = t THEN "sleep" ELSE pc[u]
  BY DEF IInv, TypeOK, SleepFlag, Goto
<1>4. /\ queue' = queue /\ current' = current /\ cpu' = cpu /\ mode' = mode
      /\ curdir' = curdir /\ delta' = delta /\ arg' = arg /\ fresh' = fresh
      /\ linked' = linked /\ living' = living /\ space' = space /\ next' = next /\ reg' = reg
  BY DEF SleepFlag, queueVars, threadVars, procVars
<1>5. TypeOK'
  BY <1>2, <1>3, <1>4, Owners DEF IInv, TypeOK, Flag, Label, SleepFlag
<1>6. RunningIsHead'
  BY <1>2, <1>3, <1>4, Owners DEF IInv, TypeOK, RunningIsHead
<1>7. QueueSound'
  BY <1>2, <1>3, <1>4, Owners DEF IInv, TypeOK, QueueSound
<1>8. CriticalSections'
  BY <1>2, <1>3, <1>4, Owners DEF IInv, TypeOK, CriticalSections, Critical
<1>9. MarkedOnlyYields'
  BY <1>2, <1>3, <1>4, Owners DEF IInv, TypeOK, MarkedOnlyYields,
     Marked, SleepFlag
<1>10. Operands'
  BY <1>2, <1>3, <1>4, Owners DEF IInv, TypeOK, Operands, Creating, Counting
<1>11. OneCreator'
  BY <1>2, <1>3, <1>4, Owners DEF IInv, TypeOK, OneCreator, Creating, Counting,
     QueueSound
<1>12. LoadedDirectory'
  BY <1>2, <1>3, <1>4, Owners DEF IInv, TypeOK, LoadedDirectory
<1>. QED
  BY <1>5, <1>6, <1>7, <1>8, <1>9, <1>10, <1>11, <1>12 DEF IInv

(***************************************************************************)
(* thread_sleep sets the time to sleep. The inductive invariant is         *)
(* preserved.                                                              *)
(***************************************************************************)
LEMMA SleepDeltaStep ==
  ASSUME IInv, NEW t \in Thread, NEW ms \in SleepMs, SleepDelta(t, ms)
  PROVE  IInv'
<1>1. At(t, "sleep")
  BY DEF SleepDelta
<1>2. /\ mode = "run" /\ cpu = t /\ pc[t] = "sleep" /\ current = t /\ t # NoTask
      /\ queue \in Seq(Thread) /\ queue # << >> /\ Head(queue) = t /\ QueueGet(queue) = t
  BY <1>1, Caller
<1>3. /\ pc' = [pc EXCEPT ![t] = "yield"]
      /\ \A u \in Thread : pc'[u] = IF u = t THEN "yield" ELSE pc[u]
  BY DEF IInv, TypeOK, SleepDelta, Goto
<1>4. /\ queue' = queue /\ current' = current /\ cpu' = cpu /\ mode' = mode
      /\ curdir' = curdir /\ flags' = flags /\ arg' = arg /\ fresh' = fresh
      /\ linked' = linked /\ living' = living /\ space' = space /\ next' = next /\ reg' = reg
  BY DEF SleepDelta, queueVars, threadVars, procVars
<1>5. TypeOK'
  <2>1. PHASE \in 1 .. 1000 /\ ms \in Nat
    BY SchedulerAssumption
  <2>4. 1000 \div PHASE \in Nat /\ 1000 \div PHASE > 0
    BY <2>1
  <2>2. ms \div (1000 \div PHASE) \in Nat
    BY <2>1, <2>4
  <2>3. delta' \in [Thread -> Nat]
    BY <2>2 DEF IInv, TypeOK, SleepDelta
  <2>. QED
    BY <1>2, <1>3, <2>3 DEF IInv, TypeOK, Label, SleepDelta, queueVars, procVars
<1>6. RunningIsHead'
  BY <1>2, <1>3, <1>4, Owners DEF IInv, TypeOK, RunningIsHead
<1>7. QueueSound'
  BY <1>2, <1>3, <1>4, Owners DEF IInv, TypeOK, QueueSound
<1>8. CriticalSections'
  BY <1>2, <1>3, <1>4, Owners DEF IInv, TypeOK, CriticalSections, Critical
<1>9. MarkedOnlyYields'
  BY <1>2, <1>3, <1>4, Owners DEF IInv, TypeOK, MarkedOnlyYields, Marked
<1>10. Operands'
  BY <1>2, <1>3, <1>4, Owners DEF IInv, TypeOK, Operands, Creating, Counting
<1>11. OneCreator'
  BY <1>2, <1>3, <1>4, Owners DEF IInv, TypeOK, OneCreator, Creating, Counting,
     QueueSound
<1>12. LoadedDirectory'
  BY <1>2, <1>3, <1>4, Owners DEF IInv, TypeOK, LoadedDirectory
<1>. QED
  BY <1>5, <1>6, <1>7, <1>8, <1>9, <1>10, <1>11, <1>12 DEF IInv

(***************************************************************************)
(* thread_suspend sets its flag. The inductive invariant is preserved.     *)
(***************************************************************************)
LEMMA SuspendStep ==
  ASSUME IInv, NEW t \in Thread, Suspend(t)
  PROVE  IInv'
<1>1. At(t, "run")
  BY DEF Suspend
<1>2. /\ mode = "run" /\ cpu = t /\ pc[t] = "run" /\ current = t /\ t # NoTask
      /\ queue \in Seq(Thread) /\ queue # << >> /\ Head(queue) = t /\ QueueGet(queue) = t
  BY <1>1, Caller
<1>3. /\ pc' = [pc EXCEPT ![t] = "yield"]
      /\ \A u \in Thread : pc'[u] = IF u = t THEN "yield" ELSE pc[u]
  BY DEF IInv, TypeOK, Suspend, Goto
<1>4. /\ queue' = queue /\ current' = current /\ cpu' = cpu /\ mode' = mode
      /\ curdir' = curdir /\ delta' = delta /\ arg' = arg /\ fresh' = fresh
      /\ linked' = linked /\ living' = living /\ space' = space /\ next' = next /\ reg' = reg
  BY DEF Suspend, queueVars, threadVars, procVars
<1>5. TypeOK'
  BY <1>2, <1>3, <1>4, Owners DEF IInv, TypeOK, Flag, Label, Suspend
<1>6. RunningIsHead'
  BY <1>2, <1>3, <1>4, Owners DEF IInv, TypeOK, RunningIsHead
<1>7. QueueSound'
  BY <1>2, <1>3, <1>4, Owners DEF IInv, TypeOK, QueueSound
<1>8. CriticalSections'
  BY <1>2, <1>3, <1>4, Owners DEF IInv, TypeOK, CriticalSections, Critical
<1>9. MarkedOnlyYields'
  BY <1>2, <1>3, <1>4, Owners DEF IInv, TypeOK, MarkedOnlyYields,
     Marked, Suspend
<1>10. Operands'
  BY <1>2, <1>3, <1>4, Owners DEF IInv, TypeOK, Operands, Creating, Counting
<1>11. OneCreator'
  BY <1>2, <1>3, <1>4, Owners DEF IInv, TypeOK, OneCreator, Creating, Counting,
     QueueSound
<1>12. LoadedDirectory'
  BY <1>2, <1>3, <1>4, Owners DEF IInv, TypeOK, LoadedDirectory
<1>. QED
  BY <1>5, <1>6, <1>7, <1>8, <1>9, <1>10, <1>11, <1>12 DEF IInv

(***************************************************************************)
(* An input handler wakes the suspended threads of a process. The          *)
(* inductive invariant is preserved.                                       *)
(***************************************************************************)
LEMMA UnsuspendStep ==
  ASSUME IInv, NEW p \in Proc, Unsuspend(p)
  PROVE  IInv'
<1>1. /\ queue' = queue /\ cpu' = cpu /\ mode' = mode /\ curdir' = curdir
      /\ delta' = delta /\ pc' = pc /\ arg' = arg /\ fresh' = fresh /\ linked' = linked
      /\ living' = living /\ space' = space /\ next' = next /\ reg' = reg
  BY DEF Unsuspend, queueVars, threadVars, procVars
<1>2. TypeOK'
  <2>1. flags' \in [Thread -> SUBSET Flag]
    BY DEF IInv, TypeOK, Unsuspend
  <2>2. current' \in Thread \cup {NoTask}
    BY DEF IInv, TypeOK, RunningIsHead, QueueGet, Unsuspend
  <2>. QED
    BY <1>1, <2>1, <2>2 DEF IInv, TypeOK
<1>3. RunningIsHead'
  BY <1>1, Owners DEF IInv, TypeOK, RunningIsHead, QueueGet,
     CriticalSections, Critical, Unsuspend
<1>4. QueueSound'
  BY <1>1, Owners DEF IInv, TypeOK, QueueSound
<1>5. CriticalSections'
  BY <1>1, Owners DEF IInv, TypeOK, CriticalSections, Critical,
     RunningIsHead, QueueGet, Unsuspend
<1>6. MarkedOnlyYields'
  BY <1>1, Owners DEF IInv, TypeOK, MarkedOnlyYields, Marked, Unsuspend
<1>7. Operands'
  BY <1>1, Owners DEF IInv, TypeOK, Operands, Creating, Counting
<1>8. OneCreator'
  BY <1>1, Owners DEF IInv, TypeOK, OneCreator, Creating, Counting, QueueSound
<1>9. LoadedDirectory'
  BY <1>1, Owners DEF IInv, TypeOK, LoadedDirectory
<1>. QED
  BY <1>2, <1>3, <1>4, <1>5, <1>6, <1>7, <1>8, <1>9 DEF IInv

(***************************************************************************)
(* createProcess enters its critical section and loads the new page        *)
(* directory. The inductive invariant is preserved.                        *)
(***************************************************************************)
LEMMA CreateBeginStep ==
  ASSUME IInv, NEW t \in Thread, NEW m \in Thread, CreateBegin(t, m)
  PROVE  IInv'
<1>1. At(t, "run")
  BY DEF CreateBegin
<1>2. /\ mode = "run" /\ cpu = t /\ pc[t] = "run" /\ current = t /\ t # NoTask
      /\ queue \in Seq(Thread) /\ queue # << >> /\ Head(queue) = t /\ QueueGet(queue) = t
  BY <1>1, Caller
<1>3. /\ pc' = [pc EXCEPT ![t] = "load"]
      /\ \A u \in Thread : pc'[u] = IF u = t THEN "load" ELSE pc[u]
  BY DEF IInv, TypeOK, CreateBegin, Goto
<1>4. \A u \in Thread : arg'[u] = IF u = t THEN m ELSE arg[u]
  BY DEF IInv, TypeOK, CreateBegin
<1>5. /\ queue' = queue /\ cpu' = cpu /\ mode' = mode /\ flags' = flags
      /\ delta' = delta /\ linked' = linked /\ living' = living /\ next' = next /\ reg' = reg
  BY DEF CreateBegin, queueVars, threadVars, procVars
<1>6. TypeOK'
  <2>1. pc' \in [Thread -> Label]
    BY <1>3 DEF IInv, TypeOK, Label
  <2>2. Owner[m] \in Proc
    BY Owners
  <2>. QED
    BY <1>5, <2>1, <2>2 DEF IInv, TypeOK, CreateBegin
<1>7. RunningIsHead'
  BY <1>2, <1>3, <1>4, <1>5, Owners DEF IInv, TypeOK, RunningIsHead,
     CreateBegin
<1>8. QueueSound'
  BY <1>2, <1>3, <1>4, <1>5, Owners DEF IInv, TypeOK, QueueSound,
     CreateBegin
<1>9. CriticalSections'
  BY <1>2, <1>3, <1>4, <1>5, Owners DEF IInv, TypeOK,
     CriticalSections, Critical, CreateBegin
<1>10. MarkedOnlyYields'
  BY <1>2, <1>3, <1>4, <1>5, Owners DEF IInv, TypeOK,
     MarkedOnlyYields, Marked
<1>11. Operands'
  BY <1>3, <1>4 DEF IInv, Operands, Creating, Counting
<1>12. OneCreator'
  <2>1. ASSUME NEW u \in Thread, pc'[u] \in Creating \cup Counting
        PROVE  u = t \/ (u # t /\ pc[u] = pc'[u] /\ arg'[u] = arg[u])
    BY <2>1, <1>3, <1>4
  <2>2. m \in fresh /\ fresh' = fresh \ {m} /\ queue' = queue /\ arg'[t] = m
    BY <1>4 DEF CreateBegin
  <2>. QED
    BY <2>1, <2>2, <1>3 DEF IInv, OneCreator, QueueSound, Creating, Counting
<1>13. LoadedDirectory'
  BY <1>2, <1>3, <1>4, <1>5, Owners DEF IInv, TypeOK, LoadedDirectory,
     CreateBegin
<1>. QED
  BY <1>6, <1>7, <1>8, <1>9, <1>10, <1>11, <1>12, <1>13 DEF IInv

(***************************************************************************)
(* createProcess gives up: the executable could not be loaded. The         *)
(* inductive invariant is preserved.                                       *)
(***************************************************************************)
LEMMA CreateFailStep ==
  ASSUME IInv, NEW t \in Thread, CreateFail(t)
  PROVE  IInv'
<1>1. At(t, "load")
  BY DEF CreateFail
<1>2. /\ mode = "run" /\ cpu = t /\ pc[t] = "load" /\ current = NoTask /\ t # NoTask
      /\ queue \in Seq(Thread) /\ queue # << >> /\ Head(queue) = t /\ QueueGet(queue) = t
  BY <1>1, Caller
<1>3. /\ pc' = [pc EXCEPT ![t] = "run"]
      /\ \A u \in Thread : pc'[u] = IF u = t THEN "run" ELSE pc[u]
  BY DEF IInv, TypeOK, CreateFail, Goto
<1>4. \A u \in Thread : arg'[u] = IF u = t THEN NoTask ELSE arg[u]
  BY DEF IInv, TypeOK, CreateFail
<1>5. arg[t] \in Thread /\ Owner[arg[t]] \in Proc
  BY <1>2, Owners DEF IInv, Operands, Creating, Counting
<1>6. /\ queue' = queue /\ cpu' = cpu /\ mode' = mode /\ flags' = flags
      /\ delta' = delta /\ linked' = linked /\ living' = living /\ next' = next /\ reg' = reg
  BY DEF CreateFail, queueVars, threadVars, procVars
<1>7. TypeOK'
  <2>1. pc' \in [Thread -> Label]
    BY <1>3 DEF IInv, TypeOK, Label
  <2>2. Owner[t] \in Proc
    BY Owners
  <2>. QED
    BY <1>2, <2>1, <2>2, <1>5 DEF IInv, TypeOK, CreateFail, queueVars, threadVars,
       procVars
<1>8. RunningIsHead'
  BY <1>2, <1>3, <1>4, <1>5, <1>6, Owners DEF IInv, TypeOK,
     RunningIsHead, CreateFail
<1>9. QueueSound'
  BY <1>2, <1>3, <1>4, <1>5, <1>6, Owners DEF IInv, TypeOK,
     QueueSound, OneCreator, Creating, Counting, CreateFail
<1>10. CriticalSections'
  BY <1>2, <1>3, <1>4, <1>5, <1>6, Owners DEF IInv, TypeOK,
     CriticalSections, Critical, CreateFail
<1>11. MarkedOnlyYields'
  BY <1>2, <1>3, <1>4, <1>5, <1>6, Owners DEF IInv, TypeOK,
     MarkedOnlyYields, Marked
<1>12. Operands'
  BY <1>2, <1>3, <1>4, <1>5, <1>6, Owners DEF IInv, TypeOK, Operands,
     Creating, Counting
<1>13. OneCreator'
  <2>1. ASSUME NEW u \in Thread, pc'[u] \in Creating \cup Counting
        PROVE  /\ u # t /\ pc[u] \in Creating \cup Counting /\ arg'[u] = arg[u]
               /\ pc'[u] \in Creating => pc[u] \in Creating
    BY <2>1, <1>2, <1>3, <1>4 DEF Creating, Counting, CreateFail
  <2>2. fresh' = fresh \cup {arg[t]} /\ queue' = queue
    BY DEF CreateFail, queueVars
  <2>. QED
    BY <2>1, <2>2, <1>2, <1>3, <1>4 DEF IInv, OneCreator, Creating, Counting
<1>14. LoadedDirectory'
  BY <1>2, <1>3, <1>4, <1>5, <1>6, Owners DEF IInv, TypeOK,
     LoadedDirectory, CreateFail
<1>. QED
  BY <1>7, <1>8, <1>9, <1>10, <1>11, <1>12, <1>13, <1>14 DEF IInv

(***************************************************************************)
(* createProcess leaves its critical section. The inductive invariant is   *)
(* preserved.                                                              *)
(***************************************************************************)
LEMMA CreateLoadedStep ==
  ASSUME IInv, NEW t \in Thread, CreateLoaded(t)
  PROVE  IInv'
<1>1. At(t, "load")
  BY DEF CreateLoaded
<1>2. /\ mode = "run" /\ cpu = t /\ pc[t] = "load" /\ current = NoTask /\ t # NoTask
      /\ queue \in Seq(Thread) /\ queue # << >> /\ Head(queue) = t /\ QueueGet(queue) = t
  BY <1>1, Caller
<1>3. /\ pc' = [pc EXCEPT ![t] = "publish"]
      /\ \A u \in Thread : pc'[u] = IF u = t THEN "publish" ELSE pc[u]
  BY DEF IInv, TypeOK, CreateLoaded, Goto
<1>4. arg[t] \in Thread /\ Owner[arg[t]] \in Proc
  BY <1>2, Owners DEF IInv, Operands, Creating, Counting
<1>5. /\ queue' = queue /\ cpu' = cpu /\ mode' = mode /\ flags' = flags
      /\ delta' = delta /\ arg' = arg /\ fresh' = fresh /\ linked' = linked
      /\ living' = living /\ space' = space /\ next' = next /\ reg' = reg
  BY DEF CreateLoaded, queueVars, threadVars, procVars
<1>6. TypeOK'
  <2>1. pc' \in [Thread -> Label]
    BY <1>3 DEF IInv, TypeOK, Label
  <2>2. Owner[t] \in Proc
    BY Owners
  <2>. QED
    BY <1>2, <2>1, <2>2, <1>4 DEF IInv, TypeOK, CreateLoaded, queueVars,
       threadVars, procVars
<1>7. RunningIsHead'
  BY <1>2, <1>3, <1>4, <1>5, Owners DEF IInv, TypeOK, RunningIsHead,
     CreateLoaded
<1>8. QueueSound'
  BY <1>2, <1>3, <1>4, <1>5, Owners DEF IInv, TypeOK, QueueSound
<1>9. CriticalSections'
  BY <1>2, <1>3, <1>4, <1>5, Owners DEF IInv, TypeOK,
     CriticalSections, Critical, CreateLoaded
<1>10. MarkedOnlyYields'
  BY <1>2, <1>3, <1>4, <1>5, Owners DEF IInv, TypeOK,
     MarkedOnlyYields, Marked
<1>11. Operands'
  BY <1>2, <1>3, <1>4, <1>5, Owners DEF IInv, TypeOK, Operands, Creating, Counting
<1>12. OneCreator'
  <2>1. ASSUME NEW u \in Thread, pc'[u] \in Creating \cup Counting
        PROVE  /\ pc[u] \in Creating \cup Counting /\ arg'[u] = arg[u]
               /\ pc'[u] \in Creating => pc[u] \in Creating
    BY <2>1, <1>2, <1>3 DEF Creating, Counting, CreateLoaded
  <2>2. fresh' = fresh /\ queue' = queue
    BY DEF CreateLoaded, queueVars
  <2>. QED
    BY <2>1, <2>2, <1>2, <1>3 DEF IInv, OneCreator, Creating, Counting
<1>13. LoadedDirectory'
  BY <1>2, <1>3, <1>4, <1>5, Owners DEF IInv, TypeOK, LoadedDirectory,
     CreateLoaded
<1>. QED
  BY <1>6, <1>7, <1>8, <1>9, <1>10, <1>11, <1>12, <1>13 DEF IInv

(***************************************************************************)
(* The processes processList leads to are processes.                       *)
(***************************************************************************)
LEMMA ListedProcesses == Listed \subseteq Proc /\ Listed \cup {NoTask} \subseteq Node
<1>1. Listed \subseteq Proc
  BY Zenon DEF Listed
<1>. QED
  BY <1>1 DEF Node

(***************************************************************************)
(* A line that leaves queue, flags, sleeping times and directories alone   *)
(* keeps the type invariant if what it changes is typed.                   *)
(***************************************************************************)
LEMMA LineTypes ==
  ASSUME IInv, NEW t \in Thread, NEW m \in Label, Goto(t, m),
         queueVars' = queueVars, flags' = flags, delta' = delta,
         fresh' = fresh, space' = space,
         arg' \in [Thread -> Thread \cup Proc \cup {NoTask}],
         reg' \in [Thread -> Register], linked' \subseteq Thread,
         living' \in [Proc -> Int], next' \in [Node -> Node]
  PROVE  TypeOK'
<1>1. pc' \in [Thread -> Label]
  BY DEF IInv, TypeOK, Goto
<1>2. /\ queue' = queue /\ current' = current /\ cpu' = cpu /\ mode' = mode
      /\ curdir' = curdir
  BY DEF queueVars
<1>. QED
  BY <1>1, <1>2 DEF IInv, TypeOK

(***************************************************************************)
(* The types of what such a line may change.                               *)
(***************************************************************************)
LEMMA LineTyped ==
  ASSUME IInv
  PROVE  /\ arg \in [Thread -> Thread \cup Proc \cup {NoTask}]
         /\ reg \in [Thread -> Register] /\ linked \subseteq Thread
         /\ living \in [Proc -> Int] /\ next \in [Node -> Node]
  BY DEF IInv, TypeOK

(***************************************************************************)
(* The registers hold what they are used as.                               *)
(***************************************************************************)
LEMMA RegisterTyped ==
  ASSUME IInv, NEW t \in Thread
  PROVE  reg[t].at \in Node /\ reg[t].to \in Node /\ reg[t].count \in Int
<1>1. reg[t] \in Register
  BY DEF IInv, TypeOK
<1>. QED
  BY <1>1 DEF Register

(***************************************************************************)
(* What an operation may read keeps the registers typed.                   *)
(***************************************************************************)
LEMMA RegisterField ==
  ASSUME NEW r \in Register, NEW n \in Node
  PROVE  /\ [r EXCEPT !.at = n] \in Register
         /\ [r EXCEPT !.to = n] \in Register
  BY DEF Register

LEMMA Registers ==
  ASSUME IInv, NEW t \in Thread
  PROVE  /\ \A p, q \in Node :
              [reg EXCEPT ![t].at = p, ![t].to = q] \in [Thread -> Register]
         /\ \A S \in SUBSET Thread : [reg EXCEPT ![t].list = S] \in [Thread -> Register]
         /\ \A c \in Int : [reg EXCEPT ![t].count = c] \in [Thread -> Register]
         /\ [reg EXCEPT ![t] = NoReg] \in [Thread -> Register]
<1>1. reg \in [Thread -> Register] /\ reg[t] \in Register
  BY DEF IInv, TypeOK
<1>2. ASSUME NEW p \in Node, NEW q \in Node
      PROVE  [reg EXCEPT ![t].at = p, ![t].to = q] \in [Thread -> Register]
  <2> DEFINE a == [reg[t] EXCEPT !.at = p]
             f == [reg EXCEPT ![t] = a]
             b == [f[t] EXCEPT !.to = q]
  <2>1. a \in Register
    BY <1>1, RegisterField
  <2>2. f \in [Thread -> Register] /\ f[t] \in Register
    BY <1>1, <2>1
  <2>3. b \in Register
    BY <2>2, RegisterField
  <2>. QED
    BY <2>2, <2>3
<1>3. ASSUME NEW S \in SUBSET Thread
      PROVE  [reg EXCEPT ![t].list = S] \in [Thread -> Register]
  <2>1. [reg[t] EXCEPT !.list = S] \in Register
    BY <1>1 DEF Register
  <2>. QED
    BY <1>1, <2>1
<1>4. ASSUME NEW c \in Int
      PROVE  [reg EXCEPT ![t].count = c] \in [Thread -> Register]
  <2>1. [reg[t] EXCEPT !.count = c] \in Register
    BY <1>1 DEF Register
  <2>. QED
    BY <1>1, <2>1
<1>5. [reg EXCEPT ![t] = NoReg] \in [Thread -> Register]
  <2>1. NoReg \in Register
    BY DEF Register, NoReg, Node
  <2>. QED
    BY <1>1, <2>1
<1>. QED
  BY <1>2, <1>3, <1>4, <1>5

(***************************************************************************)
(* A line outside the critical sections that leaves the queue, the flags   *)
(* and the threads to be created alone, and at most forgets or takes the   *)
(* operand of its own operation, preserves the inductive invariant.        *)
(***************************************************************************)
LEMMA LineStep ==
  ASSUME IInv, TypeOK', NEW t \in Thread, NEW l, NEW m, At(t, l), Goto(t, m),
         l \notin {"load", "mark", "yield"}, m \notin {"load", "mark"},
         queueVars' = queueVars, flags' = flags, fresh' = fresh,
         \A u \in Thread \ {t} : arg'[u] = arg[u],
         m \in Creating => l \in Creating,
         m \in Counting => l \in Counting,
         m \in Creating \cup Counting => arg'[t] = arg[t],
         m \in {"unlink", "leave", "disable"} => arg'[t] \in Proc
  PROVE  IInv'
<1>1. /\ mode = "run" /\ cpu = t /\ pc[t] = l /\ current = t /\ t # NoTask
      /\ queue \in Seq(Thread) /\ queue # << >> /\ Head(queue) = t /\ QueueGet(queue) = t
  BY Caller
<1>2. \A u \in Thread : pc'[u] = IF u = t THEN m ELSE pc[u]
  BY DEF IInv, TypeOK, Goto
<1>3. /\ queue' = queue /\ current' = current /\ cpu' = cpu /\ mode' = mode
      /\ curdir' = curdir
  BY DEF queueVars
<1>4. RunningIsHead' /\ QueueSound'
  BY <1>3 DEF IInv, RunningIsHead, QueueSound
<1>5. CriticalSections'
  BY <1>1, <1>2, <1>3 DEF IInv, TypeOK, CriticalSections, Critical
<1>6. MarkedOnlyYields'
  BY <1>1, <1>2, <1>3 DEF IInv, TypeOK, MarkedOnlyYields, Marked
<1>7. Operands'
  BY <1>1, <1>2 DEF IInv, Operands, Creating, Counting
<1>8. OneCreator'
  <2>1. ASSUME NEW u \in Thread, pc'[u] \in Creating \cup Counting
        PROVE  /\ pc[u] \in Creating \cup Counting /\ arg'[u] = arg[u]
               /\ pc'[u] \in Creating => pc[u] \in Creating
    BY <2>1, <1>1, <1>2
  <2>. QED
    BY <2>1, <1>2, <1>3 DEF IInv, OneCreator, Creating, Counting
<1>9. LoadedDirectory'
  BY <1>1, <1>2, <1>3 DEF IInv, TypeOK, LoadedDirectory
<1>. QED
  BY <1>4, <1>5, <1>6, <1>7, <1>8, <1>9 DEF IInv

(***************************************************************************)
(* createProcess enters the process in processList, in two lines. The      *)
(* inductive invariant is preserved.                                       *)
(***************************************************************************)
LEMMA InsertProcessStep ==
  ASSUME IInv, NEW t \in Thread, InsertProcess(t)
  PROVE  IInv'
<1>1. /\ queueVars' = queueVars /\ flags' = flags /\ delta' = delta /\ arg' = arg
      /\ fresh' = fresh /\ linked' = linked /\ living' = living /\ space' = space
  BY DEF InsertProcess, procVars
<1>2. CASE At(t, "publish")
  <2>1. /\ pc[t] = "publish" /\ Goto(t, "enter") /\ next' = next
        /\ \E p \in Node : reg' = [reg EXCEPT ![t].at = p, ![t].to = Owner[arg[t]]]
    BY <1>2, ListedProcesses DEF InsertProcess, At, procVars
  <2>2. Owner[arg[t]] \in Node
    BY <2>1, Owners DEF IInv, Operands, Creating, Node
  <2>3. reg' \in [Thread -> Register]
    BY <2>1, <2>2, Registers
  <2>4. TypeOK'
    BY <1>1, <2>1, <2>3, LineTypes, LineTyped DEF Label
  <2>. QED
    BY <1>1, <1>2, <2>1, <2>4, LineStep DEF Creating, Counting
<1>3. CASE At(t, "enter")
  <2>1. /\ pc[t] = "enter" /\ Goto(t, "insert")
        /\ next' = [next EXCEPT ![reg[t].at] = reg[t].to]
        /\ reg' = [reg EXCEPT ![t] = NoReg]
    BY <1>3 DEF InsertProcess, At
  <2>2. reg' \in [Thread -> Register]
    BY <2>1, Registers
  <2>3. next' \in [Node -> Node]
    BY <2>1, RegisterTyped, LineTyped
  <2>4. TypeOK'
    BY <1>1, <2>1, <2>2, <2>3, LineTypes, LineTyped DEF Label
  <2>. QED
    BY <1>1, <1>3, <2>1, <2>4, LineStep DEF Creating, Counting
<1>. QED
  BY <1>2, <1>3 DEF InsertProcess

(***************************************************************************)
(* createProcess enters the main thread in the queue. The inductive        *)
(* invariant is preserved.                                                 *)
(***************************************************************************)
LEMMA QueueInsertStep ==
  ASSUME IInv, NEW t \in Thread, QueueInsert(t)
  PROVE  IInv'
<1>1. At(t, "insert")
  BY DEF QueueInsert
<1>2. /\ mode = "run" /\ cpu = t /\ pc[t] = "insert" /\ current = t /\ t # NoTask
      /\ queue \in Seq(Thread) /\ queue # << >> /\ Head(queue) = t /\ QueueGet(queue) = t
  BY <1>1, Caller
<1>3. /\ pc' = [pc EXCEPT ![t] = "link"]
      /\ \A u \in Thread : pc'[u] = IF u = t THEN "link" ELSE pc[u]
  BY DEF IInv, TypeOK, QueueInsert, Goto
<1>4. arg[t] \in Thread /\ Owner[arg[t]] \in Proc
  BY <1>2, Owners DEF IInv, Operands, Creating, Counting
<1>5. /\ queue' = Append(queue, arg[t])
      /\ queue' \in Seq(Thread) /\ queue' # << >> /\ Head(queue') = t /\ QueueGet(queue') = t
      /\ current' = t
      /\ Queued(queue') = Queued(queue) \cup {arg[t]}
      /\ NoDuplicates(queue')
  BY <1>2, <1>4, AppendEntry DEF IInv, QueueSound, OneCreator, Creating, Counting, QueueGet,
     QueueInsert, Insert
<1>6. /\ cpu' = cpu /\ mode' = mode /\ curdir' = curdir /\ flags' = flags
      /\ delta' = delta /\ arg' = arg /\ fresh' = fresh /\ linked' = linked
      /\ living' = living /\ space' = space /\ next' = next /\ reg' = reg
  BY DEF QueueInsert, queueVars, threadVars, procVars
<1>7. TypeOK'
  <2>1. pc' \in [Thread -> Label]
    BY <1>3 DEF IInv, TypeOK, Label
  <2>. QED
    BY <1>5, <1>6, <2>1 DEF IInv, TypeOK
<1>8. RunningIsHead'
  BY <1>2, <1>3, <1>4, <1>5, <1>6, Owners DEF IInv, TypeOK, RunningIsHead
<1>9. QueueSound'
  <2>1. fresh' = fresh /\ arg[t] \notin fresh
    BY <1>2, <1>6 DEF IInv, OneCreator, Creating, Counting
  <2>. QED
    BY <1>5, <2>1 DEF IInv, QueueSound
<1>10. CriticalSections'
  BY <1>2, <1>3, <1>4, <1>5, <1>6, Owners DEF IInv, TypeOK,
     CriticalSections, Critical
<1>11. MarkedOnlyYields'
  BY <1>2, <1>3, <1>4, <1>5, <1>6, Owners DEF IInv, TypeOK,
     MarkedOnlyYields, Marked
<1>12. Operands'
  <2>1. arg' = arg
    BY DEF QueueInsert
  <2>. QED
    BY <1>3, <1>4, <2>1 DEF IInv, Operands, Creating, Counting
<1>13. OneCreator'
  <2>1. ASSUME NEW u \in Thread, pc'[u] \in Creating \cup Counting
        PROVE  /\ pc[u] \in Creating \cup Counting /\ arg'[u] = arg[u]
               /\ pc'[u] \in Creating => pc[u] \in Creating /\ u # t
    BY <2>1, <1>2, <1>3 DEF Creating, Counting, QueueInsert
  <2>2. fresh' = fresh /\ Queued(queue') = Queued(queue) \cup {arg[t]}
    BY <1>5 DEF QueueInsert, queueVars
  <2>. QED
    BY <2>1, <2>2, <1>2, <1>3 DEF IInv, OneCreator, Creating, Counting
<1>14. LoadedDirectory'
  BY <1>2, <1>3, <1>4, <1>5, <1>6, Owners DEF IInv, TypeOK,
     LoadedDirectory
<1>. QED
  BY <1>7, <1>8, <1>9, <1>10, <1>11, <1>12, <1>13, <1>14 DEF IInv

(***************************************************************************)
(* createProcess enters the main thread in threadList and counts it, in    *)
(* four lines. The inductive invariant is preserved.                       *)
(***************************************************************************)
LEMMA InsertThreadToProcStep ==
  ASSUME IInv, NEW t \in Thread, InsertThreadToProc(t)
  PROVE  IInv'
<1>1. /\ queueVars' = queueVars /\ flags' = flags /\ delta' = delta
      /\ fresh' = fresh /\ space' = space /\ next' = next
  BY DEF InsertThreadToProc
<1>2. CASE At(t, "link")
  <2>1. /\ pc[t] = "link" /\ Goto(t, "append")
        /\ reg' = [reg EXCEPT ![t].list = linked \cap ThreadsOf(Owner[arg[t]])]
        /\ linked' = linked /\ living' = living /\ arg' = arg
    BY <1>2 DEF InsertThreadToProc, AppendThread, CountThread, At
  <2>2. reg' \in [Thread -> Register]
    BY <2>1, Registers, LineTyped
  <2>3. TypeOK'
    BY <1>1, <2>1, <2>2, LineTypes, LineTyped DEF Label
  <2>. QED
    BY <1>1, <1>2, <2>1, <2>3, LineStep DEF Creating, Counting
<1>3. CASE At(t, "append")
  <2>1. /\ pc[t] = "append" /\ Goto(t, "count")
        /\ \/ linked' = linked
           \/ linked' = (linked \ (ThreadsOf(Owner[arg[t]]) \ reg[t].list)) \cup {arg[t]}
        /\ reg' = [reg EXCEPT ![t] = NoReg]
        /\ living' = living /\ arg' = arg
    BY <1>3 DEF InsertThreadToProc, AppendThread, CountThread, At
  <2>2. reg' \in [Thread -> Register]
    BY <2>1, Registers
  <2>3. linked' \subseteq Thread
    BY <2>1 DEF IInv, TypeOK, Operands, Counting
  <2>4. TypeOK'
    BY <1>1, <2>1, <2>2, <2>3, LineTypes, LineTyped DEF Label
  <2>. QED
    BY <1>1, <1>3, <2>1, <2>4, LineStep DEF Creating, Counting
<1>4. CASE At(t, "count")
  <2>1. /\ pc[t] = "count" /\ Goto(t, "store")
        /\ reg' = [reg EXCEPT ![t].count = living[Owner[arg[t]]]]
        /\ linked' = linked /\ living' = living /\ arg' = arg
    BY <1>4 DEF InsertThreadToProc, AppendThread, CountThread, At
  <2>2. living[Owner[arg[t]]] \in Int
    BY <2>1, Owners DEF IInv, TypeOK, Operands, Counting
  <2>3. reg' \in [Thread -> Register]
    BY <2>1, <2>2, Registers
  <2>4. TypeOK'
    BY <1>1, <2>1, <2>3, LineTypes, LineTyped DEF Label
  <2>. QED
    BY <1>1, <1>4, <2>1, <2>4, LineStep DEF Creating, Counting
<1>5. CASE At(t, "store")
  <2>1. /\ pc[t] = "store" /\ Goto(t, "run")
        /\ living' = [living EXCEPT ![Owner[arg[t]]] = reg[t].count + 1]
        /\ arg' = [arg EXCEPT ![t] = NoTask]
        /\ reg' = [reg EXCEPT ![t] = NoReg]
        /\ linked' = linked
    BY <1>5 DEF InsertThreadToProc, AppendThread, CountThread, At
  <2>2. reg' \in [Thread -> Register]
    BY <2>1, Registers
  <2>3. living' \in [Proc -> Int]
    <3>1. reg[t].count + 1 \in Int
      BY RegisterTyped
    <3>. QED
      BY <2>1, <3>1, LineTyped
  <2>4. /\ arg' \in [Thread -> Thread \cup Proc \cup {NoTask}]
        /\ \A u \in Thread \ {t} : arg'[u] = arg[u]
    BY <2>1 DEF IInv, TypeOK
  <2>5. TypeOK'
    BY <1>1, <2>1, <2>2, <2>3, <2>4, LineTypes, LineTyped DEF Label
  <2>. QED
    BY <1>1, <1>5, <2>1, <2>4, <2>5, LineStep DEF Creating, Counting
<1>. QED
  BY <1>2, <1>3, <1>4, <1>5 DEF InsertThreadToProc, AppendThread, CountThread

(***************************************************************************)
(* fork inserts the child, by priority, behind its parent. The inductive   *)
(* invariant is preserved.                                                 *)
(***************************************************************************)
LEMMA ForkStep ==
  ASSUME IInv, NEW t \in Thread, NEW c \in Thread, Fork(t, c)
  PROVE  IInv'
<1>1. At(t, "run")
  BY DEF Fork
<1>2. /\ mode = "run" /\ cpu = t /\ pc[t] = "run" /\ current = t /\ t # NoTask
      /\ queue \in Seq(Thread) /\ queue # << >> /\ Head(queue) = t /\ QueueGet(queue) = t
  BY <1>1, Caller
<1>3. pc' = pc
  BY DEF Fork
<1>4. /\ queue' = InsertPrioritized(queue, c) /\ current' = QueueGet(queue')
      /\ queue' \in Seq(Thread) /\ queue' # << >> /\ Head(queue') = t /\ QueueGet(queue') = t
      /\ Queued(queue') = Queued(queue) \cup {c}
      /\ NoDuplicates(queue')
  BY <1>2, InsertPrioritizedProperties DEF IInv, QueueSound, QueueGet, Fork
<1>5. /\ cpu' = cpu /\ mode' = mode /\ curdir' = curdir /\ flags' = flags
      /\ delta' = delta /\ pc' = pc /\ arg' = arg /\ space' = space /\ next' = next /\ reg' = reg
  BY DEF Fork, queueVars, threadVars, procVars
<1>6. TypeOK'
  <2>1. Owner[QueueGet(queue)] \in Proc
    BY <1>2, Owners
  <2>2. living' \in [Proc -> Int]
    BY <2>1 DEF IInv, TypeOK, Fork
  <2>. QED
    BY <1>2, <1>4, <2>2 DEF IInv, TypeOK, Fork
<1>7. RunningIsHead'
  BY <1>2, <1>3, <1>4, <1>5, Owners DEF IInv, TypeOK, RunningIsHead
<1>8. QueueSound'
  BY <1>2, <1>3, <1>4, <1>5, Owners DEF IInv, TypeOK, QueueSound, Fork
<1>9. CriticalSections'
  BY <1>2, <1>3, <1>4, <1>5, Owners DEF IInv, TypeOK,
     CriticalSections, Critical
<1>10. MarkedOnlyYields'
  BY <1>2, <1>3, <1>4, <1>5, Owners DEF IInv, TypeOK,
     MarkedOnlyYields, Marked
<1>11. Operands'
  BY <1>2, <1>3, <1>4, <1>5, Owners DEF IInv, TypeOK, Operands, Creating, Counting
<1>12. OneCreator'
  <2>1. ASSUME NEW u \in Thread, pc'[u] \in Creating \cup Counting
        PROVE  /\ pc[u] \in Creating \cup Counting /\ arg'[u] = arg[u]
               /\ pc'[u] \in Creating => pc[u] \in Creating
    BY <2>1, <1>3 DEF Creating, Counting, Fork
  <2>2. c \in fresh /\ fresh' = fresh \ {c} /\ Queued(queue') = Queued(queue) \cup {c}
    BY <1>4 DEF Fork, queueVars
  <2>. QED
    BY <2>1, <2>2, <1>3 DEF IInv, OneCreator, Creating, Counting, QueueSound
<1>13. LoadedDirectory'
  BY <1>2, <1>3, <1>4, <1>5, Owners DEF IInv, TypeOK, LoadedDirectory
<1>. QED
  BY <1>6, <1>7, <1>8, <1>9, <1>10, <1>11, <1>12, <1>13 DEF IInv

(***************************************************************************)
(* terminateProcess finds the caller's process. The inductive invariant is *)
(* preserved.                                                              *)
(***************************************************************************)
LEMMA TerminateLookupStep ==
  ASSUME IInv, NEW t \in Thread, TerminateLookup(t)
  PROVE  IInv'
<1>1. At(t, "run")
  BY DEF TerminateLookup
<1>2. /\ mode = "run" /\ cpu = t /\ pc[t] = "run" /\ current = t /\ t # NoTask
      /\ queue \in Seq(Thread) /\ queue # << >> /\ Head(queue) = t /\ QueueGet(queue) = t
  BY <1>1, Caller
<1>3. /\ pc' = [pc EXCEPT ![t] = "unlink"]
      /\ \A u \in Thread : pc'[u] = IF u = t THEN "unlink" ELSE pc[u]
  BY DEF IInv, TypeOK, TerminateLookup, Goto
<1>4. \A u \in Thread : arg'[u] = IF u = t THEN Owner[current] ELSE arg[u]
  BY DEF IInv, TypeOK, TerminateLookup
<1>5. /\ queue' = queue /\ current' = current /\ cpu' = cpu /\ mode' = mode
      /\ curdir' = curdir /\ flags' = flags /\ delta' = delta /\ fresh' = fresh
      /\ linked' = linked /\ living' = living /\ space' = space /\ next' = next /\ reg' = reg
  BY DEF TerminateLookup, queueVars, threadVars, procVars
<1>6. TypeOK'
  <2>1. pc' \in [Thread -> Label]
    BY <1>3 DEF IInv, TypeOK, Label
  <2>2. Owner[current] \in Proc
    BY <1>2, Owners
  <2>. QED
    BY <1>5, <2>1, <2>2 DEF IInv, TypeOK, TerminateLookup
<1>7. RunningIsHead'
  BY <1>2, <1>3, <1>4, <1>5, Owners DEF IInv, TypeOK, RunningIsHead
<1>8. QueueSound'
  BY <1>2, <1>3, <1>4, <1>5, Owners DEF IInv, TypeOK, QueueSound
<1>9. CriticalSections'
  BY <1>2, <1>3, <1>4, <1>5, Owners DEF IInv, TypeOK,
     CriticalSections, Critical
<1>10. MarkedOnlyYields'
  BY <1>2, <1>3, <1>4, <1>5, Owners DEF IInv, TypeOK,
     MarkedOnlyYields, Marked
<1>11. Operands'
  <2>1. Owner[current] \in Proc
    BY <1>2, Owners
  <2>. QED
    BY <1>3, <1>4, <2>1 DEF IInv, Operands, Creating, Counting
<1>12. OneCreator'
  BY <1>3, <1>4, <1>5 DEF IInv, OneCreator, Creating, Counting
<1>13. LoadedDirectory'
  BY <1>2, <1>3, <1>4, <1>5, Owners DEF IInv, TypeOK, LoadedDirectory
<1>. QED
  BY <1>6, <1>7, <1>8, <1>9, <1>10, <1>11, <1>12, <1>13 DEF IInv

(***************************************************************************)
(* terminateProcessById takes the process out of processList, in two       *)
(* lines. The inductive invariant is preserved.                            *)
(***************************************************************************)
LEMMA RemoveProcessFromListStep ==
  ASSUME IInv, NEW t \in Thread, RemoveProcessFromList(t)
  PROVE  IInv'
<1>1. /\ queueVars' = queueVars /\ flags' = flags /\ delta' = delta /\ arg' = arg
      /\ fresh' = fresh /\ linked' = linked /\ living' = living /\ space' = space
  BY DEF RemoveProcessFromList, procVars
<1>2. CASE At(t, "unlink")
  <2>1. /\ pc[t] = "unlink" /\ next' = next
        /\ \/ /\ \E p \in Node : reg' = [reg EXCEPT ![t].at = p, ![t].to = next[arg[t]]]
              /\ Goto(t, "leave")
           \/ reg' = reg /\ Goto(t, "disable")
    BY <1>2, ListedProcesses DEF RemoveProcessFromList, At, procVars
  <2>2. arg[t] \in Proc /\ next[arg[t]] \in Node
    <3>1. arg[t] \in Proc
      BY <2>1 DEF IInv, Operands
    <3>2. arg[t] \in Node
      BY <3>1 DEF Node
    <3>3. next[arg[t]] \in Node
      BY <3>2, LineTyped
    <3>. QED
      BY <3>1, <3>3
  <2>3. reg' \in [Thread -> Register]
    <3>1. \A n \in Node :
            [reg EXCEPT ![t].at = n, ![t].to = next[arg[t]]] \in [Thread -> Register]
      BY <2>2, Registers
    <3>. QED
      BY <2>1, <3>1, LineTyped
  <2>4. TypeOK'
    BY <1>1, <2>1, <2>3, LineTypes, LineTyped DEF Label
  <2>5. CASE Goto(t, "leave")
    BY <1>1, <1>2, <2>2, <2>4, <2>5, LineStep DEF Creating, Counting
  <2>6. CASE Goto(t, "disable")
    BY <1>1, <1>2, <2>2, <2>4, <2>6, LineStep DEF Creating, Counting
  <2>. QED
    BY <2>1, <2>5, <2>6
<1>3. CASE At(t, "leave")
  <2>1. /\ pc[t] = "leave" /\ Goto(t, "disable")
        /\ next' = [next EXCEPT ![reg[t].at] = reg[t].to]
        /\ reg' = [reg EXCEPT ![t] = NoReg]
    BY <1>3 DEF RemoveProcessFromList, At
  <2>2. arg[t] \in Proc
    BY <2>1 DEF IInv, Operands
  <2>3. reg' \in [Thread -> Register]
    BY <2>1, Registers
  <2>4. next' \in [Node -> Node]
    BY <2>1, RegisterTyped, LineTyped
  <2>5. TypeOK'
    BY <1>1, <2>1, <2>3, <2>4, LineTypes, LineTyped DEF Label
  <2>. QED
    BY <1>1, <1>3, <2>1, <2>2, <2>5, LineStep DEF Creating, Counting
<1>. QED
  BY <1>2, <1>3 DEF RemoveProcessFromList

(***************************************************************************)
(* terminateProcessById enters its critical section. The inductive         *)
(* invariant is preserved.                                                 *)
(***************************************************************************)
LEMMA TerminateDisableStep ==
  ASSUME IInv, NEW t \in Thread, TerminateDisable(t)
  PROVE  IInv'
<1>1. At(t, "disable")
  BY DEF TerminateDisable
<1>2. /\ mode = "run" /\ cpu = t /\ pc[t] = "disable" /\ current = t /\ t # NoTask
      /\ queue \in Seq(Thread) /\ queue # << >> /\ Head(queue) = t /\ QueueGet(queue) = t
  BY <1>1, Caller
<1>3. /\ pc' = [pc EXCEPT ![t] = "mark"]
      /\ \A u \in Thread : pc'[u] = IF u = t THEN "mark" ELSE pc[u]
  BY DEF IInv, TypeOK, TerminateDisable, Goto
<1>4. arg[t] \in Proc
  BY <1>2 DEF IInv, Operands
<1>5. /\ queue' = queue /\ cpu' = cpu /\ mode' = mode /\ curdir' = curdir
      /\ flags' = flags /\ delta' = delta /\ arg' = arg /\ fresh' = fresh
      /\ linked' = linked /\ living' = living /\ space' = space /\ next' = next /\ reg' = reg
  BY DEF TerminateDisable, queueVars, threadVars, procVars
<1>6. TypeOK'
  <2>1. pc' \in [Thread -> Label]
    BY <1>3 DEF IInv, TypeOK, Label
  <2>. QED
    BY <1>5, <2>1 DEF IInv, TypeOK, TerminateDisable
<1>7. RunningIsHead'
  BY <1>2, <1>3, <1>4, <1>5, Owners DEF IInv, TypeOK, RunningIsHead,
     TerminateDisable
<1>8. QueueSound'
  BY <1>2, <1>3, <1>4, <1>5, Owners DEF IInv, TypeOK, QueueSound
<1>9. CriticalSections'
  BY <1>2, <1>3, <1>4, <1>5, Owners DEF IInv, TypeOK,
     CriticalSections, Critical, TerminateDisable
<1>10. MarkedOnlyYields'
  BY <1>2, <1>3, <1>4, <1>5, Owners DEF IInv, TypeOK,
     MarkedOnlyYields, Marked
<1>11. Operands'
  BY <1>2, <1>3, <1>4, <1>5, Owners DEF IInv, TypeOK, Operands, Creating, Counting
<1>12. OneCreator'
  BY <1>3, <1>4, <1>5 DEF IInv, OneCreator, Creating, Counting
<1>13. LoadedDirectory'
  BY <1>2, <1>3, <1>4, <1>5, Owners DEF IInv, TypeOK, LoadedDirectory
<1>. QED
  BY <1>6, <1>7, <1>8, <1>9, <1>10, <1>11, <1>12, <1>13 DEF IInv

(***************************************************************************)
(* terminateProcessById marks the process's threads and leaves its         *)
(* critical section. The inductive invariant is preserved.                 *)
(***************************************************************************)
LEMMA TerminateMarkStep ==
  ASSUME IInv, NEW t \in Thread, TerminateMark(t)
  PROVE  IInv'
<1>1. At(t, "mark")
  BY DEF TerminateMark
<1>2. /\ mode = "run" /\ cpu = t /\ pc[t] = "mark" /\ current = NoTask /\ t # NoTask
      /\ queue \in Seq(Thread) /\ queue # << >> /\ Head(queue) = t /\ QueueGet(queue) = t
  BY <1>1, Caller
<1>3. /\ pc' = [pc EXCEPT ![t] = "yield"]
      /\ \A u \in Thread : pc'[u] = IF u = t THEN "yield" ELSE pc[u]
  BY DEF IInv, TypeOK, TerminateMark, Goto
<1>4. \A u \in Thread : arg'[u] = IF u = t THEN NoTask ELSE arg[u]
  BY DEF IInv, TypeOK, TerminateMark
<1>5. arg[t] \in Proc
  BY <1>2 DEF IInv, Operands
<1>6. /\ queue' = queue /\ cpu' = cpu /\ mode' = mode /\ curdir' = curdir
      /\ delta' = delta /\ fresh' = fresh /\ living' = living /\ space' = space
      /\ next' = next /\ reg' = reg
  BY DEF TerminateMark, queueVars, threadVars, procVars
<1>7. TypeOK'
  BY <1>2, <1>3, <1>4, <1>5, <1>6, Owners DEF IInv, TypeOK, Flag,
     Label, TerminateMark
<1>8. RunningIsHead'
  BY <1>2, <1>3, <1>4, <1>5, <1>6, Owners DEF IInv, TypeOK,
     RunningIsHead, TerminateMark
<1>9. QueueSound'
  BY <1>2, <1>3, <1>4, <1>5, <1>6, Owners DEF IInv, TypeOK, QueueSound
<1>10. CriticalSections'
  BY <1>2, <1>3, <1>4, <1>5, <1>6, Owners DEF IInv, TypeOK,
     CriticalSections, Critical, TerminateMark
<1>11. MarkedOnlyYields'
  BY <1>2, <1>3, <1>4, <1>5, <1>6, Owners DEF IInv, TypeOK,
     MarkedOnlyYields, Marked, TerminateMark
<1>12. Operands'
  BY <1>3, <1>4 DEF IInv, Operands, Creating, Counting
<1>13. OneCreator'
  BY <1>3, <1>4, <1>6 DEF IInv, OneCreator, Creating, Counting
<1>14. LoadedDirectory'
  BY <1>2, <1>3, <1>4, <1>5, <1>6, Owners DEF IInv, TypeOK,
     LoadedDirectory
<1>. QED
  BY <1>7, <1>8, <1>9, <1>10, <1>11, <1>12, <1>13, <1>14 DEF IInv

(***************************************************************************)
(* scheduler_initialize establishes the inductive invariant: the threads   *)
(* it leaves in the queue are all in their own code.                       *)
(***************************************************************************)
LEMMA InitIInv == Init => IInv
<1>. SUFFICES ASSUME Init
              PROVE  IInv
  OBVIOUS
<1>1. /\ Head(InitQueue) \in Thread
      /\ Queued(InitQueue) \subseteq Thread
  BY SchedulerAssumption, TailProperties, ElementOfSeq DEF Queued
<1>2. ASSUME NEW p \in Proc
      PROVE  Cardinality({t \in Queued(InitQueue) : Owner[t] = p}) \in Nat
  <2>1. IsFiniteSet(1 .. Len(InitQueue))
    BY FS_Interval, LenProperties, SchedulerAssumption
  <2>2. IsFiniteSet(Queued(InitQueue))
    <3> DEFINE entry == [i \in 1 .. Len(InitQueue) |-> InitQueue[i]]
    <3>1. entry \in Surjection(1 .. Len(InitQueue), Queued(InitQueue))
      BY DEF Surjection, Queued
    <3>. QED
      BY <2>1, <3>1, FS_Surjection
  <2>. QED
    BY <2>2, FS_Subset, FS_CardinalityType
<1>3. TypeOK
  <2>1. reg \in [Thread -> Register]
    BY SchedulerAssumption DEF Init, Register, NoReg, Node
  <2>2. \A i \in 1 .. Len(InitList) : InitList[i] \in Proc
    BY SchedulerAssumption
  <2>3. InitList[1] \in Proc
    BY <2>2, SchedulerAssumption, EmptySeq, LenProperties
  <2>4. next \in [Node -> Node]
    <3>1. ASSUME NEW p \in Proc, \E i \in 1 .. Len(InitList) - 1 : InitList[i] = p
          PROVE  InitList[(CHOOSE i \in 1 .. Len(InitList) - 1 : InitList[i] = p) + 1] \in Node
      <4> DEFINE k == CHOOSE i \in 1 .. Len(InitList) - 1 : InitList[i] = p
      <4>1. k \in 1 .. Len(InitList) - 1
        BY <3>1
      <4> HIDE DEF k
      <4>2. k + 1 \in 1 .. Len(InitList)
        BY <4>1, LenProperties, SchedulerAssumption
      <4>3. InitList[k + 1] \in Proc
        BY <4>2, <2>2
      <4>. QED
        BY <4>3 DEF k, Node
    <3>. QED
      BY <2>3, <3>1 DEF Init, Node
  <2>5. /\ queue \in Seq(Thread) /\ current \in Thread /\ cpu \in Thread
        /\ curdir \in Proc /\ mode = "run"
    BY <1>1, SchedulerAssumption DEF Init
  <2>6. /\ flags \in [Thread -> SUBSET Flag] /\ delta \in [Thread -> Nat]
        /\ pc \in [Thread -> Label] /\ arg \in [Thread -> Thread \cup Proc \cup {NoTask}]
    BY DEF Init, Flag, Label
  <2>7. /\ fresh \subseteq Thread /\ linked \subseteq Thread
        /\ living \in [Proc -> Int] /\ space \in [Proc -> {"none", "live", "freed"}]
    BY <1>1, <1>2 DEF Init
  <2>. QED
    BY <2>1, <2>4, <2>5, <2>6, <2>7 DEF TypeOK
<1>4. RunningIsHead /\ QueueSound
  BY SchedulerAssumption DEF Init, RunningIsHead, QueueSound
<1>5. CriticalSections /\ MarkedOnlyYields /\ LoadedDirectory
  BY <1>1, SchedulerAssumption
  DEF Init, CriticalSections, Critical, MarkedOnlyYields, Marked, LoadedDirectory
<1>6. Operands /\ OneCreator
  BY DEF Init, Operands, OneCreator, Creating, Counting
<1>. QED
  BY <1>3, <1>4, <1>5, <1>6 DEF IInv

(***************************************************************************)
(* Every step of interrupts, dispatcher and threads preserves the          *)
(* inductive invariant.                                                    *)
(***************************************************************************)
LEMMA NextIInv == IInv /\ [Next]_vars => IInv'
<1>. SUFFICES ASSUME IInv, [Next]_vars
              PROVE  IInv'
  OBVIOUS
<1>1. CASE Tick
  BY <1>1, TickStep
<1>2. CASE Dispatch
  BY <1>2, DispatchSkipStep, DispatchReapStep, DispatchBlockedStep, DispatchRunStep
     DEF Dispatch
<1>3. CASE \E p \in Proc : Unsuspend(p)
  BY <1>3, UnsuspendStep
<1>4. ASSUME NEW t \in Thread, KernelStep(t)
      PROVE  IInv'
  BY <1>4, ScheduleStep, SleepDeltaStep, CreateFailStep, CreateLoadedStep,
     InsertProcessStep,
     QueueInsertStep, InsertThreadToProcStep, RemoveProcessFromListStep,
     TerminateDisableStep, TerminateMarkStep DEF KernelStep
<1>5. ASSUME NEW t \in Thread, Call(t)
      PROVE  IInv'
  BY <1>5, SleepFlagStep, SuspendStep, CreateBeginStep, ForkStep,
     TerminateLookupStep DEF Call
<1>6. CASE UNCHANGED vars
  <2>1. /\ queue' = queue /\ current' = current /\ cpu' = cpu /\ mode' = mode
        /\ curdir' = curdir /\ flags' = flags /\ delta' = delta /\ pc' = pc /\ arg' = arg
        /\ fresh' = fresh /\ linked' = linked /\ living' = living /\ space' = space
        /\ next' = next /\ reg' = reg
    BY <1>6 DEF vars, queueVars, threadVars, procVars
  <2>. QED
    BY <2>1 DEF IInv, TypeOK, RunningIsHead, QueueSound, CriticalSections,
       MarkedOnlyYields,
                Marked, Operands, OneCreator, LoadedDirectory
<1>. QED
  BY <1>1, <1>2, <1>3, <1>4, <1>5, <1>6 DEF Next

(***************************************************************************)
(* The inductive invariant holds throughout: the basis of the theorems     *)
(* below.                                                                  *)
(***************************************************************************)
THEOREM Invariance == Spec => []IInv
  BY InitIInv, NextIInv, PTL DEF Spec

(***************************************************************************)
(* The scheduler's variables keep their types: in particular the ready     *)
(* queue holds threads only, and a sleeping time never goes below zero     *)
(* (scheduler.c:488-520).                                                  *)
(***************************************************************************)
THEOREM TypeCorrect == Spec => []TypeOK
<1>1. IInv => TypeOK
  BY DEF IInv
<1>. QED
  BY <1>1, Invariance, PTL

(***************************************************************************)
(* The thread that executes heads the queue, so that enable_scheduling()   *)
(* gives the CPU back to its caller and fork() copies its caller           *)
(* (scheduler.c:43, :987).                                                 *)
(***************************************************************************)
THEOREM HeadRuns == Spec => []RunningIsHead
<1>1. IInv => RunningIsHead
  BY DEF IInv
<1>. QED
  BY <1>1, Invariance, PTL

(***************************************************************************)
(* Whatever is created, forked, rotated and reaped, no thread has two      *)
(* entries in the queue (scheduler.c:197-298, :341-353).                   *)
(***************************************************************************)
THEOREM QueueStaysSound == Spec => []QueueSound
<1>1. IInv => QueueSound
  BY DEF IInv
<1>. QED
  BY <1>1, Invariance, PTL

(***************************************************************************)
(* disable_scheduling() and enable_scheduling() exclude: while a thread is *)
(* between them no other thread executes (scheduler.c:36-44).              *)
(***************************************************************************)
THEOREM SchedulingExcludes == Spec => []CriticalSections
<1>1. IInv => CriticalSections
  BY DEF IInv
<1>. QED
  BY <1>1, Invariance, PTL

(***************************************************************************)
(* A thread marked for termination executes only the rest of its own       *)
(* terminateProcessById (process.c:606-608).                               *)
(***************************************************************************)
THEOREM MarkedStops == Spec => []MarkedOnlyYields
<1>1. IInv => MarkedOnlyYields
  BY DEF IInv
<1>. QED
  BY <1>1, Invariance, PTL

(***************************************************************************)
(* A thread that can be preempted executes in its own page directory       *)
(* (process.c:212-264, kernel_entry.asm:430-443).                          *)
(***************************************************************************)
THEOREM RunsAtHome == Spec => []OwnAddressSpace
<1>1. IInv => OwnAddressSpace
  BY DEF IInv, TypeOK, CriticalSections, Critical, LoadedDirectory, OwnAddressSpace
<1>. QED
  BY <1>1, Invariance, PTL

-----------------------------------------------------------------------------
(***************************************************************************)
(* Sleeping.  Only the thread that executes can be asleep without a        *)
(* wake-up time, between the two assignments of thread_sleep.              *)
(***************************************************************************)
LongSleeps == \A ms \in SleepMs : ms >= 1000 \div PHASE

Arming ==
  mode = "run" /\ "SLEEP" \in flags[cpu] =>
    \/ pc[cpu] = "sleep"
    \/ pc[cpu] = "yield" /\ delta[cpu] > 0

LEMMA WakeUpTime ==
  ASSUME LongSleeps, NEW ms \in SleepMs
  PROVE  ms \div (1000 \div PHASE) > 0
<1> DEFINE tick == 1000 \div PHASE
<1>1. tick \in Nat /\ tick > 0
  BY SchedulerAssumption
<1>2. ms \in Nat /\ ms >= tick
  BY SchedulerAssumption DEF LongSleeps
<1> HIDE DEF tick
<1>3. ms \div tick > 0
  BY <1>1, <1>2
<1>. QED
  BY <1>3 DEF tick

LEMMA ArmingStep ==
  ASSUME LongSleeps, IInv, Arming, [Next]_vars
  PROVE  Arming'
<1>0. /\ flags \in [Thread -> SUBSET Flag] /\ delta \in [Thread -> Nat] /\ pc \in [Thread -> Label]
      /\ cpu \in Thread
  BY DEF IInv, TypeOK
<1>1. CASE Tick \/ DispatchSkip \/ DispatchBlocked \/ DispatchReap \/ UNCHANGED vars
  BY <1>1 DEF Tick, DispatchSkip, DispatchBlocked, DispatchReap, vars, queueVars, threadVars,
     Arming, InDispatch
<1>2. CASE DispatchRun
  <2>1. Candidate \in Thread /\ cpu' = Candidate /\ "SLEEP" \notin flags[Candidate]
    <3>1. queue \in Seq(Thread) /\ queue # << >>
      BY <1>2 DEF IInv, TypeOK, DispatchRun
    <3>2. Candidate \in Thread
      BY <3>1, RotateProperties, TailProperties DEF Candidate
    <3>. QED
      BY <1>2, <3>2 DEF DispatchRun, Runnable, Blocked
  <2>2. flags'[Candidate] \subseteq flags[Candidate]
    BY <1>0, <1>2, <2>1 DEF DispatchRun, CountDown
  <2>. QED
    BY <2>1, <2>2 DEF Arming
<1>3. CASE \E p \in Proc : Unsuspend(p)
  <2>1. flags'[cpu] \subseteq flags[cpu] /\ cpu' = cpu /\ mode' = mode /\ pc' = pc /\ delta' = delta
    BY <1>0, <1>3 DEF Unsuspend
  <2>. QED
    BY <2>1 DEF Arming
<1>4. ASSUME NEW t \in Thread, SleepFlag(t)
      PROVE  Arming'
  <2>1. pc'[t] = "sleep" /\ cpu' = t
    BY <1>0, <1>4 DEF SleepFlag, At, Goto, queueVars
  <2>. QED
    BY <2>1 DEF Arming
<1>5. ASSUME NEW t \in Thread, NEW ms \in SleepMs, SleepDelta(t, ms)
      PROVE  Arming'
  <2>1. At(t, "sleep") /\ current = t /\ cpu = t
    BY <1>5, Caller DEF SleepDelta
  <2>2. pc'[t] = "yield" /\ cpu' = t /\ delta'[t] = ms \div (1000 \div PHASE)
    BY <1>0, <1>5, <2>1 DEF SleepDelta, Goto, queueVars
  <2>. QED
    BY <2>2, WakeUpTime DEF Arming
<1>6. ASSUME NEW t \in Thread, Schedule(t)
      PROVE  Arming'
  <2>1. current = t /\ t # NoTask
    BY <1>6, Caller DEF Schedule
  <2>. QED
    BY <1>6, <2>1 DEF Schedule, Arming
<1>7. ASSUME NEW t \in Thread, Suspend(t) \/ TerminateMark(t)
      PROVE  Arming'
  <2>1. mode = "run" /\ cpu = t /\ pc[t] \in {"run", "mark"} /\ cpu' = cpu
    BY <1>7 DEF Suspend, TerminateMark, At, queueVars
  <2>2. "SLEEP" \notin flags[t]
    BY <2>1 DEF Arming
  <2>3. "SLEEP" \notin flags'[t]
    BY <1>0, <1>7, <2>2 DEF Suspend, TerminateMark
  <2>. QED
    BY <2>1, <2>3 DEF Arming
<1>8. ASSUME NEW t \in Thread,
             \/ \E m \in Thread : CreateBegin(t, m)
             \/ CreateFail(t) \/ CreateLoaded(t) \/ InsertProcess(t)
             \/ QueueInsert(t) \/ InsertThreadToProc(t)
             \/ TerminateLookup(t) \/ RemoveProcessFromList(t) \/ TerminateDisable(t)
      PROVE  Arming'
  <2>1. /\ mode = "run" /\ cpu = t /\ pc[t] \notin {"sleep", "yield"}
        /\ cpu' = cpu /\ flags' = flags
    <3>1. CASE InsertProcess(t)
      BY <3>1 DEF At, InsertProcess, queueVars
    <3>2. CASE InsertThreadToProc(t)
      BY <3>2 DEF At, InsertThreadToProc, AppendThread, CountThread, queueVars
    <3>3. CASE RemoveProcessFromList(t)
      BY <3>3 DEF At, RemoveProcessFromList, queueVars
    <3>4. CASE ~ (InsertProcess(t) \/ InsertThreadToProc(t) \/ RemoveProcessFromList(t))
      BY <1>8, <3>4 DEF At, CreateBegin, CreateFail, CreateLoaded, QueueInsert,
         TerminateLookup, TerminateDisable, queueVars
    <3>. QED
      BY <3>1, <3>2, <3>3, <3>4
  <2>. QED
    BY <2>1 DEF Arming
<1>9. ASSUME NEW t \in Thread, NEW c \in Thread, Fork(t, c)
      PROVE  Arming'
  BY <1>9 DEF Fork, Arming
<1>. QED
  BY <1>1, <1>2, <1>3, <1>4, <1>5, <1>6, <1>7, <1>8, <1>9
  DEF Next, Dispatch, KernelStep, Call

(***************************************************************************)
(* Theorem: if no sleep is shorter than a tick, a thread that gives up the *)
(* CPU in thread_sleep has a wake-up time (scheduler.c:126-132).           *)
(***************************************************************************)
THEOREM SleepersArmed == LongSleeps /\ Spec => []SleepArmed
<1>1. Init => Arming
  BY SchedulerAssumption, TailProperties DEF Init, Arming
<1>2. LongSleeps /\ IInv /\ Arming /\ [Next]_vars => Arming'
  BY ArmingStep
<1>3. LongSleeps => LongSleeps'
  BY DEF LongSleeps
<1>4. Arming => SleepArmed
  BY DEF Arming, SleepArmed
<1>. QED
  BY <1>1, <1>2, <1>3, <1>4, Invariance, PTL DEF Spec

-----------------------------------------------------------------------------
(***************************************************************************)
(* Started programs.  insert_thread_to_proc counts the main thread of a    *)
(* new process by loading livingThreads and storing it one higher, after   *)
(* the thread has been queued: a program that forks between the two loses  *)
(* a count, and is then freed too early.  The theorems below are about all *)
(* others: what was running from the start may fork, what is started while *)
(* the system runs may not.                                                *)
(***************************************************************************)
Started == UserProc \ {Owner[t] : t \in Queued(InitQueue)}

StartedDoNotFork ==
  \A t, u \in Thread : Owner[t] = Owner[u] /\ Owner[t] \in Started => t = u

\* A creator works for a started process, and it has a descriptor until its
\* main thread is queued; what was there from the start is never unallocated.
CreatorsLive ==
  \A t \in Thread : /\ pc[t] \in Creating \cup Counting => Owner[arg[t]] \in Started
                    /\ pc[t] \in Creating => space[Owner[arg[t]]] = "live"

OldSpaces == \A t \in Queued(InitQueue) : space[Owner[t]] # "none"

LifeInv == ParentsLive /\ CreatorsLive /\ OldSpaces

-----------------------------------------------------------------------------
(***************************************************************************)
(* livingThreads.  What fork adds and the dispatcher takes away agrees     *)
(* with the ready queue at every step; of a started process it is zero     *)
(* until the main thread is counted, and one from then on.                 *)
(***************************************************************************)
Here(p) == Queued(queue) \cap ThreadsOf(p)

Counts(t, m) == pc[t] \in Counting /\ arg[t] = m

MainCounted(m) ==
  LET n == living[Owner[m]]
  IN  /\ m \in fresh => n = 0
      /\ \A t \in Thread : pc[t] \in Creating /\ arg[t] = m => n = 0
      /\ m \in Queued(queue) =>
           /\ \A t \in Thread : Counts(t, m) => n = 0
           /\ \A t \in Thread : Counts(t, m) /\ pc[t] = "store" => reg[t].count = 0
           /\ (\A t \in Thread : ~ Counts(t, m)) => n = 1

CountInv ==
  /\ \A p \in Proc \ Started : living[p] = Cardinality(Here(p))
  /\ \A m \in Thread : Owner[m] \in Started => MainCounted(m)

\* The thread that executes is queued.
LEMMA RunningQueued ==
  ASSUME IInv, NEW t \in Thread, NEW l, At(t, l)
  PROVE  t \in Queued(queue) /\ queue \in Seq(Thread) /\ queue # << >>
  BY Caller, TailProperties

LEMMA QueuedFinite ==
  ASSUME NEW q \in Seq(Thread)
  PROVE  IsFiniteSet(Queued(q)) /\ Queued(q) \subseteq Thread
<1>1. IsFiniteSet(1 .. Len(q))
  BY FS_Interval, LenProperties
<1> DEFINE entry == [i \in 1 .. Len(q) |-> q[i]]
<1>2. entry \in Surjection(1 .. Len(q), Queued(q))
  BY DEF Surjection, Queued
<1>3. Queued(q) \subseteq Thread
  BY ElementOfSeq DEF Queued
<1>. QED
  BY <1>1, <1>2, <1>3, FS_Surjection

(***************************************************************************)
(* The invariant gives the property: only a started process has a main     *)
(* thread still to be counted, and then no other thread.                   *)
(***************************************************************************)
LEMMA CountsLiving ==
  ASSUME StartedDoNotFork, IInv, CountInv, LifeInv
  PROVE  LivingCounts
<1> SUFFICES ASSUME NEW p \in Proc, Here(p) # {}
             PROVE  living[p] + Cardinality(Linking(p)) = Cardinality(Here(p))
  BY DEF LivingCounts, Here
<1>1. /\ Here(p) \subseteq Queued(queue) /\ IsFiniteSet(Here(p)) /\ Here(p) \subseteq Thread
      /\ \A t \in Here(p) : Owner[t] = p
  BY QueuedFinite, FS_Subset DEF IInv, TypeOK, Here, ThreadsOf
<1>2. Linking(p) = {t \in Thread : pc[t] \in Counting /\ Owner[arg[t]] = p}
  BY DEF Linking, Counting
<1>3. CASE p \notin Started
  <2>1. Linking(p) = {}
    BY <1>2, <1>3 DEF LifeInv, CreatorsLive
  <2>2. living[p] = Cardinality(Here(p)) /\ Cardinality(Here(p)) \in Nat
    BY <1>1, <1>3, FS_CardinalityType DEF CountInv
  <2>. QED
    BY <2>1, <2>2, FS_EmptySet
<1>4. CASE p \in Started
  <2>1. PICK m \in Here(p) : TRUE
    OBVIOUS
  <2>2. m \in Thread /\ m \in Queued(queue) /\ Owner[m] = p /\ MainCounted(m)
    BY <1>1, <1>4, <2>1 DEF CountInv
  <2>3. \A u \in Thread : Owner[u] = p => u = m
    BY <1>4, <2>2 DEF StartedDoNotFork
  <2>4. Here(p) = {m}
    BY <1>1, <2>1, <2>3
  <2>5. Cardinality(Here(p)) = 1
    BY <2>4, FS_Singleton
  <2>6. \A t \in Thread : t \in Linking(p) <=> Counts(t, m)
    BY <1>2, <2>2, <2>3 DEF Counts, IInv, Operands
  <2>7. CASE \E t \in Thread : Counts(t, m)
    <3>1. PICK t \in Thread : Counts(t, m)
      BY <2>7
    <3>2. \A u \in Thread : Counts(u, m) => u = t
      BY <3>1 DEF Counts, IInv, OneCreator
    <3>3. Linking(p) = {t}
      BY <2>6, <3>1, <3>2 DEF Linking
    <3>4. Cardinality(Linking(p)) = 1
      BY <3>3, FS_Singleton
    <3>5. living[p] = 0
      BY <2>2, <3>1 DEF MainCounted
    <3>. QED
      BY <2>5, <3>4, <3>5
  <2>8. CASE \A t \in Thread : ~ Counts(t, m)
    <3>1. Linking(p) = {}
      BY <2>6, <2>8 DEF Linking
    <3>2. Cardinality(Linking(p)) = 0
      BY <3>1, FS_EmptySet
    <3>3. living[p] = 1
      BY <2>2, <2>8 DEF MainCounted
    <3>. QED
      BY <2>5, <3>2, <3>3
  <2>. QED
    BY <2>7, <2>8
<1>. QED
  BY <1>3, <1>4

(***************************************************************************)
(* A step that moves no thread into or out of the queue, creates none and  *)
(* counts none leaves the counts as they are.                              *)
(***************************************************************************)
LEMMA CountKept ==
  ASSUME CountInv, Queued(queue') = Queued(queue), living' = living, fresh' = fresh,
         \A t \in Thread : pc'[t] \in Creating => pc[t] \in Creating /\ arg'[t] = arg[t],
         \A t \in Thread : pc'[t] \in Counting <=> pc[t] \in Counting,
         \A t \in Thread : pc[t] \in Counting => arg'[t] = arg[t],
         \A t \in Thread : pc'[t] = "store" => pc[t] = "store" /\ reg'[t] = reg[t]
  PROVE  CountInv'
<1>1. \A p : Here(p)' = Here(p)
  BY DEF Here, ThreadsOf
<1>2. \A m, t \in Thread : Counts(t, m)' <=> Counts(t, m)
  BY DEF Counts
<1>3. ASSUME NEW m \in Thread, MainCounted(m)
      PROVE  MainCounted(m)'
  BY <1>2, <1>3 DEF MainCounted
<1>. QED
  BY <1>1, <1>3 DEF CountInv

(***************************************************************************)
(* The steps of interrupts and dispatcher that reap nobody.                *)
(***************************************************************************)
LEMMA QuietDispatchCount ==
  ASSUME IInv, CountInv,
         \/ Tick \/ DispatchSkip \/ DispatchBlocked \/ DispatchRun
         \/ \E p \in Proc : Unsuspend(p)
         \/ UNCHANGED vars
  PROVE  CountInv'
<1>1. queue \in Seq(Thread)
  BY DEF IInv, TypeOK
<1>2. queue' = queue \/ (queue # << >> /\ queue' = Rotate(queue))
  BY DEF Tick, DispatchSkip, DispatchBlocked, DispatchRun, Unsuspend, vars, queueVars
<1>3. Queued(queue') = Queued(queue)
  BY <1>1, <1>2, RotateProperties
<1>4. living' = living /\ pc' = pc /\ arg' = arg /\ reg' = reg /\ fresh' = fresh
  BY DEF Tick, DispatchSkip, DispatchBlocked, DispatchRun, Unsuspend, vars,
     threadVars, procVars
<1>. QED
  BY <1>3, <1>4, CountKept

(***************************************************************************)
(* The steps of a thread that neither create, insert nor count.            *)
(***************************************************************************)
LEMMA QuietThreadCount ==
  ASSUME IInv, CountInv, NEW t \in Thread,
         \/ Schedule(t) \/ SleepFlag(t) \/ Suspend(t)
         \/ \E ms \in SleepMs : SleepDelta(t, ms)
         \/ CreateLoaded(t) \/ InsertProcess(t)
         \/ TerminateLookup(t) \/ RemoveProcessFromList(t)
         \/ TerminateDisable(t) \/ TerminateMark(t)
  PROVE  CountInv'
<1>0. pc \in [Thread -> Label] /\ arg = [u \in Thread |-> arg[u]] /\ reg = [u \in Thread |-> reg[u]]
  BY DEF IInv, TypeOK
<1> DEFINE Quiet ==
             /\ queue' = queue /\ living' = living /\ fresh' = fresh
             /\ \A u \in Thread : u # t => pc'[u] = pc[u] /\ arg'[u] = arg[u] /\ reg'[u] = reg[u]
             /\ pc[t] \notin Counting /\ pc'[t] \notin Counting
             /\ pc'[t] \in Creating => pc[t] \in Creating /\ arg'[t] = arg[t]
<1>1. ASSUME InsertProcess(t)
      PROVE  Quiet
  BY <1>0, <1>1 DEF At, Goto, InsertProcess, queueVars, procVars, Creating, Counting
<1>2. ASSUME RemoveProcessFromList(t)
      PROVE  Quiet
  BY <1>0, <1>2 DEF At, Goto, RemoveProcessFromList, queueVars, procVars, Creating, Counting
<1>3. ASSUME \/ Schedule(t) \/ SleepFlag(t) \/ Suspend(t) \/ CreateLoaded(t)
             \/ \E ms \in SleepMs : SleepDelta(t, ms)
      PROVE  Quiet
  BY <1>0, <1>3 DEF At, Goto, Schedule, SleepFlag, Suspend, SleepDelta, CreateLoaded,
     queueVars, procVars, Creating, Counting
<1>7. ASSUME TerminateLookup(t) \/ TerminateDisable(t) \/ TerminateMark(t)
      PROVE  Quiet
  BY <1>0, <1>7 DEF At, Goto, TerminateLookup, TerminateDisable, TerminateMark, queueVars, procVars,
     Creating, Counting
<1>8. Quiet
  BY <1>1, <1>2, <1>3, <1>7
<1>4. /\ \A u \in Thread : pc'[u] \in Creating => pc[u] \in Creating /\ arg'[u] = arg[u]
      /\ \A u \in Thread : pc'[u] \in Counting <=> pc[u] \in Counting
      /\ \A u \in Thread : pc[u] \in Counting => arg'[u] = arg[u]
      /\ \A u \in Thread : pc'[u] = "store" => pc[u] = "store" /\ reg'[u] = reg[u]
  BY <1>8 DEF Counting
<1>. QED
  BY <1>4, <1>8, CountKept

(***************************************************************************)
(* createProcess takes a thread that does not exist yet, and gives it back *)
(* when the executable cannot be loaded: its process has no count.         *)
(***************************************************************************)
LEMMA CreateCount ==
  ASSUME IInv, CountInv, LifeInv, NEW t \in Thread,
         CreateFail(t) \/ \E m \in Thread : CreateBegin(t, m)
  PROVE  CountInv'
<1>1. queue' = queue /\ living' = living
  BY DEF CreateFail, CreateBegin, procVars
<1>2. \A p : Here(p)' = Here(p)
  BY <1>1 DEF Here, ThreadsOf
<1>3. \A u \in Thread : u # t => pc'[u] = pc[u] /\ arg'[u] = arg[u] /\ reg'[u] = reg[u]
  BY DEF IInv, TypeOK, Goto, CreateFail, CreateBegin
<1>4. pc[t] \notin Counting /\ pc'[t] \notin Counting
  BY DEF IInv, TypeOK, At, Goto, CreateFail, CreateBegin, Counting
<1>5. \A u, m \in Thread : Counts(u, m)' <=> Counts(u, m)
  BY <1>3, <1>4 DEF Counts
<1>6. \A u, m \in Thread : Counts(u, m)' => pc'[u] = pc[u] /\ reg'[u] = reg[u]
  BY <1>3, <1>4 DEF Counts
<1>7. ASSUME NEW m \in Thread, MainCounted(m)
      PROVE  MainCounted(m)'
  <2>1. m \in fresh' => living[Owner[m]] = 0
    BY <1>7 DEF CreateFail, CreateBegin, MainCounted, At, Creating
  <2>2. \A u \in Thread : pc'[u] \in Creating /\ arg'[u] = m => living[Owner[m]] = 0
    <3>1. CASE CreateFail(t)
      <4>1. pc'[t] = "run"
        BY <3>1 DEF CreateFail, Goto, IInv, TypeOK
      <4>. QED
        BY <1>3, <1>7, <4>1 DEF MainCounted, Creating
    <3>2. ASSUME NEW n \in Thread, CreateBegin(t, n)
          PROVE  \A u \in Thread : pc'[u] \in Creating /\ arg'[u] = m => living[Owner[m]] = 0
      <4>1. arg'[t] = n /\ n \in fresh
        BY <3>2 DEF CreateBegin, IInv, TypeOK
      <4>. QED
        BY <1>3, <1>7, <4>1 DEF MainCounted
    <3>. QED
      BY <3>1, <3>2
  <2>. QED
    BY <1>1, <1>5, <1>6, <1>7, <2>1, <2>2 DEF MainCounted
<1>. QED
  BY <1>1, <1>2, <1>7 DEF CountInv

(***************************************************************************)
(* queue_insert: one more in the queue, still to be counted.               *)
(***************************************************************************)
LEMMA QueueInsertCount ==
  ASSUME StartedDoNotFork, IInv, CountInv, LifeInv, NEW t \in Thread, QueueInsert(t)
  PROVE  CountInv'
<1> DEFINE n == arg[t]
<1>1. /\ pc[t] = "insert" /\ n \in Thread /\ Owner[n] \in Started
      /\ queue \in Seq(Thread) /\ queue' = Append(queue, n)
      /\ living' = living /\ arg' = arg /\ fresh' = fresh /\ reg' = reg
  BY DEF QueueInsert, At, IInv, TypeOK, Operands, Creating, Insert, procVars,
     LifeInv, CreatorsLive
<1> HIDE DEF n
<1>2. \A u \in Thread : pc'[u] = IF u = t THEN "link" ELSE pc[u]
  BY DEF QueueInsert, Goto, IInv, TypeOK
<1>3. Queued(queue') = Queued(queue) \cup {n}
  BY <1>1, AppendEntry
<1>4. \A p \in Proc \ Started : Here(p)' = Here(p)
  BY <1>1, <1>3 DEF Here, ThreadsOf
<1>5. ASSUME NEW m \in Thread, MainCounted(m)
      PROVE  MainCounted(m)'
  <2>1. CASE m = n
    <3>1. living[Owner[m]] = 0
      BY <1>1, <1>5, <2>1 DEF MainCounted, Creating, n
    <3>2. \A u \in Thread : Counts(u, m)' => u = t
      BY <1>1, <1>2, <2>1 DEF Counts, Creating, Counting, IInv, OneCreator, n
    <3>3. Counts(t, m)' /\ pc'[t] # "store"
      BY <1>1, <1>2, <2>1 DEF Counts, Counting, n
    <3>. QED
      BY <1>1, <3>1, <3>2, <3>3 DEF MainCounted
  <2>2. CASE m # n
    <3>1. m \in Queued(queue') <=> m \in Queued(queue)
      BY <1>3, <2>2
    <3>2. \A u \in Thread : Counts(u, m)' <=> Counts(u, m)
      BY <1>1, <1>2, <2>2 DEF Counts, Counting, n
    <3>3. \A u \in Thread : pc'[u] \in Creating => pc[u] \in Creating
      BY <1>2 DEF Creating
    <3>4. \A u \in Thread : pc'[u] = "store" => pc[u] = "store"
      BY <1>2
    <3>. QED
      BY <1>1, <1>5, <3>1, <3>2, <3>3, <3>4 DEF MainCounted
  <2>. QED
    BY <2>1, <2>2
<1>. QED
  BY <1>1, <1>4, <1>5 DEF CountInv

(***************************************************************************)
(* insert_thread_to_proc: three lines before the count, and the count.     *)
(***************************************************************************)
LEMMA InsertThreadToProcCount ==
  ASSUME StartedDoNotFork, IInv, CountInv, LifeInv, NEW t \in Thread, InsertThreadToProc(t)
  PROVE  CountInv'
<1>1. /\ queue' = queue /\ fresh' = fresh
      /\ \A u \in Thread : u # t => pc'[u] = pc[u] /\ arg'[u] = arg[u] /\ reg'[u] = reg[u]
  BY DEF InsertThreadToProc, AppendThread, CountThread, Goto, IInv, TypeOK, queueVars
<1>2. CASE At(t, "link") \/ At(t, "append")
  <2>1. /\ living' = living /\ arg' = arg
        /\ pc[t] \in {"link", "append"} /\ pc'[t] \in {"append", "count"}
    BY <1>2 DEF InsertThreadToProc, AppendThread, CountThread, At, Goto, IInv, TypeOK
  <2>2. /\ \A u \in Thread : pc'[u] \in Creating => pc[u] \in Creating /\ arg'[u] = arg[u]
        /\ \A u \in Thread : pc'[u] \in Counting <=> pc[u] \in Counting
        /\ \A u \in Thread : pc'[u] = "store" => pc[u] = "store" /\ reg'[u] = reg[u]
    BY <1>1, <2>1 DEF Creating, Counting
  <2>. QED
    BY <1>1, <2>1, <2>2, CountKept
<1>3. CASE At(t, "count")
  <2>1. /\ living' = living /\ arg' = arg /\ pc[t] = "count" /\ pc'[t] = "store"
        /\ reg'[t].count = living[Owner[arg[t]]]
    BY <1>3 DEF InsertThreadToProc, AppendThread, CountThread, At, Goto, IInv, TypeOK, Register
  <2>2. \A p : Here(p)' = Here(p)
    BY <1>1 DEF Here, ThreadsOf
  <2>3. \A u, m \in Thread : Counts(u, m)' <=> Counts(u, m)
    BY <1>1, <2>1 DEF Counts, Counting
  <2>4. \A u \in Thread : pc'[u] \in Creating => pc[u] \in Creating
    BY <1>1, <2>1 DEF Creating
  <2>5. ASSUME NEW m \in Thread, MainCounted(m)
        PROVE  MainCounted(m)'
    <3>1. ASSUME NEW u \in Thread, Counts(u, m)', m \in Queued(queue)
          PROVE  living[Owner[m]] = 0 /\ (pc'[u] = "store" => reg'[u].count = 0)
      <4>3. Counts(u, m)
        BY <2>3, <3>1
      <4>1. living[Owner[m]] = 0 /\ arg[u] = m
        BY <2>5, <3>1, <4>3 DEF MainCounted, Counts
      <4>2. CASE u = t
        BY <2>1, <4>1, <4>2
      <4>4. CASE u # t
        BY <1>1, <2>5, <3>1, <4>1, <4>3, <4>4 DEF MainCounted
      <4>. QED
        BY <4>2, <4>4
    <3>. QED
      BY <1>1, <2>1, <2>3, <2>4, <2>5, <3>1 DEF MainCounted
  <2>. QED
    BY <2>1, <2>2, <2>5 DEF CountInv
<1>4. CASE At(t, "store")
  <2> DEFINE n == arg[t]
  <2>1. /\ pc[t] = "store" /\ pc'[t] = "run" /\ n \in Thread /\ Owner[n] \in Started
        /\ living' = [living EXCEPT ![Owner[n]] = reg[t].count + 1]
    BY <1>4 DEF InsertThreadToProc, AppendThread, CountThread, At, Goto, IInv, TypeOK,
       Operands, Counting, LifeInv, CreatorsLive
  <2>2. Counts(t, n) /\ n \notin fresh
    BY <2>1 DEF Counts, Counting, IInv, OneCreator
  <2>3. \A u \in Thread : u # t => arg[u] # n \/ pc[u] \notin Creating \cup Counting
    BY <2>1 DEF IInv, OneCreator, Counting
  <2> HIDE DEF n
  <2>4. \A p \in Proc \ Started : Here(p)' = Here(p) /\ living'[p] = living[p]
    BY <1>1, <2>1 DEF Here, ThreadsOf, IInv, TypeOK
  <2>5. \A u \in Thread : pc'[u] \in Creating \cup Counting => u # t
    BY <2>1 DEF Creating, Counting
  <2>6. ASSUME NEW m \in Thread, Owner[m] \in Started, MainCounted(m)
        PROVE  MainCounted(m)'
    <3>1. CASE m = n
      <4>1. \A u \in Thread : arg'[u] = m => pc'[u] \notin Creating \cup Counting
        BY <1>1, <2>3, <2>5, <3>1
      <4>2. m \in Queued(queue) => living'[Owner[m]] = 1
        <5>1. m \in Queued(queue) => reg[t].count = 0
          BY <2>1, <2>2, <2>6, <3>1 DEF MainCounted
        <5>2. Owner[n] \in Proc
          BY <2>1, Owners
        <5>3. living'[Owner[n]] = reg[t].count + 1
          BY <2>1, <5>2 DEF IInv, TypeOK
        <5>. QED
          BY <3>1, <5>1, <5>3
      <4>. QED
        BY <1>1, <2>2, <3>1, <4>1, <4>2 DEF MainCounted, Counts
    <3>2. CASE m # n
      <4>1. Owner[m] # Owner[n]
        BY <2>1, <3>2 DEF StartedDoNotFork
      <4>2. living'[Owner[m]] = living[Owner[m]]
        <5>1. Owner[m] \in Proc
          BY Owners
        <5>. QED
          BY <2>1, <4>1, <5>1 DEF IInv, TypeOK
      <4>3. \A u \in Thread : Counts(u, m)' <=> Counts(u, m)
        BY <1>1, <2>1, <2>5, <3>2 DEF Counts, n
      <4>4. \A u \in Thread : Counts(u, m)' => pc'[u] = pc[u] /\ reg'[u] = reg[u]
        BY <1>1, <2>5 DEF Counts
      <4>5. \A u \in Thread : pc'[u] \in Creating => pc[u] \in Creating /\ arg'[u] = arg[u]
        BY <1>1, <2>5
      <4>. QED
        BY <1>1, <2>6, <4>2, <4>3, <4>4, <4>5 DEF MainCounted
    <3>. QED
      BY <3>1, <3>2
  <2>. QED
    BY <2>4, <2>6 DEF CountInv
<1>. QED
  BY <1>2, <1>3, <1>4 DEF InsertThreadToProc, AppendThread, CountThread

(***************************************************************************)
(* fork: the child is queued and counted in one critical section.          *)
(***************************************************************************)
LEMMA ForkCount ==
  ASSUME StartedDoNotFork, IInv, CountInv, LifeInv, NEW t \in Thread, NEW c \in Thread,
         Fork(t, c)
  PROVE  CountInv'
<1>1. /\ queue \in Seq(Thread) /\ queue # << >> /\ QueueGet(queue) = t
      /\ t \in Queued(queue)
  BY Caller, RunningQueued DEF Fork
<1>2. /\ queue' = InsertPrioritized(queue, c) /\ c \in fresh /\ c \notin Queued(queue)
      /\ Owner[c] = Owner[t] /\ Owner[c] \in Proc /\ fresh' = fresh \ {c}
      /\ living' = [living EXCEPT ![Owner[c]] = @ + 1]
      /\ pc' = pc /\ arg' = arg /\ reg' = reg
  BY <1>1, Owners DEF Fork, IInv, QueueSound
<1>3. Queued(queue') = Queued(queue) \cup {c}
  BY <1>1, <1>2, InsertPrioritizedProperties
<1>4. Owner[c] \notin Started
  BY <1>1, <1>2 DEF StartedDoNotFork
<1>5. ASSUME NEW p \in Proc \ Started
      PROVE  living'[p] = Cardinality(Here(p)')
  <2>1. living[p] = Cardinality(Here(p)) /\ IsFiniteSet(Here(p))
    BY <1>1, QueuedFinite, FS_Subset DEF CountInv, Here
  <2>2. CASE Owner[c] = p
    <3>1. Here(p)' = Here(p) \cup {c} /\ c \notin Here(p)
      BY <1>2, <1>3, <2>2 DEF Here, ThreadsOf
    <3>2. Cardinality(Here(p)') = Cardinality(Here(p)) + 1
      BY <2>1, <3>1, FS_AddElement
    <3>3. living'[p] = living[p] + 1
      BY <1>2, <2>2 DEF IInv, TypeOK
    <3>. QED
      BY <2>1, <3>2, <3>3
  <2>3. CASE Owner[c] # p
    <3>1. Here(p)' = Here(p)
      BY <1>3, <2>3 DEF Here, ThreadsOf
    <3>2. living'[p] = living[p]
      BY <1>2, <2>3 DEF IInv, TypeOK
    <3>. QED
      BY <2>1, <3>1, <3>2
  <2>. QED
    BY <2>2, <2>3
<1>6. ASSUME NEW m \in Thread, Owner[m] \in Started, MainCounted(m)
      PROVE  MainCounted(m)'
  <2>1. Owner[m] # Owner[c] /\ m # c
    BY <1>4, <1>6
  <2>2. living'[Owner[m]] = living[Owner[m]]
    BY <1>2, <2>1, Owners DEF IInv, TypeOK
  <2>3. m \in Queued(queue') <=> m \in Queued(queue)
    BY <1>3, <2>1
  <2>. QED
    BY <1>2, <1>6, <2>2, <2>3 DEF MainCounted, Counts
<1>. QED
  BY <1>5, <1>6 DEF CountInv

(***************************************************************************)
(* The dispatcher takes a reaped thread off the queue and off the count.   *)
(***************************************************************************)
LEMMA ReapFacts ==
  ASSUME IInv, DispatchReap
  PROVE  /\ Candidate \in Queued(queue) /\ Candidate \in Thread
         /\ Owner[Candidate] \in Proc
         /\ Queued(queue') = Queued(queue) \ {Candidate}
<1>1. queue \in Seq(Thread) /\ queue # << >> /\ queue' = Tail(Rotate(queue))
  BY DEF IInv, TypeOK, DispatchReap
<1>2. /\ Rotate(queue) \in Seq(Thread) /\ Rotate(queue) # << >>
      /\ Queued(Rotate(queue)) = Queued(queue)
      /\ NoDuplicates(Rotate(queue))
  BY <1>1, RotateProperties DEF IInv, QueueSound
<1>3. /\ Candidate \in Thread
      /\ Queued(Rotate(queue)) = Queued(Tail(Rotate(queue))) \cup {Candidate}
      /\ Candidate \notin Queued(Tail(Rotate(queue)))
  BY <1>2, TailProperties DEF Candidate
<1>. QED
  BY <1>1, <1>2, <1>3, Owners

LEMMA DispatchReapCount ==
  ASSUME StartedDoNotFork, IInv, CountInv, DispatchReap
  PROVE  CountInv'
<1> DEFINE r == Candidate
<1>1. /\ r \in Queued(queue) /\ r \in Thread /\ Owner[r] \in Proc
      /\ Queued(queue') = Queued(queue) \ {r}
  BY ReapFacts
<1>2. /\ living' = [living EXCEPT ![Owner[r]] = @ - 1]
      /\ pc' = pc /\ arg' = arg /\ reg' = reg /\ fresh' = fresh
  BY DEF DispatchReap, threadVars
<1> HIDE DEF r
<1>3. ASSUME NEW p \in Proc \ Started
      PROVE  living'[p] = Cardinality(Here(p)')
  <2>1. living[p] = Cardinality(Here(p)) /\ IsFiniteSet(Here(p))
    BY QueuedFinite, FS_Subset DEF CountInv, Here, IInv, TypeOK
  <2>2. CASE Owner[r] = p
    <3>1. Here(p)' = Here(p) \ {r} /\ r \in Here(p)
      BY <1>1, <2>2 DEF Here, ThreadsOf
    <3>2. Cardinality(Here(p)') = Cardinality(Here(p)) - 1
      BY <2>1, <3>1, FS_RemoveElement
    <3>3. living'[p] = living[p] - 1
      BY <1>2, <2>2 DEF IInv, TypeOK
    <3>. QED
      BY <2>1, <3>2, <3>3
  <2>3. CASE Owner[r] # p
    <3>1. Here(p)' = Here(p)
      BY <1>1, <2>3 DEF Here, ThreadsOf
    <3>2. living'[p] = living[p]
      BY <1>2, <2>3 DEF IInv, TypeOK
    <3>. QED
      BY <2>1, <3>1, <3>2
  <2>. QED
    BY <2>2, <2>3
<1>4. ASSUME NEW m \in Thread, Owner[m] \in Started, MainCounted(m)
      PROVE  MainCounted(m)'
  <2>1. CASE m = r
    <3>1. m \notin Queued(queue') /\ m \notin fresh'
      BY <1>1, <1>2, <2>1 DEF IInv, QueueSound
    <3>2. \A t \in Thread : pc[t] \in Creating => arg[t] # m
      BY <1>1, <2>1 DEF IInv, OneCreator
    <3>. QED
      BY <1>2, <3>1, <3>2 DEF MainCounted
  <2>2. CASE m # r
    <3>1. Owner[m] # Owner[r] /\ Owner[m] \in Proc
      BY <1>1, <1>4, <2>2, Owners DEF StartedDoNotFork
    <3>2. living'[Owner[m]] = living[Owner[m]]
      BY <1>2, <3>1 DEF IInv, TypeOK
    <3>3. m \in Queued(queue') <=> m \in Queued(queue)
      BY <1>1, <2>2
    <3>. QED
      BY <1>2, <1>4, <3>2, <3>3 DEF MainCounted, Counts
  <2>. QED
    BY <2>1, <2>2
<1>. QED
  BY <1>3, <1>4 DEF CountInv

LEMMA InitCount ==
  ASSUME Init
  PROVE  CountInv
<1>1. ASSUME NEW p \in Proc
      PROVE  living[p] = Cardinality(Here(p))
  <2>1. Queued(queue) \subseteq Thread /\ queue = InitQueue
    BY QueuedFinite, SchedulerAssumption DEF Init
  <2>2. Here(p) = {t \in Queued(InitQueue) : Owner[t] = p}
    BY <2>1 DEF Here, ThreadsOf
  <2>. QED
    BY <2>2 DEF Init
<1>2. ASSUME NEW m \in Thread, Owner[m] \in Started
      PROVE  MainCounted(m)
  <2>1. m \notin Queued(queue) /\ \A t \in Queued(InitQueue) : Owner[t] # Owner[m]
    BY <1>2 DEF Init, Started
  <2>2. Here(Owner[m]) = {}
    BY <2>1 DEF Here, ThreadsOf, Init
  <2>3. living[Owner[m]] = 0
    BY <1>1, <2>2, Owners, FS_EmptySet
  <2>. QED
    BY <2>1, <2>3 DEF MainCounted
<1>. QED
  BY <1>1, <1>2 DEF CountInv

LEMMA NextCount ==
  ASSUME StartedDoNotFork, IInv, CountInv, LifeInv, [Next]_vars
  PROVE  CountInv'
<1>1. CASE Tick \/ (\E p \in Proc : Unsuspend(p)) \/ UNCHANGED vars
  BY <1>1, QuietDispatchCount
<1>2. CASE Dispatch
  BY <1>2, QuietDispatchCount, DispatchReapCount DEF Dispatch
<1>3. ASSUME NEW t \in Thread, KernelStep(t)
      PROVE  CountInv'
  BY <1>3, QuietThreadCount, CreateCount, QueueInsertCount, InsertThreadToProcCount
  DEF KernelStep
<1>4. ASSUME NEW t \in Thread, Call(t)
      PROVE  CountInv'
  BY <1>4, QuietThreadCount, CreateCount, ForkCount DEF Call
<1>. QED
  BY <1>1, <1>2, <1>3, <1>4 DEF Next

-----------------------------------------------------------------------------
(***************************************************************************)
(* Lifetimes.  Steps that leave descriptors, queue and creators alone.     *)
(***************************************************************************)
LEMMA LifeKept ==
  ASSUME LifeInv, Queued(queue') = Queued(queue), space' = space,
         curdir' = curdir \/ \E t \in Queued(queue) : curdir' = Owner[t],
         \A t \in Thread : pc'[t] \in Creating => pc[t] \in Creating /\ arg'[t] = arg[t],
         \A t \in Thread : pc'[t] \in Counting => pc[t] \in Counting /\ arg'[t] = arg[t]
  PROVE  LifeInv'
<1>1. ParentsLive'
  BY DEF LifeInv, ParentsLive
<1>2. CreatorsLive'
  BY DEF LifeInv, CreatorsLive
<1>3. OldSpaces'
  BY DEF LifeInv, OldSpaces
<1>. QED
  BY <1>1, <1>2, <1>3 DEF LifeInv

LEMMA QuietDispatchLife ==
  ASSUME IInv, LifeInv,
         \/ Tick \/ DispatchSkip \/ DispatchBlocked \/ DispatchRun
         \/ \E p \in Proc : Unsuspend(p)
         \/ UNCHANGED vars
  PROVE  LifeInv'
<1>1. queue \in Seq(Thread)
  BY DEF IInv, TypeOK
<1>2. queue' = queue \/ (queue # << >> /\ queue' = Rotate(queue))
  BY DEF Tick, DispatchSkip, DispatchBlocked, DispatchRun, Unsuspend, vars, queueVars
<1>3. Queued(queue') = Queued(queue)
  BY <1>1, <1>2, RotateProperties
<1>4. space' = space /\ pc' = pc /\ arg' = arg
  BY DEF Tick, DispatchSkip, DispatchBlocked, DispatchRun, Unsuspend, vars,
     threadVars, procVars
<1>5. curdir' = curdir \/ \E t \in Queued(queue) : curdir' = Owner[t]
  <2>1. CASE DispatchRun
    <3>1. queue # << >> /\ curdir' = Owner[Candidate]
      BY <2>1 DEF DispatchRun
    <3>2. Candidate \in Queued(queue)
      BY <1>1, <3>1, RotateProperties, TailProperties DEF Candidate
    <3>. QED
      BY <3>1, <3>2
  <2>2. CASE ~ DispatchRun
    BY <2>2 DEF Tick, DispatchSkip, DispatchBlocked, Unsuspend, vars, queueVars
  <2>. QED
    BY <2>1, <2>2
<1>. QED
  BY <1>3, <1>4, <1>5, LifeKept

LEMMA QuietThreadLife ==
  ASSUME IInv, LifeInv, NEW t \in Thread,
         \/ Schedule(t) \/ SleepFlag(t) \/ Suspend(t)
         \/ \E ms \in SleepMs : SleepDelta(t, ms)
         \/ CreateLoaded(t) \/ InsertProcess(t) \/ InsertThreadToProc(t)
         \/ TerminateLookup(t) \/ RemoveProcessFromList(t)
         \/ TerminateDisable(t) \/ TerminateMark(t)
  PROVE  LifeInv'
<1>0. pc \in [Thread -> Label] /\ arg = [u \in Thread |-> arg[u]]
  BY DEF IInv, TypeOK
<1> DEFINE Quiet ==
             /\ queue' = queue /\ space' = space /\ (curdir' = curdir \/ curdir' = Owner[t])
             /\ \E l : At(t, l)
             /\ \A u \in Thread : u # t => pc'[u] = pc[u] /\ arg'[u] = arg[u]
             /\ pc'[t] \in Creating => pc[t] \in Creating /\ arg'[t] = arg[t]
             /\ pc'[t] \in Counting => pc[t] \in Counting /\ arg'[t] = arg[t]
<1>1. ASSUME InsertProcess(t)
      PROVE  Quiet
  BY <1>0, <1>1 DEF At, Goto, InsertProcess, queueVars, procVars, Creating, Counting
<1>2. ASSUME RemoveProcessFromList(t)
      PROVE  Quiet
  BY <1>0, <1>2 DEF At, Goto, RemoveProcessFromList, queueVars, procVars, Creating, Counting
<1>3. ASSUME InsertThreadToProc(t)
      PROVE  Quiet
  BY <1>0, <1>3 DEF At, Goto, InsertThreadToProc, AppendThread, CountThread, queueVars,
     procVars, Creating, Counting
<1>4. ASSUME \/ Schedule(t) \/ SleepFlag(t) \/ Suspend(t) \/ CreateLoaded(t)
             \/ \E ms \in SleepMs : SleepDelta(t, ms)
      PROVE  Quiet
  BY <1>0, <1>4 DEF At, Goto, Schedule, SleepFlag, Suspend, SleepDelta, CreateLoaded,
     queueVars, procVars, Creating, Counting
<1>5. ASSUME TerminateLookup(t) \/ TerminateDisable(t) \/ TerminateMark(t)
      PROVE  Quiet
  BY <1>0, <1>5 DEF At, Goto, TerminateLookup, TerminateDisable, TerminateMark, queueVars,
     procVars, Creating, Counting
<1>6. Quiet
  BY <1>1, <1>2, <1>3, <1>4, <1>5
<1>7. t \in Queued(queue)
  BY <1>6, RunningQueued
<1>8. /\ \A u \in Thread : pc'[u] \in Creating => pc[u] \in Creating /\ arg'[u] = arg[u]
      /\ \A u \in Thread : pc'[u] \in Counting => pc[u] \in Counting /\ arg'[u] = arg[u]
  BY <1>6
<1>. QED
  BY <1>6, <1>7, <1>8, LifeKept

(***************************************************************************)
(* createProcess allocates the descriptor and loads its page directory.    *)
(***************************************************************************)
LEMMA CreateBeginLife ==
  ASSUME IInv, LifeInv, NEW t \in Thread, NEW m \in Thread, CreateBegin(t, m)
  PROVE  LifeInv'
<1>1. /\ queue' = queue /\ curdir' = Owner[m] /\ Owner[m] \in Proc
      /\ Owner[m] \in UserProc /\ space[Owner[m]] = "none"
      /\ \A p \in Proc : space'[p] = IF p = Owner[m] THEN "live" ELSE space[p]
  BY Owners DEF CreateBegin, IInv, TypeOK
<1>2. \A u \in Thread : /\ u # t => pc'[u] = pc[u] /\ arg'[u] = arg[u]
                        /\ u = t => pc'[u] = "load" /\ arg'[u] = m
  BY DEF CreateBegin, Goto, IInv, TypeOK
<1>3. Queued(queue) \subseteq Thread /\ Queued(InitQueue) \subseteq Thread
  BY QueuedFinite, SchedulerAssumption DEF IInv, TypeOK
<1>4. Owner[m] \in Started
  BY <1>1 DEF LifeInv, OldSpaces, Started
<1>5. ParentsLive'
  BY <1>1, <1>3, Owners DEF LifeInv, ParentsLive
<1>6. CreatorsLive'
  <2>1. ASSUME NEW u \in Thread, pc'[u] \in Creating \cup Counting
        PROVE  /\ Owner[arg'[u]] \in Started
               /\ pc'[u] \in Creating => space'[Owner[arg'[u]]] = "live"
    <3>1. CASE u = t
      BY <1>1, <1>2, <1>4, <3>1
    <3>2. CASE u # t
      <4>1. pc'[u] = pc[u] /\ arg'[u] = arg[u]
        BY <1>2, <2>1, <3>2
      <4>2. Owner[arg[u]] \in Proc
        BY <2>1, <4>1, Owners DEF IInv, Operands
      <4>. QED
        BY <1>1, <2>1, <4>1, <4>2 DEF LifeInv, CreatorsLive
    <3>. QED
      BY <3>1, <3>2
  <2>. QED
    BY <2>1 DEF CreatorsLive
<1>7. OldSpaces'
  BY <1>1, <1>3, Owners DEF LifeInv, OldSpaces
<1>. QED
  BY <1>5, <1>6, <1>7 DEF LifeInv

(***************************************************************************)
(* load_executable fails: no other creator, and no queued thread, is of    *)
(* the process whose descriptor goes.                                      *)
(***************************************************************************)
LEMMA CreateFailLife ==
  ASSUME StartedDoNotFork, IInv, LifeInv, NEW t \in Thread, CreateFail(t)
  PROVE  LifeInv'
<1> DEFINE p == Owner[arg[t]]
<1>1. /\ queue' = queue /\ curdir' = Owner[t] /\ pc[t] = "load"
      /\ t \in Queued(queue) /\ Queued(queue) \subseteq Thread
      /\ Queued(InitQueue) \subseteq Thread
  BY RunningQueued, QueuedFinite, SchedulerAssumption DEF CreateFail, At, IInv, TypeOK
<1>2. /\ arg[t] \in Thread /\ arg[t] \notin Queued(queue) /\ p \in Started /\ p \in Proc
  BY <1>1, Owners DEF IInv, Operands, OneCreator, Creating, Counting, LifeInv, CreatorsLive
<1>3. \A q \in Proc : space'[q] = IF q = p THEN "none" ELSE space[q]
  BY <1>2 DEF CreateFail, IInv, TypeOK
<1>4. \A u \in Thread : /\ u # t => pc'[u] = pc[u] /\ arg'[u] = arg[u]
                        /\ u = t => pc'[u] = "run"
  BY DEF CreateFail, Goto, IInv, TypeOK
<1> HIDE DEF p
<1>5. ASSUME NEW u \in Thread, Owner[u] = p
      PROVE  u = arg[t]
  BY <1>2, <1>5 DEF StartedDoNotFork, p
<1>6. ParentsLive'
  <2>1. ASSUME NEW u \in Queued(queue)
        PROVE  space'[Owner[u]] = "live"
    <3>1. Owner[u] # p /\ Owner[u] \in Proc
      BY <1>1, <1>2, <1>5, Owners
    <3>. QED
      BY <1>3, <3>1 DEF LifeInv, ParentsLive
  <2>. QED
    BY <1>1, <2>1 DEF ParentsLive
<1>7. CreatorsLive'
  <2>1. ASSUME NEW u \in Thread, pc'[u] \in Creating \cup Counting
        PROVE  /\ Owner[arg'[u]] \in Started
               /\ pc'[u] \in Creating => space'[Owner[arg'[u]]] = "live"
    <3>1. u # t
      BY <1>4, <2>1 DEF Creating, Counting
    <3>2. pc'[u] = pc[u] /\ arg'[u] = arg[u]
      BY <1>4, <2>1, <3>1
    <3>3. arg[u] \in Thread /\ Owner[arg[u]] \in Proc /\ Owner[arg[u]] \in Started
      BY <2>1, <3>2, Owners DEF IInv, Operands, LifeInv, CreatorsLive
    <3>4. ASSUME pc[u] \in Creating
          PROVE  space'[Owner[arg[u]]] = "live"
      <4>1. arg[u] # arg[t]
        BY <1>1, <3>1, <3>4 DEF IInv, OneCreator, Creating, Counting
      <4>2. Owner[arg[u]] # p
        BY <1>5, <3>3, <4>1
      <4>. QED
        BY <1>3, <3>3, <3>4, <4>2 DEF LifeInv, CreatorsLive
    <3>. QED
      BY <3>2, <3>3, <3>4
  <2>. QED
    BY <2>1 DEF CreatorsLive
<1>8. OldSpaces'
  <2>1. ASSUME NEW u \in Queued(InitQueue)
        PROVE  space'[Owner[u]] # "none"
    <3>1. Owner[u] # p /\ Owner[u] \in Proc
      BY <1>1, <1>2, Owners DEF Started
    <3>. QED
      BY <1>3, <3>1 DEF LifeInv, OldSpaces
  <2>. QED
    BY <2>1 DEF OldSpaces
<1>. QED
  BY <1>6, <1>7, <1>8 DEF LifeInv

(***************************************************************************)
(* queue_insert and fork queue threads of processes that have a descriptor.*)
(***************************************************************************)
LEMMA InsertLife ==
  ASSUME IInv, LifeInv, NEW t \in Thread,
         QueueInsert(t) \/ \E c \in Thread : Fork(t, c)
  PROVE  LifeInv'
<1>1. /\ space' = space /\ curdir' = curdir /\ arg' = arg
      /\ \A u \in Thread : u # t => pc'[u] = pc[u]
  BY DEF QueueInsert, Fork, Goto, IInv, TypeOK, procVars
<1>2. PICK c \in Thread : /\ Queued(queue') = Queued(queue) \cup {c}
                          /\ space[Owner[c]] = "live"
                          /\ pc'[t] \notin Creating /\ (pc'[t] \in Counting => pc[t] \in Creating)
  <2>1. CASE QueueInsert(t)
    <3>1. /\ queue \in Seq(Thread) /\ pc[t] = "insert" /\ arg[t] \in Thread
          /\ queue' = Append(queue, arg[t]) /\ pc'[t] = "link"
      BY <2>1 DEF QueueInsert, At, Goto, Insert, IInv, TypeOK, Operands, Creating, Counting
    <3>2. Queued(queue') = Queued(queue) \cup {arg[t]}
      BY <3>1, AppendEntry
    <3>. QED
      BY <3>1, <3>2 DEF LifeInv, CreatorsLive, Creating, Counting
  <2>2. ASSUME NEW c \in Thread, Fork(t, c)
        PROVE  /\ Queued(queue') = Queued(queue) \cup {c}
               /\ space[Owner[c]] = "live"
               /\ pc'[t] \notin Creating /\ (pc'[t] \in Counting => pc[t] \in Creating)
    <3>1. /\ queue \in Seq(Thread) /\ queue' = InsertPrioritized(queue, c)
          /\ t \in Queued(queue) /\ Owner[c] = Owner[t] /\ pc'[t] = "run"
      BY <2>2, Caller, RunningQueued DEF Fork, At
    <3>2. Queued(queue') = Queued(queue) \cup {c}
      BY <3>1, InsertPrioritizedProperties
    <3>. QED
      BY <3>1, <3>2 DEF LifeInv, ParentsLive, Creating, Counting
  <2>. QED
    BY <2>1, <2>2
<1>3. ParentsLive'
  BY <1>1, <1>2 DEF LifeInv, ParentsLive
<1>4. CreatorsLive'
  BY <1>1, <1>2 DEF LifeInv, CreatorsLive
<1>5. OldSpaces'
  BY <1>1 DEF LifeInv, OldSpaces
<1>. QED
  BY <1>3, <1>4, <1>5 DEF LifeInv

(***************************************************************************)
(* The dispatcher frees the descriptor with the last thread of the         *)
(* process: livingThreads is then one, and by its count no other thread    *)
(* of the process is queued.                                               *)
(***************************************************************************)
LEMMA ReapLife ==
  ASSUME StartedDoNotFork, IInv, CountInv, LifeInv, DispatchReap
  PROVE  LifeInv'
<1> DEFINE r == Candidate
           p == Owner[r]
<1>1. /\ r \in Queued(queue) /\ r \in Thread /\ p \in Proc
      /\ Queued(queue') = Queued(queue) \ {r}
      /\ Queued(queue) \subseteq Thread /\ Queued(InitQueue) \subseteq Thread
  BY ReapFacts, QueuedFinite, SchedulerAssumption DEF IInv, TypeOK
<1>2. /\ pc' = pc /\ arg' = arg /\ curdir' = curdir /\ curdir # p
      /\ space' = IF living[p] = 1 THEN [space EXCEPT ![p] = "freed"] ELSE space
  BY DEF DispatchReap, threadVars
<1> HIDE DEF r
<1>3. \A q \in Proc : \/ space'[q] = space[q]
                      \/ q = p /\ space'[q] = "freed" /\ living[p] = 1
  <2>1. space \in [Proc -> {"none", "live", "freed"}]
    BY DEF IInv, TypeOK
  <2>2. CASE living[p] = 1
    <3>1. space' = [space EXCEPT ![p] = "freed"]
      BY <1>2, <2>2
    <3>. QED
      BY <1>1, <2>1, <2>2, <3>1, Zenon
  <2>3. CASE living[p] # 1
    BY <1>2, <2>3
  <2>. QED
    BY <2>2, <2>3
<1>4. ASSUME living[p] = 1, NEW u \in Queued(queue), Owner[u] = p
      PROVE  u = r
  <2>1. CASE p \in Started
    BY <1>1, <1>4, <2>1 DEF StartedDoNotFork
  <2>2. CASE p \notin Started
    <3>1. Cardinality(Here(p)) = 1
      BY <1>1, <1>4, <2>2 DEF CountInv
    <3>2. Cardinality(Here(p)) = 1 /\ IsFiniteSet(Here(p))
      BY <3>1, QueuedFinite, FS_Subset DEF Here, IInv, TypeOK
    <3>3. r \in Here(p) /\ u \in Here(p)
      BY <1>1, <1>4 DEF Here, ThreadsOf
    <3>4. \E x : Here(p) = {x}
      BY <3>2, FS_Singleton
    <3>. QED
      BY <3>3, <3>4
  <2>. QED
    BY <2>1, <2>2
<1>5. curdir \in Proc
  BY DEF IInv, TypeOK
<1>6. ParentsLive'
  <2>1. ASSUME NEW u \in Queued(queue')
        PROVE  space'[Owner[u]] = "live"
    <3>1. u \in Queued(queue) /\ u # r /\ Owner[u] \in Proc /\ space[Owner[u]] = "live"
      BY <1>1, Owners DEF LifeInv, ParentsLive
    <3>. QED
      BY <1>3, <1>4, <3>1
  <2>2. space'[curdir'] = "live"
    BY <1>2, <1>3, <1>5 DEF LifeInv, ParentsLive
  <2>. QED
    BY <2>1, <2>2 DEF ParentsLive
<1>7. CreatorsLive'
  <2>1. ASSUME NEW u \in Thread, pc[u] \in Creating
        PROVE  space'[Owner[arg[u]]] = "live"
    <3>1. /\ arg[u] \in Thread /\ Owner[arg[u]] \in Proc /\ Owner[arg[u]] \in Started
          /\ arg[u] \notin Queued(queue) /\ space[Owner[arg[u]]] = "live"
      BY <2>1, Owners DEF IInv, Operands, OneCreator, LifeInv, CreatorsLive
    <3>2. Owner[arg[u]] # p
      BY <1>1, <3>1 DEF StartedDoNotFork
    <3>. QED
      BY <1>3, <3>1, <3>2
  <2>. QED
    BY <1>2, <2>1 DEF LifeInv, CreatorsLive
<1>8. OldSpaces'
  <2>1. ASSUME NEW u \in Queued(InitQueue)
        PROVE  space'[Owner[u]] # "none"
    BY <1>1, <1>3, Owners DEF LifeInv, OldSpaces
  <2>. QED
    BY <2>1 DEF OldSpaces
<1>. QED
  BY <1>6, <1>7, <1>8 DEF LifeInv

LEMMA InitLife ==
  ASSUME Init
  PROVE  LifeInv
<1>1. /\ Queued(InitQueue) \subseteq Thread /\ Head(InitQueue) \in Queued(InitQueue)
      /\ queue = InitQueue /\ curdir = Owner[Head(InitQueue)]
  BY QueuedFinite, TailProperties, SchedulerAssumption DEF Init
<1>2. \A t \in Queued(InitQueue) : Owner[t] \in Proc /\ space[Owner[t]] = "live"
  BY <1>1, SchedulerAssumption DEF Init
<1>3. CreatorsLive
  BY DEF Init, CreatorsLive, Creating, Counting
<1>. QED
  BY <1>1, <1>2, <1>3 DEF LifeInv, ParentsLive, OldSpaces

LEMMA NextLife ==
  ASSUME StartedDoNotFork, IInv, CountInv, LifeInv, [Next]_vars
  PROVE  LifeInv'
<1>1. CASE Tick \/ (\E p \in Proc : Unsuspend(p)) \/ UNCHANGED vars
  BY <1>1, QuietDispatchLife
<1>2. CASE Dispatch
  BY <1>2, QuietDispatchLife, ReapLife DEF Dispatch
<1>3. ASSUME NEW t \in Thread, KernelStep(t)
      PROVE  LifeInv'
  BY <1>3, QuietThreadLife, CreateFailLife, InsertLife DEF KernelStep
<1>4. ASSUME NEW t \in Thread, Call(t)
      PROVE  LifeInv'
  BY <1>4, QuietThreadLife, CreateBeginLife, InsertLife DEF Call
<1>. QED
  BY <1>1, <1>2, <1>3, <1>4 DEF Next

(***************************************************************************)
(* The counts and the lifetimes hold together: a descriptor is freed by    *)
(* its count, and a count is set up for a descriptor that is there.        *)
(***************************************************************************)
LEMMA CountLifeInvariant == StartedDoNotFork /\ Spec => [](CountInv /\ LifeInv)
<1>1. Init => CountInv /\ LifeInv
  BY InitCount, InitLife
<1>2. StartedDoNotFork /\ IInv /\ CountInv /\ LifeInv /\ [Next]_vars => CountInv' /\ LifeInv'
  BY NextCount, NextLife
<1>3. StartedDoNotFork => StartedDoNotFork'
  BY DEF StartedDoNotFork
<1>. QED
  BY <1>1, <1>2, <1>3, Invariance, PTL DEF Spec

(***************************************************************************)
(* Theorem: livingThreads counts the queued threads of a process, but for  *)
(* the main thread whose creator is between queue_insert and the store of  *)
(* livingThreads (process.c:280-282, :511; scheduler.c:436-446).           *)
(***************************************************************************)
THEOREM LivingThreadsCount == StartedDoNotFork /\ Spec => []LivingCounts
<1>1. StartedDoNotFork /\ IInv /\ CountInv /\ LifeInv => LivingCounts
  BY CountsLiving
<1>2. StartedDoNotFork => StartedDoNotFork'
  BY DEF StartedDoNotFork
<1>. QED
  BY <1>1, <1>2, CountLifeInvariant, Invariance, PTL

(***************************************************************************)
(* Theorem: the descriptor and page directory of every queued thread, and  *)
(* the page directory that is loaded, are never freed under them           *)
(* (scheduler.c:423-459, process.c:212-282, kernel_entry.asm:430-443).     *)
(***************************************************************************)
THEOREM ParentsStayLive == StartedDoNotFork /\ Spec => []ParentsLive
<1>1. LifeInv => ParentsLive
  BY DEF LifeInv
<1>. QED
  BY <1>1, CountLifeInvariant, PTL

=============================================================================
