-------------------------- MODULE WinsysQueueProofs --------------------------
(***************************************************************************)
(* Theorems about WinsysQueue for any threads, operations and ring size,   *)
(* as long as the ring never fills (Roomy).  A full ring is another        *)
(* protocol: see the README on the lock as back-pressure.                  *)
(***************************************************************************)
EXTENDS WinsysQueue, Sequences, TLAPS, FiniteSetTheorems, SequenceTheorems

\* The operations under way never fill the ring.
Roomy == Burst < Size

Enqueuer  == (Producer \X {0}) \cup Handler
Waiting   == {"check", "acquire", "store", "count"}
Handling  == {"event", "wake", "walk"}
Listening == {"poll", "choose", "lock", "take", "drop", "free", "perform"}

(***************************************************************************)
(* The inductive invariant.  That the lock excludes (OneHolder) rests on   *)
(* the ring having room (RoomLeft: what has not been counted yet is part   *)
(* of the burst), so that neither side takes the way of the full ring.     *)
(***************************************************************************)
Contexts ==
  /\ \A c \in Enqueuer : pc[c] \in Enqueuing \cup Handling \cup {"out"}
  /\ pc[Server] \in Listening

WaitingSet == {c \in Context : pc[c] \in Waiting}

RoomLeft == index + Cardinality(WaitingSet) <= Burst

\* The listener goes on only when there is something to take.
SomeThere == pc[Server] \in {"choose", "lock", "take", "drop"} => index >= 1

Operations ==
  /\ \A c \in Enqueuer : pc[c] \in Enqueuing => op[c] \in Op
  /\ pc[Server] \in {"poll", "choose", "lock", "take"} => op[Server] = NoOp
  /\ pc[Server] \in {"drop", "free", "perform"} => op[Server] \in Op

\* How many operations are in the ring and not taken, and the place of the i-th.
Pending == IF pc[Server] = "drop" THEN index - 1 ELSE index
Place(i) == (start + i - 1) % Size

\* The pending operations follow the start; the end follows them, and an
\* operation stored but not yet counted.
RingFilled ==
  /\ \A i \in 1 .. Pending : ring[Place(i)] \in Op
  /\ (\A c \in Enqueuer : pc[c] # "count") => end = Place(Pending + 1)
  /\ \A c \in Enqueuer : pc[c] = "count" =>
        ring[Place(Pending + 1)] = op[c] /\ end = Place(Pending + 2)

IInv ==
  /\ Roomy /\ TypeOK /\ OneHolder
  /\ Contexts /\ RoomLeft /\ SomeThere /\ Operations /\ RingFilled
-----------------------------------------------------------------------------
(***************************************************************************)
(* The indices wrap at the end of the ring (window_sys.c:201, :231).       *)
(***************************************************************************)
LEMMA Wrap ==
  ASSUME NEW x \in 0 .. 2 * Size - 1
  PROVE  x % Size = IF x < Size THEN x ELSE x - Size
<1>1. Size \in Nat \ {0}
  BY WinsysAssumption
<1>2. CASE x < Size
  BY <1>1, <1>2
<1>3. CASE ~ (x < Size)
  <2>1. x \in Size .. 2 * Size - 1
    BY <1>1, <1>3
  <2>. QED
    BY <1>1, <1>3, <2>1
<1>. QED
  BY <1>2, <1>3

(***************************************************************************)
(* Where the i-th pending operation lies, and that two places less than a  *)
(* round apart differ.                                                     *)
(***************************************************************************)
LEMMA PlaceValue ==
  ASSUME start \in 0 .. Size - 1, NEW i \in 1 .. Size
  PROVE  /\ Place(i) = IF start + i - 1 < Size THEN start + i - 1 ELSE start + i - 1 - Size
         /\ Place(i) \in 0 .. Size - 1
<1>1. Size \in Nat \ {0}
  BY WinsysAssumption
<1> DEFINE x == start + i - 1
<1>2. x \in 0 .. 2 * Size - 1
  BY <1>1
<1>3. x % Size = IF x < Size THEN x ELSE x - Size
  BY <1>2, Wrap, Zenon
<1> DEFINE r == x % Size
<1>4. Place(i) = r
  BY DEF Place
<1>5. r = IF x < Size THEN x ELSE x - Size
  BY <1>3
<1> HIDE DEF r
<1>6. /\ r = IF start + i - 1 < Size THEN start + i - 1 ELSE start + i - 1 - Size
      /\ r \in 0 .. Size - 1
  BY <1>1, <1>5
<1>. QED
  BY <1>4, <1>6

LEMMA PlacesDiffer ==
  ASSUME start \in 0 .. Size - 1, NEW i \in 1 .. Size, NEW j \in 1 .. Size, i # j
  PROVE  Place(i) # Place(j)
<1>1. Size \in Nat \ {0}
  BY WinsysAssumption
<1>2. /\ Place(i) = IF start + i - 1 < Size THEN start + i - 1 ELSE start + i - 1 - Size
      /\ Place(j) = IF start + j - 1 < Size THEN start + j - 1 ELSE start + j - 1 - Size
  BY PlaceValue
<1>. QED
  BY <1>1, <1>2

(***************************************************************************)
(* The place after the i-th, and the i-th place seen from the next start.  *)
(***************************************************************************)
LEMMA NextPlace ==
  ASSUME start \in 0 .. Size - 1, NEW i \in 1 .. Size - 1
  PROVE  /\ (Place(i) + 1) % Size = Place(i + 1)
         /\ (((start + 1) % Size) + i - 1) % Size = Place(i + 1)
         /\ (start + 1) % Size \in 0 .. Size - 1
         /\ Place(1) = start
<1>1. Size \in Nat \ {0} /\ start \in Nat /\ i \in 1 .. Size /\ i + 1 \in 1 .. Size /\ 1 \in 1 .. Size
  BY WinsysAssumption
<1>2. /\ Place(i) = IF start + i - 1 < Size THEN start + i - 1 ELSE start + i - 1 - Size
      /\ Place(i + 1) = IF start + (i + 1) - 1 < Size THEN start + (i + 1) - 1
                        ELSE start + (i + 1) - 1 - Size
      /\ Place(1) = IF start + 1 - 1 < Size THEN start + 1 - 1 ELSE start + 1 - 1 - Size
  BY <1>1, PlaceValue, Zenon
<1>3. Place(1) = start
  BY <1>1, <1>2
<1> DEFINE y == Place(i) + 1
<1>4. y \in 0 .. 2 * Size - 1
  BY <1>1, <1>2
<1>5. y % Size = IF y < Size THEN y ELSE y - Size
  BY <1>4, Wrap, Zenon
<1> DEFINE z == y % Size
<1>6. z = Place(i + 1)
  <2> HIDE DEF z
  <2>1. z = IF y < Size THEN y ELSE y - Size
    BY <1>5 DEF z
  <2>. QED
    BY <1>1, <1>2, <2>1
<1> DEFINE x == start + 1
           s == x % Size
<1>7. x \in 0 .. 2 * Size - 1
  BY <1>1
<1>8. s = IF x < Size THEN x ELSE x - Size
  BY <1>7, Wrap, Zenon
<1> HIDE DEF s
<1> DEFINE w == s + i - 1
<1>9. s \in 0 .. Size - 1 /\ w \in 0 .. 2 * Size - 1
  BY <1>1, <1>8
<1>10. w % Size = IF w < Size THEN w ELSE w - Size
  BY <1>9, Wrap, Zenon
<1> DEFINE v == w % Size
<1>11. v = Place(i + 1)
  <2> HIDE DEF v
  <2>1. v = IF w < Size THEN w ELSE w - Size
    BY <1>10 DEF v
  <2>. QED
    BY <1>1, <1>2, <1>8, <2>1
<1>. QED
  BY <1>3, <1>6, <1>9, <1>11, Zenon DEF s

(***************************************************************************)
(* The contexts, and how the set of those with an operation not yet        *)
(* counted changes.                                                        *)
(***************************************************************************)
LEMMA ContextFacts ==
  /\ Context = Enqueuer \cup {Server} /\ Server \notin Enqueuer
  /\ IsFiniteSet(Context)
<1>1. IsFiniteSet(Thread)
  BY WinsysAssumption, FS_AddElement DEF Thread
<1>2. IsFiniteSet(Interrupted) /\ Depth \in Nat
  BY <1>1, WinsysAssumption, FS_Subset DEF Thread
<1>3. IsFiniteSet({0}) /\ IsFiniteSet(1 .. Depth)
  <2>1. 1 \in Int /\ Depth \in Int
    BY <1>2
  <2>2. IsFiniteSet(1 .. Depth)
    BY <2>1, FS_Interval, Zenon
  <2>. QED
    BY <2>2, FS_Singleton, Zenon
<1>4. IsFiniteSet(Context)
  <2>1. IsFiniteSet(Thread \X {0}) /\ IsFiniteSet(Interrupted \X (1 .. Depth))
    BY <1>1, <1>2, <1>3, FS_Product
  <2>. QED
    BY <2>1, FS_Union, Zenon DEF Context, Handler
<1>5. Context = Enqueuer \cup {Server}
  BY DEF Context, Enqueuer, Thread, Server
<1>6. Server \notin Enqueuer
  BY <1>2, WinsysAssumption DEF Enqueuer, Server, Handler
<1>. QED
  BY <1>4, <1>5, <1>6

LEMMA WaitingCount ==
  /\ IsFiniteSet(WaitingSet) /\ Cardinality(WaitingSet) \in Nat
  /\ \A c : /\ c \in WaitingSet => Cardinality(WaitingSet) >= 1
            /\ Cardinality(WaitingSet \cup {c})
                 = IF c \in WaitingSet THEN Cardinality(WaitingSet) ELSE Cardinality(WaitingSet) + 1
            /\ Cardinality(WaitingSet \ {c})
                 = IF c \in WaitingSet THEN Cardinality(WaitingSet) - 1 ELSE Cardinality(WaitingSet)
<1>1. IsFiniteSet(WaitingSet) /\ Cardinality(WaitingSet) \in Nat
  BY ContextFacts, FS_Subset, FS_CardinalityType DEF WaitingSet
<1>2. ASSUME NEW c, c \in WaitingSet
      PROVE  Cardinality(WaitingSet) >= 1
  BY <1>1, <1>2, FS_EmptySet
<1>. QED
  BY <1>1, <1>2, FS_AddElement, FS_RemoveElement
(***************************************************************************)
(* What a step that leaves the ring and the counting contexts alone keeps. *)
(***************************************************************************)
LEMMA RingKept ==
  ASSUME IInv, ring' = ring, start' = start, end' = end, Pending' = Pending,
         \A c \in Enqueuer : pc'[c] = "count" <=> pc[c] = "count",
         \A c \in Enqueuer : pc[c] = "count" => op'[c] = op[c]
  PROVE  RingFilled'
<1>1. \A i : Place(i)' = Place(i)
  BY DEF Place
<1>. QED
  BY <1>1 DEF IInv, RingFilled

LEMMA RoomKept ==
  ASSUME IInv, index' = index, \A c \in Context : pc'[c] \in Waiting <=> pc[c] \in Waiting
  PROVE  RoomLeft'
<1>1. WaitingSet' = WaitingSet
  BY DEF WaitingSet
<1>. QED
  BY <1>1 DEF IInv, RoomLeft

(***************************************************************************)
(* A context that starts to enqueue has room for its operation.            *)
(***************************************************************************)
LEMMA RoomTaken ==
  ASSUME IInv, InFlight < Burst, index' = index, NEW e \in Context, pc[e] \notin Waiting,
         \A c \in Context : pc'[c] \in Waiting <=> (c = e \/ pc[c] \in Waiting)
  PROVE  RoomLeft'
<1> DEFINE F == {c \in Context : pc[c] \in Enqueuing}
<1>1. IsFiniteSet(F) /\ Cardinality(F) \in Nat
  BY ContextFacts, FS_Subset, FS_CardinalityType
<1>2. WaitingSet \in SUBSET F
  BY DEF WaitingSet, Waiting, Enqueuing
<1>3. Cardinality(WaitingSet) <= Cardinality(F)
  BY <1>1, <1>2, FS_Subset
<1>4. WaitingSet' = WaitingSet \cup {e} /\ e \notin WaitingSet
  BY DEF WaitingSet
<1>5. Cardinality(WaitingSet') = Cardinality(WaitingSet) + 1
  BY <1>4, WaitingCount
<1>6. index + Cardinality(F) < Burst
  BY DEF InFlight
<1>7. index \in Nat /\ Burst \in Nat /\ Cardinality(WaitingSet) \in Nat
  BY WaitingCount, WinsysAssumption DEF IInv, TypeOK
<1>. QED
  BY <1>1, <1>3, <1>5, <1>6, <1>7 DEF RoomLeft

(***************************************************************************)
(* winsys_enqueue_to_winsys_listener is called by a thread, or by the      *)
(* mouse handler. The inductive invariant is preserved.                    *)
(***************************************************************************)
Begins(e, o) ==
  /\ pc[e] = "out" /\ InFlight < Burst
  /\ Goto(e, "check") /\ op' = [op EXCEPT ![e] = o]
  /\ UNCHANGED << ringVars, lock >>

LEMMA BeginsStep ==
  ASSUME IInv, NEW e \in Enqueuer, NEW o \in Op, Begins(e, o)
  PROVE  IInv'
<1>1. /\ ring' = ring /\ index' = index /\ start' = start /\ end' = end
      /\ lock' = lock /\ InFlight < Burst /\ pc[e] = "out"
      /\ e \in Context /\ e # Server /\ Server \in Context
  BY ContextFacts DEF Begins, ringVars
<1>2. \A c \in Context : /\ pc'[c] = IF c = e THEN "check" ELSE pc[c]
                         /\ op'[c] = IF c = e THEN o ELSE op[c]
  BY DEF Begins, Goto, IInv, TypeOK
<1>3. TypeOK'
  BY <1>1 DEF IInv, TypeOK, Begins, Goto, Stage, Enqueuing
<1>4. OneHolder'
  BY <1>1, <1>2 DEF IInv, OneHolder, Holding
<1>5. Contexts'
  BY <1>1, <1>2, ContextFacts DEF IInv, Contexts, Enqueuing
<1>6. RoomLeft'
  BY <1>1, <1>2, RoomTaken DEF Waiting
<1>7. SomeThere'
  BY <1>1, <1>2 DEF IInv, SomeThere
<1>8. Operations'
  BY <1>1, <1>2, ContextFacts DEF IInv, Operations
<1>9. RingFilled'
  <2>1. Pending' = Pending
    BY <1>1, <1>2 DEF Pending
  <2>. QED
    BY <1>1, <1>2, <2>1, ContextFacts, RingKept
<1>. QED
  BY <1>3, <1>4, <1>5, <1>6, <1>7, <1>8, <1>9 DEF IInv, Roomy

\* A handler comes at a level where none is.
LEMMA ComesOut ==
  ASSUME NEW h \in Handler, Comes(h)
  PROVE  pc[h] = "out"
<1>1. h[2] \in 1 .. Depth /\ Depth \in Nat
  BY WinsysAssumption DEF Handler
<1>2. << h[1], h[2] - 1 >>[1] = h[1] /\ << h[1], h[2] - 1 >>[2] = h[2] - 1
  OBVIOUS
<1>3. h[2] > h[2] - 1
  BY <1>1
<1>. QED
  BY <1>2, <1>3 DEF Comes, Runs, Top

LEMMA CallStep ==
  ASSUME IInv, NEW p \in Producer, NEW o \in Op, Call(p, o)
  PROVE  IInv'
<1> DEFINE e == << p, 0 >>
<1>1. e \in Context /\ e \in Enqueuer /\ e # Server /\ Server \in Context
  BY ContextFacts DEF Enqueuer
<1> HIDE DEF e
<1>2. Begins(e, o)
  BY <1>1 DEF Call, At, Begins, Goto, ringVars, IInv, TypeOK, e
<1>. QED
  BY <1>1, <1>2, BeginsStep

LEMMA InterruptStep ==
  ASSUME IInv, NEW h \in Handler, NEW o \in Op, Interrupt(h, o)
  PROVE  IInv'
<1>1. h \in Context /\ h \in Enqueuer /\ h # Server /\ pc[h] = "out"
  BY ComesOut, ContextFacts DEF Interrupt, Enqueuer
<1>2. Begins(h, o)
  BY <1>1 DEF Interrupt, Begins, Goto, ringVars, IInv, TypeOK
<1>. QED
  BY <1>1, <1>2, BeginsStep

(***************************************************************************)
(* A handler that asks for nothing, or is past its enqueuing, leaves the   *)
(* ring alone.                                                             *)
(***************************************************************************)
LEMMA AsideStep ==
  ASSUME IInv, NEW h \in Handler, pc[h] \in Handling \cup {"out"},
         NEW l \in Handling \cup {"out"}, Goto(h, l), UNCHANGED << ringVars, lock, op >>
  PROVE  IInv'
<1>1. /\ ring' = ring /\ index' = index /\ start' = start /\ end' = end
      /\ lock' = lock /\ op' = op
      /\ h \in Context /\ h \in Enqueuer /\ h # Server /\ Server \in Context
  BY ContextFacts DEF ringVars, Enqueuer
<1>2. \A c \in Context : pc'[c] = IF c = h THEN l ELSE pc[c]
  BY DEF Goto, IInv, TypeOK
<1>3. TypeOK'
  BY <1>1 DEF IInv, TypeOK, Goto, Stage, Handling
<1>4. OneHolder'
  BY <1>1, <1>2 DEF IInv, OneHolder, Holding, Handling
<1>5. Contexts'
  BY <1>1, <1>2, ContextFacts DEF IInv, Contexts
<1>6. RoomLeft'
  BY <1>1, <1>2, RoomKept DEF Waiting, Handling
<1>7. SomeThere'
  BY <1>1, <1>2 DEF IInv, SomeThere
<1>8. Operations'
  BY <1>1, <1>2, ContextFacts DEF IInv, Operations, Handling, Enqueuing
<1>9. RingFilled'
  <2>1. Pending' = Pending
    BY <1>1, <1>2 DEF Pending
  <2>. QED
    BY <1>1, <1>2, <2>1, ContextFacts, RingKept DEF Handling
<1>. QED
  BY <1>3, <1>4, <1>5, <1>6, <1>7, <1>8, <1>9 DEF IInv, Roomy

LEMMA InterruptMoveStep ==
  ASSUME IInv, NEW h \in Handler, InterruptMove(h)
  PROVE  IInv'
<1>1. pc[h] = "out"
  BY ComesOut DEF InterruptMove
<1>. QED
  BY <1>1, AsideStep DEF InterruptMove, Handling

LEMMA EventStep ==
  ASSUME IInv, NEW h \in Handler, Event(h)
  PROVE  IInv'
BY AsideStep DEF Event, At, Handling

LEMMA WokenStep ==
  ASSUME IInv, NEW h \in Handler, Woken(h)
  PROVE  IInv'
BY AsideStep DEF Woken, At, Handling

(***************************************************************************)
(* An operation counted, or discarded, leaves its context's claim on room. *)
(***************************************************************************)
LEMMA RoomGiven ==
  ASSUME IInv, NEW e \in Context, pc[e] \in Waiting, index' \in {index, index + 1},
         \A c \in Context : pc'[c] \in Waiting <=> (c # e /\ pc[c] \in Waiting)
  PROVE  RoomLeft'
<1>1. WaitingSet' = WaitingSet \ {e} /\ e \in WaitingSet
  BY DEF WaitingSet
<1>2. Cardinality(WaitingSet') = Cardinality(WaitingSet) - 1
  BY <1>1, WaitingCount
<1>3. index \in Nat /\ Burst \in Nat /\ Cardinality(WaitingSet) \in Nat
  BY WaitingCount, WinsysAssumption DEF IInv, TypeOK
<1>. QED
  BY <1>2, <1>3 DEF RoomLeft, IInv

(***************************************************************************)
(* The early return of window_sys.c:222-226, or on to acquireLock.         *)
(***************************************************************************)
LEMMA CheckStep ==
  ASSUME IInv, NEW c \in Enqueuer, Check(c)
  PROVE  IInv'
<1>1. /\ ring' = ring /\ index' = index /\ start' = start /\ end' = end
      /\ lock' = lock /\ pc[c] = "check"
      /\ c \in Context /\ c # Server /\ Server \in Context
  BY ContextFacts DEF Check, At, ringVars
<1>2. CASE Discards(c)
  <2>1. Return(c)
    BY <1>2 DEF Check
  <2>2. /\ \A d \in Context : /\ d # c => pc'[d] = pc[d]
                              /\ op'[d] = IF d = c THEN NoOp ELSE op[d]
        /\ pc'[c] \in {"out", "event"}
    BY <1>1, <2>1 DEF Return, Goto, IInv, TypeOK
  <2>3. TypeOK'
    BY <1>1, <2>1 DEF IInv, TypeOK, Return, Goto, Stage
  <2>4. OneHolder'
    BY <1>1, <2>2 DEF IInv, OneHolder, Holding
  <2>5. Contexts'
    BY <1>1, <2>2, ContextFacts DEF IInv, Contexts, Handling
  <2>6. RoomLeft'
    BY <1>1, <2>2, RoomGiven DEF Waiting
  <2>7. SomeThere'
    BY <1>1, <2>2 DEF IInv, SomeThere
  <2>8. Operations'
    BY <1>1, <2>2, ContextFacts DEF IInv, Operations, Enqueuing
  <2>9. RingFilled'
    <3>1. Pending' = Pending
      BY <1>1, <2>2 DEF Pending
    <3>. QED
      BY <1>1, <2>2, <3>1, ContextFacts, RingKept
  <2>. QED
    BY <2>3, <2>4, <2>5, <2>6, <2>7, <2>8, <2>9 DEF IInv, Roomy
<1>3. CASE ~ Discards(c)
  <2>1. op' = op
    BY <1>3 DEF Check
  <2>2. \A d \in Context : pc'[d] = IF d = c THEN "acquire" ELSE pc[d]
    BY <1>3 DEF Check, Goto, IInv, TypeOK
  <2>3. TypeOK'
    BY <1>1, <1>3 DEF IInv, TypeOK, Check, Goto, Stage, Enqueuing
  <2>4. OneHolder'
    BY <1>1, <2>2 DEF IInv, OneHolder, Holding
  <2>5. Contexts'
    BY <1>1, <2>1, <2>2, ContextFacts DEF IInv, Contexts, Enqueuing
  <2>6. RoomLeft'
    BY <1>1, <2>2, RoomKept DEF Waiting
  <2>7. SomeThere'
    BY <1>1, <2>2 DEF IInv, SomeThere
  <2>8. Operations'
    BY <1>1, <2>1, <2>2, ContextFacts DEF IInv, Operations, Enqueuing
  <2>9. RingFilled'
    <3>1. Pending' = Pending
      BY <1>1, <2>2 DEF Pending
    <3>. QED
      BY <1>1, <2>1, <2>2, <3>1, ContextFacts, RingKept
  <2>. QED
    BY <2>3, <2>4, <2>5, <2>6, <2>7, <2>8, <2>9 DEF IInv, Roomy
<1>. QED
  BY <1>2, <1>3

(***************************************************************************)
(* acquireLock by whoever enqueues (window_sys.c:228): nobody holds.       *)
(***************************************************************************)
LEMMA EnqueueAcquireStep ==
  ASSUME IInv, NEW c \in Enqueuer, EnqueueAcquire(c)
  PROVE  IInv'
<1>1. /\ ring' = ring /\ index' = index /\ start' = start /\ end' = end
      /\ ~ lock /\ lock' = TRUE /\ pc[c] = "acquire" /\ op' = op
      /\ c \in Context /\ c # Server /\ Server \in Context
  BY ContextFacts DEF EnqueueAcquire, Acquire, At, ringVars
<1>2. \A d \in Context : pc'[d] = IF d = c THEN "store" ELSE pc[d]
  BY DEF EnqueueAcquire, Acquire, Goto, IInv, TypeOK
<1>3. TypeOK'
  BY <1>1 DEF IInv, TypeOK, EnqueueAcquire, Acquire, Goto, Stage, Enqueuing
<1>4. OneHolder'
  BY <1>1, <1>2 DEF IInv, OneHolder, Holding
<1>5. Contexts'
  BY <1>1, <1>2, ContextFacts DEF IInv, Contexts, Enqueuing
<1>6. RoomLeft'
  BY <1>1, <1>2, RoomKept DEF Waiting
<1>7. SomeThere'
  BY <1>1, <1>2 DEF IInv, SomeThere
<1>8. Operations'
  BY <1>1, <1>2, ContextFacts DEF IInv, Operations, Enqueuing
<1>9. RingFilled'
  <2>1. Pending' = Pending
    BY <1>1, <1>2 DEF Pending
  <2>. QED
    BY <1>1, <1>2, <2>1, ContextFacts, RingKept
<1>. QED
  BY <1>3, <1>4, <1>5, <1>6, <1>7, <1>8, <1>9 DEF IInv, Roomy

(***************************************************************************)
(* Whoever is between the two accesses of the ring's lock is alone there,  *)
(* and what it has not counted yet still fits.                             *)
(***************************************************************************)
LEMMA HolderFacts ==
  ASSUME IInv, NEW c \in Enqueuer, pc[c] \in {"store", "count"}
  PROVE  /\ Pending = index
         /\ index \in Nat /\ index + 1 \in 1 .. Size - 1
         /\ \A d \in Enqueuer : d # c => pc[d] \notin Holding
         /\ pc[Server] \notin Holding
<1>1. c \in Context /\ c # Server /\ Server \in Context /\ Enqueuer \subseteq Context
  BY ContextFacts
<1>2. /\ \A d \in Enqueuer : d # c => pc[d] \notin Holding
      /\ pc[Server] \notin Holding
  BY <1>1 DEF IInv, OneHolder, Holding
<1>3. Pending = index
  BY <1>2 DEF Pending, Holding
<1>4. Cardinality(WaitingSet) >= 1 /\ Cardinality(WaitingSet) \in Nat
  BY <1>1, WaitingCount DEF WaitingSet, Waiting
<1>5. index \in Nat /\ index + 1 \in 1 .. Size - 1
  BY <1>4, WinsysAssumption DEF IInv, Roomy, RoomLeft, TypeOK
<1>. QED
  BY <1>2, <1>3, <1>5

(***************************************************************************)
(* The operation goes to the end, behind all that are pending              *)
(* (window_sys.c:230-231).                                                 *)
(***************************************************************************)
LEMMA StoreStep ==
  ASSUME IInv, NEW c \in Enqueuer, Store(c)
  PROVE  IInv'
<1>1. /\ ring' = [ring EXCEPT ![end] = op[c]] /\ end' = (end + 1) % Size
      /\ index' = index /\ start' = start
      /\ lock' = lock /\ pc[c] = "store" /\ op' = op
      /\ c \in Context /\ c # Server /\ Server \in Context
      /\ op[c] \in Op
  BY ContextFacts DEF Store, At, IInv, Operations, Enqueuing
<1>2. \A d \in Context : pc'[d] = IF d = c THEN "count" ELSE pc[d]
  BY DEF Store, Goto, IInv, TypeOK
<1>3. /\ Pending = index
      /\ index \in Nat /\ index + 1 \in 1 .. Size - 1
      /\ \A d \in Enqueuer : d # c => pc[d] \notin Holding
      /\ pc[Server] \notin Holding
  BY <1>1, HolderFacts
<1>4. end = Place(index + 1)
  BY <1>1, <1>3 DEF IInv, RingFilled, Holding
<1>5. start \in 0 .. Size - 1 /\ Size \in Nat
  BY WinsysAssumption DEF IInv, TypeOK
<1>6. /\ end \in 0 .. Size - 1 /\ end' = Place(index + 2)
      /\ Place(index + 2) \in 0 .. Size - 1
  <2> DEFINE i == index + 1
  <2>1. i \in 1 .. Size - 1 /\ i + 1 \in 1 .. Size /\ i + 1 = index + 2
    BY <1>3, <1>5
  <2>2. (Place(i) + 1) % Size = Place(i + 1)
    BY <1>5, <2>1, NextPlace, Zenon
  <2>3. Place(i + 1) \in 0 .. Size - 1
    BY <1>5, <2>1, PlaceValue, Zenon
  <2>4. end \in 0 .. Size - 1
    BY DEF IInv, TypeOK
  <2>. QED
    BY <1>1, <1>4, <2>1, <2>2, <2>3, <2>4, Zenon
<1>7. TypeOK'
  <2>1. ring' \in [0 .. Size - 1 -> Op \cup {NoOp}]
    BY <1>1 DEF IInv, TypeOK
  <2>2. end' \in 0 .. Size - 1
    BY <1>6
  <2>3. pc' \in [Context -> Stage]
    BY <1>1 DEF IInv, TypeOK, Store, Goto, Stage, Enqueuing
  <2>. QED
    BY <1>1, <2>1, <2>2, <2>3 DEF IInv, TypeOK
<1>8. OneHolder'
  BY <1>1, <1>2 DEF IInv, OneHolder, Holding
<1>9. Contexts'
  BY <1>1, <1>2, ContextFacts DEF IInv, Contexts, Enqueuing
<1>10. RoomLeft'
  BY <1>1, <1>2, RoomKept DEF Waiting
<1>11. SomeThere'
  BY <1>1, <1>2 DEF IInv, SomeThere
<1>12. Operations'
  BY <1>1, <1>2, ContextFacts DEF IInv, Operations
<1>13. RingFilled'
  <2>1. Pending' = index
    BY <1>1, <1>2, <1>3 DEF Pending
  <2>2. \A i : Place(i)' = Place(i)
    BY <1>1 DEF Place
  <2>3. ring'[end] = op[c] /\ \A k \in 0 .. Size - 1 : k # end => ring'[k] = ring[k]
    BY <1>1, <1>6 DEF IInv, TypeOK
  <2>4. ASSUME NEW i \in 1 .. index
        PROVE  ring'[Place(i)] \in Op
    <3>1. i \in 1 .. Size /\ index + 1 \in 1 .. Size /\ i # index + 1
      BY <1>3, <1>5
    <3>2. Place(i) # end /\ Place(i) \in 0 .. Size - 1
      BY <1>4, <1>5, <3>1, PlacesDiffer, PlaceValue, Zenon
    <3>3. ring[Place(i)] \in Op
      BY <1>3 DEF IInv, RingFilled
    <3>. QED
      BY <2>3, <3>2, <3>3, Zenon
  <2>5. ~ (\A d \in Enqueuer : pc'[d] # "count")
    BY <1>1, <1>2
  <2>6. \A d \in Enqueuer : pc'[d] = "count" => d = c
    BY <1>2, <1>3, ContextFacts DEF Holding
  <2>7. ring'[Place(index + 1)] = op[c]
    BY <1>4, <2>3
  <2>. QED
    BY <1>1, <1>6, <2>1, <2>2, <2>4, <2>5, <2>6, <2>7, Zenon DEF RingFilled
<1>. QED
  BY <1>7, <1>8, <1>9, <1>10, <1>11, <1>12, <1>13 DEF IInv, Roomy

(***************************************************************************)
(* winsys_queue_index++: the stored operation joins the pending ones.      *)
(***************************************************************************)
LEMMA CountStep ==
  ASSUME IInv, NEW c \in Enqueuer, Count(c)
  PROVE  IInv'
<1>1. /\ ring' = ring /\ end' = end /\ index' = index + 1 /\ start' = start
      /\ lock' = lock /\ pc[c] = "count" /\ op' = op
      /\ c \in Context /\ c # Server /\ Server \in Context
      /\ op[c] \in Op
  BY ContextFacts DEF Count, At, IInv, Operations, Enqueuing
<1>2. \A d \in Context : pc'[d] = IF d = c THEN "release" ELSE pc[d]
  BY DEF Count, Goto, IInv, TypeOK
<1>3. /\ Pending = index
      /\ index \in Nat /\ index + 1 \in 1 .. Size - 1
      /\ \A d \in Enqueuer : d # c => pc[d] \notin Holding
      /\ pc[Server] \notin Holding
  BY <1>1, HolderFacts
<1>4. TypeOK'
  <2>1. index' \in 0 .. Size
    BY <1>1, <1>3, WinsysAssumption
  <2>2. pc' \in [Context -> Stage]
    BY <1>1 DEF IInv, TypeOK, Count, Goto, Stage, Enqueuing
  <2>. QED
    BY <1>1, <2>1, <2>2 DEF IInv, TypeOK
<1>5. OneHolder'
  BY <1>1, <1>2 DEF IInv, OneHolder, Holding
<1>6. Contexts'
  BY <1>1, <1>2, ContextFacts DEF IInv, Contexts, Enqueuing
<1>7. RoomLeft'
  BY <1>1, <1>2, RoomGiven DEF Waiting
<1>8. SomeThere'
  BY <1>1, <1>2, <1>3 DEF IInv, SomeThere, Holding
<1>9. Operations'
  BY <1>1, <1>2, ContextFacts DEF IInv, Operations
<1>10. RingFilled'
  <2>1. Pending' = index + 1
    BY <1>1, <1>2, <1>3 DEF Pending, Holding
  <2>2. \A i : Place(i)' = Place(i)
    BY <1>1 DEF Place
  <2>3. /\ \A i \in 1 .. index : ring[Place(i)] \in Op
        /\ ring[Place(index + 1)] = op[c] /\ end = Place(index + 2)
    BY <1>1, <1>3 DEF IInv, RingFilled
  <2>4. ASSUME NEW i \in 1 .. index + 1
        PROVE  ring[Place(i)] \in Op
    <3>1. i \in 1 .. index \/ i = index + 1
      BY <1>3
    <3>. QED
      BY <1>1, <2>3, <3>1
  <2>5. \A d \in Enqueuer : pc'[d] # "count"
    BY <1>2, <1>3, ContextFacts DEF Holding
  <2>6. index + 2 = (index + 1) + 1
    BY <1>3
  <2>. QED
    BY <1>1, <2>1, <2>2, <2>3, <2>4, <2>5, <2>6, Zenon DEF RingFilled
<1>. QED
  BY <1>4, <1>5, <1>6, <1>7, <1>8, <1>9, <1>10 DEF IInv, Roomy

(***************************************************************************)
(* With room left, whoever enqueued always releases (window_sys.c:234).    *)
(***************************************************************************)
LEMMA ReleaseStep ==
  ASSUME IInv, NEW c \in Enqueuer, Release(c)
  PROVE  IInv'
<1>1. /\ ring' = ring /\ index' = index /\ start' = start /\ end' = end
      /\ pc[c] = "release"
      /\ c \in Context /\ c # Server /\ Server \in Context
  BY ContextFacts DEF Release, Return, At, ringVars
<1>2. /\ \A d \in Context : /\ d # c => pc'[d] = pc[d]
                            /\ op'[d] = IF d = c THEN NoOp ELSE op[d]
      /\ pc'[c] \in {"out", "event"}
  BY <1>1 DEF Release, Return, Goto, IInv, TypeOK
<1>3. index < Size
  BY WaitingCount, WinsysAssumption DEF IInv, Roomy, RoomLeft, TypeOK
<1>4. lock' = FALSE
  BY <1>3 DEF Release
<1>5. TypeOK'
  BY <1>1, <1>4 DEF IInv, TypeOK, Release, Return, Goto, Stage
<1>6. OneHolder'
  BY <1>1, <1>2, <1>4 DEF IInv, OneHolder, Holding
<1>7. Contexts'
  BY <1>1, <1>2, ContextFacts DEF IInv, Contexts, Handling
<1>8. RoomLeft'
  BY <1>1, <1>2, RoomKept DEF Waiting
<1>9. SomeThere'
  BY <1>1, <1>2 DEF IInv, SomeThere
<1>10. Operations'
  BY <1>1, <1>2, ContextFacts DEF IInv, Operations, Enqueuing
<1>11. RingFilled'
  <2>1. Pending' = Pending
    BY <1>1, <1>2 DEF Pending
  <2>. QED
    BY <1>1, <1>2, <2>1, ContextFacts, RingKept
<1>. QED
  BY <1>5, <1>6, <1>7, <1>8, <1>9, <1>10, <1>11 DEF IInv, Roomy

(***************************************************************************)
(* The listener polls (window_sys.c:185-188): it goes on when the index says *)
(* that something is there.                                                *)
(***************************************************************************)
LEMMA PollStep ==
  ASSUME IInv, Poll
  PROVE  IInv'
<1>1. /\ ring' = ring /\ index' = index /\ start' = start /\ end' = end
      /\ lock' = lock /\ op' = op /\ index # 0 /\ pc[Server] = "poll"
      /\ Server \in Context
  BY ContextFacts DEF Poll, At, ringVars
<1>2. \A d \in Context : pc'[d] = IF d = Server THEN "choose" ELSE pc[d]
  BY DEF Poll, Acquire, Goto, IInv, TypeOK
<1>3. TypeOK'
  BY <1>1 DEF IInv, TypeOK, Poll, Acquire, Goto, Stage
<1>4. OneHolder'
  BY <1>1, <1>2 DEF IInv, OneHolder, Holding
<1>5. Contexts'
  BY <1>1, <1>2, ContextFacts DEF IInv, Contexts, Listening
<1>6. RoomLeft'
  BY <1>1, <1>2, RoomKept DEF Waiting
<1>7. SomeThere'
  BY <1>1, <1>2 DEF IInv, SomeThere, TypeOK
<1>8. Operations'
  BY <1>1, <1>2, ContextFacts DEF IInv, Operations
<1>9. RingFilled'
  <2>1. Pending' = Pending
    BY <1>1, <1>2 DEF Pending
  <2>. QED
    BY <1>1, <1>2, <2>1, ContextFacts, RingKept
<1>. QED
  BY <1>3, <1>4, <1>5, <1>6, <1>7, <1>8, <1>9 DEF IInv, Roomy

(***************************************************************************)
(* With room left, the listener always acquires (window_sys.c:197).        *)
(***************************************************************************)
LEMMA ChooseStep ==
  ASSUME IInv, Choose
  PROVE  IInv'
<1>1. /\ ring' = ring /\ index' = index /\ start' = start /\ end' = end
      /\ lock' = lock /\ op' = op /\ index < Size /\ pc[Server] = "choose"
      /\ Server \in Context
  BY ContextFacts, WaitingCount, WinsysAssumption DEF Choose, At, ringVars, IInv, Roomy, RoomLeft, TypeOK
<1>2. \A d \in Context : pc'[d] = IF d = Server THEN "lock" ELSE pc[d]
  BY <1>1 DEF Choose, Acquire, Goto, IInv, TypeOK
<1>3. TypeOK'
  BY <1>1 DEF IInv, TypeOK, Choose, Acquire, Goto, Stage
<1>4. OneHolder'
  BY <1>1, <1>2 DEF IInv, OneHolder, Holding
<1>5. Contexts'
  BY <1>1, <1>2, ContextFacts DEF IInv, Contexts, Listening
<1>6. RoomLeft'
  BY <1>1, <1>2, RoomKept DEF Waiting
<1>7. SomeThere'
  BY <1>1, <1>2 DEF IInv, SomeThere
<1>8. Operations'
  BY <1>1, <1>2, ContextFacts DEF IInv, Operations
<1>9. RingFilled'
  <2>1. Pending' = Pending
    BY <1>1, <1>2 DEF Pending
  <2>. QED
    BY <1>1, <1>2, <2>1, ContextFacts, RingKept
<1>. QED
  BY <1>3, <1>4, <1>5, <1>6, <1>7, <1>8, <1>9 DEF IInv, Roomy

(***************************************************************************)
(* acquireLock by the listener (window_sys.c:198): nobody holds.           *)
(***************************************************************************)
LEMMA DequeueAcquireStep ==
  ASSUME IInv, DequeueAcquire
  PROVE  IInv'
<1>1. /\ ring' = ring /\ index' = index /\ start' = start /\ end' = end
      /\ ~ lock /\ lock' = TRUE /\ op' = op /\ pc[Server] = "lock"
      /\ Server \in Context
  BY ContextFacts DEF DequeueAcquire, At, ringVars, Acquire
<1>2. \A d \in Context : pc'[d] = IF d = Server THEN "take" ELSE pc[d]
  BY DEF DequeueAcquire, Acquire, Goto, IInv, TypeOK
<1>3. TypeOK'
  BY <1>1 DEF IInv, TypeOK, DequeueAcquire, Acquire, Goto, Stage
<1>4. OneHolder'
  BY <1>1, <1>2 DEF IInv, OneHolder, Holding
<1>5. Contexts'
  BY <1>1, <1>2, ContextFacts DEF IInv, Contexts, Listening
<1>6. RoomLeft'
  BY <1>1, <1>2, RoomKept DEF Waiting
<1>7. SomeThere'
  BY <1>1, <1>2 DEF IInv, SomeThere
<1>8. Operations'
  BY <1>1, <1>2, ContextFacts DEF IInv, Operations
<1>9. RingFilled'
  <2>1. Pending' = Pending
    BY <1>1, <1>2 DEF Pending
  <2>. QED
    BY <1>1, <1>2, <2>1, ContextFacts, RingKept
<1>. QED
  BY <1>3, <1>4, <1>5, <1>6, <1>7, <1>8, <1>9 DEF IInv, Roomy

(***************************************************************************)
(* The listener takes the first pending operation (window_sys.c:200-202).  *)
(***************************************************************************)
LEMMA TakeFacts ==
  ASSUME IInv, Take
  PROVE  /\ ring' = ring /\ end' = end /\ index' = index
         /\ start' = (start + 1) % Size /\ start' \in 0 .. Size - 1
         /\ pc[Server] = "take" /\ lock' = lock
         /\ op[Server] = NoOp
         /\ index \in 1 .. Size - 1 /\ Pending = index /\ Pending' = index - 1
         /\ \A i \in 1 .. Size - 1 : Place(i)' = Place(i + 1)
         /\ ring[start] = ring[Place(1)] /\ ring[start] \in Op
         /\ \A d \in Context : /\ pc'[d] = IF d = Server THEN "drop" ELSE pc[d]
                               /\ op'[d] = IF d = Server THEN ring[start] ELSE op[d]
<1>1. /\ ring' = ring /\ end' = end /\ index' = index
      /\ start' = (start + 1) % Size
      /\ pc[Server] = "take" /\ lock' = lock
      /\ Server \in Context
      /\ op[Server] = NoOp
  BY ContextFacts DEF Take, At, IInv, Operations
<1>2. \A d \in Context : /\ pc'[d] = IF d = Server THEN "drop" ELSE pc[d]
                         /\ op'[d] = IF d = Server THEN ring[start] ELSE op[d]
  BY DEF Take, Goto, IInv, TypeOK
<1>3. index \in 1 .. Size - 1
  BY <1>1, WaitingCount, WinsysAssumption DEF IInv, Roomy, RoomLeft, SomeThere, TypeOK
<1>4. Pending = index /\ Pending' = index - 1
  BY <1>1, <1>2 DEF Pending
<1>5. start \in 0 .. Size - 1 /\ 1 \in 1 .. Size - 1
  BY <1>3, WinsysAssumption DEF IInv, TypeOK
<1>6. start' \in 0 .. Size - 1 /\ Place(1) = start
  BY <1>1, <1>5, NextPlace, Zenon
<1>7. ASSUME NEW i \in 1 .. Size - 1
      PROVE  Place(i)' = Place(i + 1)
  <2>1. (((start + 1) % Size) + i - 1) % Size = Place(i + 1)
    BY <1>5, NextPlace, Zenon
  <2>. QED
    BY <1>1, <2>1, Zenon DEF Place
<1>8. ring[start] \in Op
  <2>1. 1 \in 1 .. Pending
    BY <1>3, <1>4, WinsysAssumption
  <2>. QED
    BY <1>6, <2>1 DEF IInv, RingFilled
<1>. QED
  BY <1>1, <1>2, <1>3, <1>4, <1>6, <1>7, <1>8, Zenon

LEMMA TakeStep ==
  ASSUME IInv, Take
  PROVE  IInv'
<1>1. /\ ring' = ring /\ end' = end /\ index' = index
      /\ start' \in 0 .. Size - 1
      /\ pc[Server] = "take" /\ lock' = lock
      /\ index \in 1 .. Size - 1 /\ Pending = index /\ Pending' = index - 1
      /\ ring[start] \in Op
      /\ Server \in Context
  BY TakeFacts, ContextFacts, Zenon
<1>2. \A d \in Context : /\ pc'[d] = IF d = Server THEN "drop" ELSE pc[d]
                         /\ op'[d] = IF d = Server THEN ring[start] ELSE op[d]
  BY TakeFacts, Zenon
<1>3. TypeOK'
  <2>1. op' \in [Context -> Op \cup {NoOp}]
    BY <1>1 DEF IInv, TypeOK, Take
  <2>2. pc' \in [Context -> Stage]
    BY <1>1 DEF IInv, TypeOK, Take, Goto, Stage
  <2>. QED
    BY <1>1, <2>1, <2>2 DEF IInv, TypeOK
<1>4. OneHolder'
  BY <1>1, <1>2 DEF IInv, OneHolder, Holding
<1>5. Contexts'
  BY <1>1, <1>2, ContextFacts DEF IInv, Contexts, Listening
<1>6. RoomLeft'
  BY <1>1, <1>2, RoomKept DEF Waiting
<1>7. SomeThere'
  BY <1>1, <1>2 DEF IInv, SomeThere
<1>8. Operations'
  BY <1>1, <1>2, ContextFacts DEF IInv, Operations
<1>9. RingFilled'
  <2>1. \A i \in 1 .. Size - 1 : Place(i)' = Place(i + 1)
    BY TakeFacts, Zenon
  <2>2. \A d \in Enqueuer : pc[d] # "count" /\ pc'[d] # "count"
    BY <1>1, <1>2, ContextFacts DEF IInv, OneHolder, Holding
  <2>3. \A i \in 1 .. index : ring[Place(i)] \in Op
    BY <1>1 DEF IInv, RingFilled
  <2>4. end = Place(index + 1)
    BY <1>1, <2>2 DEF IInv, RingFilled
  <2>5. ASSUME NEW i \in 1 .. index - 1
        PROVE  ring'[Place(i)'] \in Op
    <3>1. i \in 1 .. Size - 1 /\ i + 1 \in 1 .. index
      BY <1>1, WinsysAssumption
    <3>. QED
      BY <1>1, <2>1, <2>3, <3>1, Zenon
  <2>6. end' = Place((index - 1) + 1)'
    <3>1. (index - 1) + 1 = index
      BY <1>1, WinsysAssumption
    <3>2. Place((index - 1) + 1)' = Place(index)'
      BY <1>1, <3>1 DEF Place
    <3>. QED
      BY <1>1, <2>1, <2>4, <3>2, Zenon
  <2>. QED
    BY <1>1, <2>2, <2>5, <2>6, Zenon DEF RingFilled
<1>. QED
  BY <1>3, <1>4, <1>5, <1>6, <1>7, <1>8, <1>9 DEF IInv, Roomy

(***************************************************************************)
(* winsys_queue_index-- (window_sys.c:204): what was taken is off the      *)
(* count as well.                                                          *)
(***************************************************************************)
LEMMA DropStep ==
  ASSUME IInv, Drop
  PROVE  IInv'
<1>1. /\ ring' = ring /\ end' = end /\ index' = index - 1 /\ start' = start
      /\ pc[Server] = "drop" /\ lock' = lock /\ op' = op
      /\ index \in 1 .. Size
      /\ Server \in Context
  BY ContextFacts, WinsysAssumption DEF Drop, At, IInv, SomeThere, TypeOK
<1>2. \A d \in Context : pc'[d] = IF d = Server THEN "free" ELSE pc[d]
  BY DEF Drop, Goto, IInv, TypeOK
<1>3. TypeOK'
  <2>1. index' \in 0 .. Size
    BY <1>1, WinsysAssumption
  <2>2. pc' \in [Context -> Stage]
    BY <1>1 DEF IInv, TypeOK, Drop, Goto, Stage
  <2>. QED
    BY <1>1, <2>1, <2>2 DEF IInv, TypeOK
<1>4. OneHolder'
  BY <1>1, <1>2 DEF IInv, OneHolder, Holding
<1>5. Contexts'
  BY <1>1, <1>2, ContextFacts DEF IInv, Contexts, Listening
<1>6. RoomLeft'
  <2>1. WaitingSet' = WaitingSet
    BY <1>1, <1>2 DEF WaitingSet, Waiting
  <2>. QED
    BY <1>1, <2>1, WaitingCount, WinsysAssumption DEF IInv, RoomLeft
<1>7. SomeThere'
  BY <1>1, <1>2 DEF IInv, SomeThere
<1>8. Operations'
  BY <1>1, <1>2, ContextFacts DEF IInv, Operations
<1>9. RingFilled'
  <2>1. Pending' = Pending
    BY <1>1, <1>2 DEF Pending
  <2>. QED
    BY <1>1, <1>2, <2>1, ContextFacts, RingKept
<1>. QED
  BY <1>3, <1>4, <1>5, <1>6, <1>7, <1>8, <1>9 DEF IInv, Roomy

(***************************************************************************)
(* releaseLock by the listener (window_sys.c:208).                         *)
(***************************************************************************)
LEMMA FreeStep ==
  ASSUME IInv, Free
  PROVE  IInv'
<1>1. /\ ring' = ring /\ index' = index /\ start' = start /\ end' = end
      /\ lock' = FALSE /\ op' = op /\ pc[Server] = "free"
      /\ Server \in Context
  BY ContextFacts DEF Free, At, ringVars
<1>2. \A d \in Context : pc'[d] = IF d = Server THEN "perform" ELSE pc[d]
  BY DEF Free, Acquire, Goto, IInv, TypeOK
<1>3. TypeOK'
  BY <1>1 DEF IInv, TypeOK, Free, Acquire, Goto, Stage
<1>4. OneHolder'
  BY <1>1, <1>2 DEF IInv, OneHolder, Holding
<1>5. Contexts'
  BY <1>1, <1>2, ContextFacts DEF IInv, Contexts, Listening
<1>6. RoomLeft'
  BY <1>1, <1>2, RoomKept DEF Waiting
<1>7. SomeThere'
  BY <1>1, <1>2 DEF IInv, SomeThere
<1>8. Operations'
  BY <1>1, <1>2, ContextFacts DEF IInv, Operations
<1>9. RingFilled'
  <2>1. Pending' = Pending
    BY <1>1, <1>2 DEF Pending
  <2>. QED
    BY <1>1, <1>2, <2>1, ContextFacts, RingKept
<1>. QED
  BY <1>3, <1>4, <1>5, <1>6, <1>7, <1>8, <1>9 DEF IInv, Roomy

(***************************************************************************)
(* The operation is performed and the loop goes round.                     *)
(***************************************************************************)
LEMMA PerformStep ==
  ASSUME IInv, Perform
  PROVE  IInv'
<1>1. /\ ring' = ring /\ index' = index /\ start' = start /\ end' = end
      /\ lock' = lock /\ pc[Server] = "perform"
      /\ Server \in Context
  BY ContextFacts DEF Perform, At, ringVars
<1>2. \A d \in Context : /\ pc'[d] = IF d = Server THEN "poll" ELSE pc[d]
                         /\ op'[d] = IF d = Server THEN NoOp ELSE op[d]
  BY DEF Perform, Goto, IInv, TypeOK
<1>3. TypeOK'
  BY <1>1 DEF IInv, TypeOK, Perform, Acquire, Goto, Stage
<1>4. OneHolder'
  BY <1>1, <1>2 DEF IInv, OneHolder, Holding
<1>5. Contexts'
  BY <1>1, <1>2, ContextFacts DEF IInv, Contexts, Listening
<1>6. RoomLeft'
  BY <1>1, <1>2, RoomKept DEF Waiting
<1>7. SomeThere'
  BY <1>1, <1>2 DEF IInv, SomeThere
<1>8. Operations'
  BY <1>1, <1>2, ContextFacts DEF IInv, Operations
<1>9. RingFilled'
  <2>1. Pending' = Pending
    BY <1>1, <1>2 DEF Pending
  <2>. QED
    BY <1>1, <1>2, <2>1, ContextFacts, RingKept
<1>. QED
  BY <1>3, <1>4, <1>5, <1>6, <1>7, <1>8, <1>9 DEF IInv, Roomy
-----------------------------------------------------------------------------
LEMMA InitStep ==
  ASSUME Roomy, Init
  PROVE  IInv
<1>1. Size \in Nat \ {0, 1} /\ Burst \in Nat
  BY WinsysAssumption
<1>2. /\ \A c \in Enqueuer : pc[c] = "out" /\ op[c] = NoOp
      /\ pc[Server] = "poll" /\ op[Server] = NoOp
      /\ index = 0 /\ start = 0 /\ end = 0 /\ lock = FALSE
  BY ContextFacts DEF Init
<1>3. TypeOK
  <2>1. /\ index \in 0 .. Size /\ start \in 0 .. Size - 1 /\ end \in 0 .. Size - 1
    BY <1>1, <1>2
  <2>2. ring \in [0 .. Size - 1 -> Op \cup {NoOp}] /\ op \in [Context -> Op \cup {NoOp}]
    BY DEF Init
  <2>3. pc \in [Context -> Stage]
    BY DEF Init, Stage
  <2>. QED
    BY <1>2, <2>1, <2>2, <2>3 DEF TypeOK
<1>4. OneHolder
  BY <1>2, ContextFacts DEF OneHolder, Holding
<1>5. Contexts
  BY <1>2, ContextFacts DEF Contexts, Enqueuing, Listening
<1>6. RoomLeft
  <2>1. WaitingSet = {}
    BY <1>2, ContextFacts DEF WaitingSet, Waiting
  <2>. QED
    BY <1>1, <1>2, <2>1, FS_EmptySet DEF RoomLeft
<1>7. SomeThere /\ Operations
  BY <1>2 DEF SomeThere, Operations, Enqueuing
<1>8. RingFilled
  <2>1. Pending = 0
    BY <1>2 DEF Pending
  <2>2. start \in 0 .. Size - 1 /\ 1 \in 1 .. Size - 1
    BY <1>1, <1>2
  <2>3. Place(1) = start
    BY <2>2, NextPlace, Zenon
  <2>. QED
    BY <1>2, <2>1, <2>3 DEF RingFilled
<1>. QED
  BY <1>3, <1>4, <1>5, <1>6, <1>7, <1>8 DEF IInv

LEMMA StutterStep ==
  ASSUME IInv, UNCHANGED vars
  PROVE  IInv'
BY DEF vars, IInv, Roomy, TypeOK, OneHolder, Contexts, RoomLeft, WaitingSet, SomeThere,
       Operations, RingFilled, Pending, Place

LEMMA NextStep ==
  ASSUME IInv, [Next]_vars
  PROVE  IInv'
<1>1. ASSUME NEW o \in Op, NEW p \in Producer, Call(p, o) PROVE IInv'
  BY <1>1, CallStep
<1>2. ASSUME NEW o \in Op, NEW h \in Handler, Interrupt(h, o) PROVE IInv'
  BY <1>2, InterruptStep
<1>3. ASSUME NEW c \in Enqueuer, Enqueue(c) PROVE IInv'
  BY <1>3, CheckStep, EnqueueAcquireStep, StoreStep, CountStep, ReleaseStep DEF Enqueue
<1>4. ASSUME Listen PROVE IInv'
  BY <1>4, PollStep, ChooseStep, DequeueAcquireStep, TakeStep, DropStep, FreeStep, PerformStep
  DEF Listen
<1>5. CASE UNCHANGED vars
  BY <1>5, StutterStep
<1>6. ASSUME NEW h \in Handler, InterruptMove(h) \/ Handle(h) PROVE IInv'
  <2>1. h \in Enqueuer
    BY DEF Enqueuer
  <2>. QED
    BY <1>3, <1>6, <2>1, InterruptMoveStep, EventStep, WokenStep DEF Handle
<1>7. ASSUME NEW p \in Producer, Enqueue(<< p, 0 >>) PROVE IInv'
  <2>1. << p, 0 >> \in Enqueuer
    BY DEF Enqueuer
  <2>. QED
    BY <1>3, <1>7, <2>1
<1>. QED
  BY <1>1, <1>2, <1>4, <1>5, <1>6, <1>7 DEF Next

(***************************************************************************)
(* Theorem: the inductive invariant holds throughout every run.            *)
(***************************************************************************)
THEOREM RingInvariance == Roomy /\ Spec => []IInv
<1>1. Roomy /\ Init => IInv
  BY InitStep
<1>2. IInv /\ [Next]_vars => IInv'
  BY NextStep
<1>. QED
  BY <1>1, <1>2, PTL DEF Spec

(***************************************************************************)
(* Theorem: the ring's indices stay inside the ring and the count within   *)
(* its size, for any number of threads (window_sys.c:195-235).             *)
(***************************************************************************)
THEOREM RingTypeCorrect == Roomy /\ Spec => []TypeOK
<1>1. IInv => TypeOK
  BY DEF IInv
<1>. QED
  BY <1>1, RingInvariance, PTL

(***************************************************************************)
(* Theorem: winsys_queue_lock is taken exactly while one context is        *)
(* between its acquireLock and its releaseLock (window_sys.c:197-208,      *)
(* :228-235), although either may skip one of them.                        *)
(***************************************************************************)
THEOREM LockExcludes == Roomy /\ Spec => []OneHolder
<1>1. IInv => OneHolder
  BY DEF IInv
<1>. QED
  BY <1>1, RingInvariance, PTL

-----------------------------------------------------------------------------
(***************************************************************************)
(* Handlers on the listener's thread.  What stands below a handler stays   *)
(* as it was until the handler returns, so what it read of the lock at its *)
(* early return (window_sys.c:222-226) still tells what they hold when it  *)
(* comes to acquireLock; unless one of them has disabled scheduling.       *)
(***************************************************************************)
OnListener == Interrupted \subseteq {Listener}

Entering == Enqueuing \ {"check"}

HandlerSafe ==
  \A h \in Handler : pc[h] \in Entering /\ (\A c \in Below(h) : pc[c] # "wake")
                     => \A c \in Below(h) : pc[c] \notin Holding

(***************************************************************************)
(* A step moves one context, and no handler is on top of it; a handler     *)
(* enters through its check.                                               *)
(***************************************************************************)
MovesAt(e) ==
  /\ \A d \in Context : d # e => pc'[d] = pc[d]
  /\ \A h \in Handler : e \in Below(h) => pc[h] = "out"

Enters(e) == pc'[e] \in Entering => pc[e] \in Entering \/ (Check(e) /\ ~ Discards(e))

LEMMA NoneAbove ==
  ASSUME NEW e \in Context, Runs(e)
  PROVE  \A h \in Handler : e \in Below(h) => pc[h] = "out"
<1>1. \A c \in Context : c[2] \in Int
  BY WinsysAssumption DEF Context, Handler
<1>2. \A h \in Handler : h \in Context
  BY DEF Context
<1>. QED
  BY <1>1, <1>2 DEF Runs, Top, Below

LEMMA NoneAboveComing ==
  ASSUME NEW e \in Handler, Comes(e)
  PROVE  \A h \in Handler : e \in Below(h) => pc[h] = "out"
<1> DEFINE b == << e[1], e[2] - 1 >>
<1>1. b[1] = e[1] /\ b[2] = e[2] - 1
  OBVIOUS
<1>2. \A h \in Handler : h[2] \in Int
  BY WinsysAssumption DEF Handler
<1>3. \A h \in Handler : h[2] > e[2] => h[2] > e[2] - 1
  BY <1>2
<1>4. \A h \in Handler : h[1] = e[1] /\ e[2] < h[2] => pc[h] = "out"
  BY <1>1, <1>2, <1>3 DEF Comes, Runs, Top
<1>. QED
  BY <1>4 DEF Below

LEMMA EnqueuerMoves ==
  ASSUME IInv, NEW c \in Enqueuer, Enqueue(c)
  PROVE  MovesAt(c) /\ Enters(c)
<1>1. c \in Context /\ Runs(c) /\ pc[c] \in Enqueuing
  BY ContextFacts
  DEF Enqueue, Check, EnqueueAcquire, Store, Count, Release, At, Enqueuing
<1>2. \A d \in Context : d # c => pc'[d] = pc[d]
  BY <1>1 DEF Enqueue, Check, EnqueueAcquire, Acquire, Store, Count, Release, Return, Goto,
              IInv, TypeOK
<1>3. pc[c] = "check" => Check(c)
  BY DEF Enqueue, EnqueueAcquire, Store, Count, Release, At
<1>4. Check(c) /\ Discards(c) => pc'[c] \in {"out", "event"}
  BY <1>1 DEF Check, Return, Goto, IInv, TypeOK
<1>. QED
  BY <1>1, <1>2, <1>3, <1>4, NoneAbove DEF MovesAt, Enters, Entering, Enqueuing

LEMMA OneMoves ==
  ASSUME IInv, Next
  PROVE  \E e \in Context : MovesAt(e) /\ (e \in Handler => Enters(e))
<1>1. ASSUME NEW o \in Op, NEW p \in Producer, Call(p, o)
      PROVE  MovesAt(<< p, 0 >>) /\ << p, 0 >> \in Context /\ << p, 0 >> \notin Handler
  <2>1. << p, 0 >> \in Context /\ << p, 0 >> \notin Handler
    BY WinsysAssumption DEF Context, Thread, Handler
  <2>. QED
    BY <1>1, <2>1, NoneAbove DEF Call, At, Goto, MovesAt, IInv, TypeOK
<1>2. ASSUME NEW h \in Handler, (\E o \in Op : Interrupt(h, o)) \/ InterruptMove(h)
      PROVE  MovesAt(h) /\ Enters(h) /\ h \in Context
  <2>1. h \in Context /\ Comes(h) /\ (Goto(h, "check") \/ Goto(h, "event"))
    BY <1>2 DEF Interrupt, InterruptMove, Context
  <2>2. (\A d \in Context : d # h => pc'[d] = pc[d]) /\ pc'[h] \in {"check", "event"}
    BY <2>1 DEF Goto, IInv, TypeOK
  <2>. QED
    BY <2>1, <2>2, NoneAboveComing DEF MovesAt, Enters, Entering, Enqueuing
<1>3. ASSUME NEW h \in Handler, Handle(h)
      PROVE  MovesAt(h) /\ Enters(h) /\ h \in Context
  <2>1. h \in Context /\ h \in Enqueuer
    BY DEF Context, Enqueuer
  <2>2. CASE Enqueue(h)
    BY <2>1, <2>2, EnqueuerMoves
  <2>3. CASE Event(h) \/ Woken(h)
    <3>1. Runs(h) /\ \E l \in {"walk", "wake", "out"} : Goto(h, l)
      BY <2>3 DEF Event, Woken, At
    <3>2. (\A d \in Context : d # h => pc'[d] = pc[d]) /\ pc'[h] \in {"walk", "wake", "out"}
      BY <2>1, <3>1 DEF Goto, IInv, TypeOK
    <3>. QED
      BY <2>1, <3>1, <3>2, NoneAbove DEF MovesAt, Enters, Entering, Enqueuing
  <2>. QED
    BY <1>3, <2>1, <2>2, <2>3 DEF Handle
<1>4. ASSUME NEW p \in Producer, Enqueue(<< p, 0 >>)
      PROVE  MovesAt(<< p, 0 >>) /\ << p, 0 >> \in Context /\ << p, 0 >> \notin Handler
  <2>1. /\ << p, 0 >> \in Context /\ << p, 0 >> \notin Handler
        /\ << p, 0 >> \in Enqueuer
    BY WinsysAssumption DEF Context, Thread, Handler, Enqueuer
  <2>. QED
    BY <1>4, <2>1, EnqueuerMoves
<1>5. ASSUME Listen
      PROVE  MovesAt(Server) /\ Server \in Context /\ Server \notin Handler
  <2>1. Server \in Context /\ Server \notin Handler
    BY ContextFacts DEF Enqueuer
  <2>2. Runs(Server) /\ \E l : Goto(Server, l)
    BY <1>5 DEF Listen, Poll, Choose, DequeueAcquire, Acquire, Take, Drop, Free, Perform, At
  <2>3. \A d \in Context : d # Server => pc'[d] = pc[d]
    BY <2>2 DEF Goto, IInv, TypeOK
  <2>. QED
    BY <2>1, <2>2, <2>3, NoneAbove DEF MovesAt
<1>. QED
  BY <1>1, <1>2, <1>3, <1>4, <1>5 DEF Next

(***************************************************************************)
(* A handler that the check lets through, with nobody's wake-up below it,  *)
(* read the lock free: its thread was known to be the listener's.          *)
(***************************************************************************)
LEMMA CheckedFree ==
  ASSUME OnListener, IInv, NEW h \in Handler, Check(h), ~ Discards(h),
         \A c \in Below(h) : pc[c] # "wake"
  PROVE  \A c \in Context : pc[c] \notin Holding
<1>1. h[1] = Listener /\ pc[h] = "check" /\ Runs(h)
  BY DEF OnListener, Handler, Check, At
<1>2. ~ Unscheduled
  <2>. SUFFICES ASSUME NEW d \in Handler, pc[d] = "wake" PROVE FALSE
    BY DEF Unscheduled
  <2>1. d[1] = h[1] /\ ~ (d[2] > h[2]) /\ d # h
    BY <1>1 DEF Runs, Top
  <2>2. d = << d[1], d[2] >> /\ h = << h[1], h[2] >> /\ d[2] \in Int /\ h[2] \in Int
    BY WinsysAssumption DEF Handler
  <2>3. d[2] < h[2]
    BY <2>1, <2>2
  <2>4. d \in Below(h)
    BY <2>1, <2>3 DEF Below, Context
  <2>. QED
    BY <2>4
<1>3. ~ lock
  BY <1>1, <1>2 DEF Discards, ListenerRuns
<1>. QED
  BY <1>3 DEF IInv, OneHolder

LEMMA HandlerStep ==
  ASSUME OnListener, IInv, HandlerSafe, [Next]_vars
  PROVE  HandlerSafe'
<1>1. CASE UNCHANGED vars
  BY <1>1 DEF vars, HandlerSafe, Below
<1>2. CASE Next
  <2>1. PICK e \in Context : MovesAt(e) /\ (e \in Handler => Enters(e))
    BY <1>2, OneMoves
  <2>2. SUFFICES ASSUME NEW h \in Handler, pc'[h] \in Entering,
                        \A c \in Below(h) : pc'[c] # "wake",
                        NEW c \in Below(h)
                 PROVE  pc'[c] \notin Holding
    BY DEF HandlerSafe, Below
  <2>3. h \in Context /\ c \in Context /\ c # h /\ h \notin Below(h)
    <3>1. h[2] \in Int /\ h \in Context
      BY WinsysAssumption DEF Handler, Context
    <3>. QED
      BY <3>1 DEF Below
  <2>4. CASE e = h
    <3>1. \A d \in Below(h) : pc'[d] = pc[d]
      BY <2>1, <2>3, <2>4 DEF MovesAt, Below
    <3>2. CASE pc[h] \in Entering
      BY <2>2, <3>1, <3>2 DEF HandlerSafe
    <3>3. CASE Check(h) /\ ~ Discards(h)
      BY <2>2, <2>3, <3>1, <3>3, CheckedFree
    <3>. QED
      BY <2>1, <2>2, <2>4, <3>2, <3>3 DEF Enters
  <2>5. CASE e \in Below(h)
    <3>1. pc'[h] = "out"
      BY <2>1, <2>3, <2>5 DEF MovesAt
    <3>. QED
      BY <2>2, <3>1 DEF Entering, Enqueuing
  <2>6. CASE e # h /\ e \notin Below(h)
    <3>1. pc'[h] = pc[h] /\ \A d \in Below(h) : pc'[d] = pc[d]
      BY <2>1, <2>3, <2>6 DEF MovesAt, Below
    <3>. QED
      BY <2>2, <3>1 DEF HandlerSafe
  <2>. QED
    BY <2>4, <2>5, <2>6
<1>. QED
  BY <1>1, <1>2

(***************************************************************************)
(* Theorem: mouse handlers that interrupt no producer spin for a lock that *)
(* something below them holds only if they came during the wake-up of one  *)
(* of them (window_sys.c:222-226, scheduler.c:158-161).                    *)
(***************************************************************************)
THEOREM HandlersSpinInWakeUp == Roomy /\ OnListener /\ Spec => []SelfSpinsInWakeUp
<1>1. Init => HandlerSafe
  BY ContextFacts DEF Init, HandlerSafe, Entering, Enqueuing, Enqueuer
<1>2. OnListener /\ IInv /\ HandlerSafe /\ [Next]_vars => HandlerSafe'
  BY HandlerStep
<1>3. OnListener => OnListener'
  BY DEF OnListener
<1>4. HandlerSafe => SelfSpinsInWakeUp
  BY DEF HandlerSafe, SelfSpinsInWakeUp, Entering, Enqueuing
<1>. QED
  BY <1>1, <1>2, <1>3, <1>4, RingInvariance, PTL DEF Spec
-----------------------------------------------------------------------------
(***************************************************************************)
(* Refinement: the pending operations, as the sequence of OperationQueue.  *)
(***************************************************************************)
ContentsShape ==
  /\ Pending \in Nat /\ Contents \in Seq(Op) /\ Len(Contents) = Pending
  /\ \A i \in 1 .. Pending : Contents[i] = ring[Place(i)]

LEMMA ContentsFacts == IInv => ContentsShape
<1> SUFFICES ASSUME IInv PROVE ContentsShape
  OBVIOUS
<1>1. Pending \in Nat /\ Pending \in 0 .. Size - 1
  BY WaitingCount, WinsysAssumption DEF IInv, Roomy, RoomLeft, SomeThere, TypeOK, Pending
<1>2. Contents = [i \in 1 .. Pending |-> ring[Place(i)]]
  BY DEF Contents, Pending, Place
<1>3. \A i \in 1 .. Pending : ring[Place(i)] \in Op
  BY DEF IInv, RingFilled
<1>4. Contents \in [1 .. Pending -> Op]
  BY <1>2, <1>3, Zenon
<1>5. Contents \in Seq(Op) /\ Len(Contents) = Pending
  BY <1>1, <1>4
<1>. QED
  BY <1>1, <1>2, <1>5 DEF ContentsShape

LEMMA ContentsNext == IInv' => ContentsShape'
<1>1. IInv => ContentsShape
  BY ContentsFacts
<1>. QED
  BY <1>1, PTL

LEMMA ContentsKept ==
  ASSUME IInv, IInv', Pending' = Pending,
         \A i \in 1 .. Pending : ring'[Place(i)'] = ring[Place(i)]
  PROVE  Contents' = Contents
<1>1. Contents' = [i \in 1 .. Pending' |-> ring'[Place(i)']]
  BY DEF Contents, Pending, Place
<1>2. Contents = [i \in 1 .. Pending |-> ring[Place(i)]]
  BY DEF Contents, Pending, Place
<1>. QED
  BY <1>1, <1>2

\* The abstract queue stutters when neither what is pending nor what the
\* listener performs changes.
LEMMA QueueStutters ==
  ASSUME IInv, IInv', Pending' = Pending, ring' = ring, start' = start,
         op'[Server] = op[Server]
  PROVE  UNCHANGED Queue!vars
<1>1. \A i \in 1 .. Pending : ring'[Place(i)'] = ring[Place(i)]
  BY DEF Place
<1>2. Contents' = Contents
  BY <1>1, ContentsKept
<1>. QED
  BY <1>2 DEF Queue!vars

(***************************************************************************)
(* An operation stored is not yet pending; the count makes it so.          *)
(***************************************************************************)
LEMMA StoreStutters ==
  ASSUME IInv, IInv', NEW c \in Enqueuer, Store(c)
  PROVE  UNCHANGED Queue!vars
<1>1. /\ pc[c] = "store" /\ c # Server /\ start' = start /\ op' = op /\ index' = index
      /\ ring' = [ring EXCEPT ![end] = op[c]] /\ Server \in Context /\ c \in Context
  BY ContextFacts DEF Store, At
<1>2. /\ Pending = index
      /\ index \in Nat /\ index + 1 \in 1 .. Size - 1
      /\ \A d \in Enqueuer : d # c => pc[d] \notin Holding
  BY <1>1, HolderFacts
<1>3. end = Place(index + 1)
  BY <1>1, <1>2 DEF IInv, RingFilled, Holding
<1>4. pc'[Server] = pc[Server]
  BY <1>1 DEF Store, Goto, IInv, TypeOK
<1>5. Pending' = Pending
  BY <1>1, <1>4 DEF Pending
<1>6. ASSUME NEW i \in 1 .. Pending
      PROVE  ring'[Place(i)'] = ring[Place(i)]
  <2>1. start \in 0 .. Size - 1
    BY DEF IInv, TypeOK
  <2>2. i \in 1 .. Size /\ index + 1 \in 1 .. Size /\ i # index + 1
    BY <1>2, WinsysAssumption
  <2>3. Place(i) # end /\ Place(i) \in 0 .. Size - 1
    BY <1>3, <2>1, <2>2, PlacesDiffer, PlaceValue, Zenon
  <2>4. Place(i)' = Place(i)
    BY <1>1 DEF Place
  <2>. QED
    BY <1>1, <2>3, <2>4 DEF IInv, TypeOK
<1>7. Contents' = Contents
  BY <1>5, <1>6, ContentsKept
<1>. QED
  BY <1>1, <1>7 DEF Queue!vars

LEMMA CountEnqueues ==
  ASSUME IInv, IInv', NEW c \in Enqueuer, Count(c)
  PROVE  Queue!Enqueue(op[c]) /\ op[c] \in Op
<1>1. /\ pc[c] = "count" /\ c # Server /\ start' = start /\ op' = op /\ ring' = ring
      /\ index' = index + 1 /\ Server \in Context /\ c \in Context /\ op[c] \in Op
  BY ContextFacts DEF Count, At, IInv, Operations, Enqueuing
<1>2. /\ Pending = index
      /\ index \in Nat /\ index + 1 \in 1 .. Size - 1
      /\ pc[Server] \notin Holding
  BY <1>1, HolderFacts
<1>3. ring[Place(Pending + 1)] = op[c]
  BY <1>1 DEF IInv, RingFilled
<1>4. pc'[Server] = pc[Server]
  BY <1>1 DEF Count, Goto, IInv, TypeOK
<1>5. Pending' = Pending + 1
  BY <1>1, <1>2, <1>4 DEF Pending, Holding
<1>6. \A i : Place(i)' = Place(i)
  BY <1>1 DEF Place
<1>7. /\ Contents' \in Seq(Op) /\ Len(Contents') = Pending'
      /\ \A i \in 1 .. Pending' : Contents'[i] = ring'[Place(i)']
  BY ContentsNext DEF ContentsShape
<1>8. /\ Contents \in Seq(Op) /\ Len(Contents) = Pending /\ Pending \in Nat
      /\ \A i \in 1 .. Pending : Contents[i] = ring[Place(i)]
  BY ContentsFacts DEF ContentsShape
<1>9. Contents' = Append(Contents, op[c])
  <2>1. /\ Append(Contents, op[c]) \in Seq(Op)
        /\ Len(Append(Contents, op[c])) = Pending + 1
        /\ \A i \in 1 .. Pending : Append(Contents, op[c])[i] = Contents[i]
        /\ Append(Contents, op[c])[Pending + 1] = op[c]
    BY <1>1, <1>8
  <2>2. \A i \in 1 .. Pending + 1 : Contents'[i] = Append(Contents, op[c])[i]
    BY <1>1, <1>3, <1>5, <1>6, <1>7, <1>8, <2>1
  <2>. QED
    BY <1>5, <1>7, <2>1, <2>2, SeqEqual
<1>. QED
  BY <1>1, <1>9 DEF Queue!Enqueue

LEMMA TakeDequeues ==
  ASSUME IInv, IInv', Take
  PROVE  Queue!Dequeue
<1>1. /\ ring' = ring
      /\ op[Server] = NoOp /\ op'[Server] = ring[start]
      /\ index \in 1 .. Size - 1 /\ Pending = index /\ Pending' = index - 1
      /\ \A i \in 1 .. Size - 1 : Place(i)' = Place(i + 1)
      /\ ring[start] = ring[Place(1)]
  BY TakeFacts, ContextFacts, Zenon
<1>2. /\ Contents' \in Seq(Op) /\ Len(Contents') = Pending'
      /\ \A i \in 1 .. Pending' : Contents'[i] = ring'[Place(i)']
  BY ContentsNext DEF ContentsShape
<1>3. /\ Contents \in Seq(Op) /\ Len(Contents) = Pending
      /\ \A i \in 1 .. Pending : Contents[i] = ring[Place(i)]
  BY ContentsFacts DEF ContentsShape
<1>4. Size \in Nat
  BY WinsysAssumption
<1>5. Contents # << >> /\ Head(Contents) = ring[Place(1)]
  BY <1>1, <1>3, <1>4
<1>6. Contents' = Tail(Contents)
  <2>1. /\ Tail(Contents) \in Seq(Op) /\ Len(Tail(Contents)) = index - 1
        /\ \A i \in 1 .. index - 1 : Tail(Contents)[i] = Contents[i + 1]
    BY <1>1, <1>3, <1>4, <1>5
  <2>2. ASSUME NEW i \in 1 .. index - 1
        PROVE  Contents'[i] = Tail(Contents)[i]
    <3>1. i \in 1 .. Size - 1 /\ i + 1 \in 1 .. index
      BY <1>1, <1>4
    <3>2. Contents[i + 1] = ring[Place(i + 1)]
      BY <1>1, <1>3, <3>1, Zenon
    <3>3. Contents'[i] = ring[Place(i + 1)]
      BY <1>1, <1>2, <3>1, Zenon
    <3>. QED
      BY <2>1, <3>2, <3>3, Zenon
  <2>. QED
    BY <1>1, <1>2, <2>1, <2>2, SeqEqual
<1>. QED
  BY <1>1, <1>5, <1>6 DEF Queue!Dequeue

LEMMA QueueStep ==
  ASSUME IInv, [Next]_vars
  PROVE  [Queue!Next]_(Queue!vars)
<1>0. IInv'
  BY NextStep
<1>1. ASSUME NEW e \in Enqueuer, NEW l, Goto(e, l),
             op' = op \/ \E o \in Op : op' = [op EXCEPT ![e] = o], UNCHANGED ringVars
      PROVE  UNCHANGED Queue!vars
  <2>1. /\ pc'[Server] = pc[Server] /\ op'[Server] = op[Server]
        /\ ring' = ring /\ start' = start /\ index' = index
    BY <1>1, ContextFacts DEF Goto, ringVars, IInv, TypeOK
  <2>2. Pending' = Pending
    BY <2>1 DEF Pending
  <2>. QED
    BY <1>0, <2>1, <2>2, QueueStutters
<1>2. ASSUME NEW c \in Enqueuer, Check(c) \/ EnqueueAcquire(c) \/ Release(c)
      PROVE  UNCHANGED Queue!vars
  <2>1. /\ pc'[Server] = pc[Server] /\ op'[Server] = op[Server]
        /\ ring' = ring /\ start' = start /\ index' = index
    BY <1>2, ContextFacts
    DEF Check, EnqueueAcquire, Acquire, Release, Return, Goto, ringVars, IInv, TypeOK
  <2>2. Pending' = Pending
    BY <2>1 DEF Pending
  <2>. QED
    BY <1>0, <2>1, <2>2, QueueStutters
<1>3. ASSUME NEW c \in Enqueuer, Store(c)
      PROVE  UNCHANGED Queue!vars
  BY <1>0, <1>3, StoreStutters
<1>4. ASSUME NEW c \in Enqueuer, Count(c)
      PROVE  Queue!Next
  BY <1>0, <1>4, CountEnqueues DEF Queue!Next
<1>5. CASE Take
  BY <1>0, <1>5, TakeDequeues DEF Queue!Next
<1>6. CASE Perform
  <2>1. /\ ring' = ring /\ start' = start /\ index' = index /\ pc[Server] = "perform"
        /\ op'[Server] = NoOp /\ pc'[Server] = "poll" /\ op[Server] # NoOp
    BY <1>6, ContextFacts, WinsysAssumption
    DEF Perform, Goto, At, ringVars, IInv, TypeOK, Operations
  <2>2. Pending' = Pending
    BY <2>1 DEF Pending
  <2>3. \A i \in 1 .. Pending : ring'[Place(i)'] = ring[Place(i)]
    BY <2>1 DEF Place
  <2>4. Contents' = Contents
    BY <1>0, <2>2, <2>3, ContentsKept
  <2>. QED
    BY <2>1, <2>4 DEF Queue!Finish, Queue!Next
<1>7. CASE Poll \/ Choose \/ DequeueAcquire \/ Drop \/ Free
  <2>1. /\ ring' = ring /\ start' = start /\ op' = op
        /\ \/ index' = index /\ pc[Server] # "drop" /\ pc'[Server] # "drop"
           \/ index' = index - 1 /\ pc[Server] = "drop" /\ pc'[Server] = "free"
    BY <1>7, ContextFacts
    DEF Poll, Choose, DequeueAcquire, Acquire, Drop, Free, Goto, At, ringVars, IInv, TypeOK
  <2>2. Pending' = Pending
    BY <2>1 DEF Pending
  <2>. QED
    BY <1>0, <2>1, <2>2, QueueStutters
<1>8. CASE UNCHANGED vars
  <2>1. Pending' = Pending /\ ring' = ring /\ start' = start /\ op' = op
    BY <1>8 DEF vars, Pending
  <2>. QED
    BY <1>0, <2>1, QueueStutters
<1>9. ASSUME NEW o \in Op, NEW p \in Producer, Call(p, o)
      PROVE  UNCHANGED Queue!vars
  <2>1. << p, 0 >> \in Enqueuer
    BY DEF Enqueuer
  <2>. QED
    BY <1>1, <1>9, <2>1 DEF Call
<1>10. ASSUME NEW h \in Handler,
              \/ \E o \in Op : Interrupt(h, o)
              \/ InterruptMove(h) \/ Event(h) \/ Woken(h)
       PROVE  UNCHANGED Queue!vars
  <2>1. h \in Enqueuer
    BY DEF Enqueuer
  <2>2. CASE \E o \in Op : Interrupt(h, o)
    BY <1>1, <2>1, <2>2 DEF Interrupt
  <2>3. CASE InterruptMove(h) \/ Event(h) \/ Woken(h)
    BY <1>1, <2>1, <2>3 DEF InterruptMove, Event, Woken
  <2>. QED
    BY <1>10, <2>2, <2>3
<1>11. ASSUME NEW c \in Enqueuer, Enqueue(c)
       PROVE  [Queue!Next]_(Queue!vars)
  BY <1>2, <1>3, <1>4, <1>11 DEF Enqueue
<1>12. \A p \in Producer : << p, 0 >> \in Enqueuer
  BY DEF Enqueuer
<1>13. \A h \in Handler : h \in Enqueuer
  BY DEF Enqueuer
<1>. QED
  BY <1>5, <1>6, <1>7, <1>8, <1>9, <1>10, <1>11, <1>12, <1>13 DEF Next, Handle, Listen

(***************************************************************************)
(* Theorem: the ring implements OperationQueue: operations are performed   *)
(* one at a time, each once, in the order in which their enqueuers counted *)
(* them (winsys_enqueue_to_winsys_listener, winsys_listener).              *)
(***************************************************************************)
THEOREM RingImplementsQueue == Roomy /\ Spec => RefinesQueue
<1>1. Roomy /\ Init => Queue!Init
  <2> SUFFICES ASSUME Roomy, Init PROVE Queue!Init
    OBVIOUS
  <2>1. IInv
    BY InitStep
  <2>2. Pending = 0 /\ op[Server] = NoOp
    BY ContextFacts DEF Init, Pending
  <2>3. Contents \in Seq(Op) /\ Len(Contents) = 0
    BY <2>1, <2>2, ContentsFacts DEF ContentsShape
  <2>4. Contents = << >>
    BY <2>3
  <2>. QED
    BY <2>2, <2>4 DEF Queue!Init
<1>2. IInv /\ [Next]_vars => [Queue!Next]_(Queue!vars)
  BY QueueStep
<1>. QED
  BY <1>1, <1>2, RingInvariance, PTL DEF Spec, RefinesQueue, Queue!Spec
=============================================================================
