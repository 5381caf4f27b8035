----------------------------- MODULE WinsysQueue -----------------------------
(***************************************************************************)
(* The ring through which threads and the mouse interrupt hand operations  *)
(* to the window system (kernel/window_sys.c), with the spin lock of       *)
(* kernel_entry.asm that guards it.                                        *)
(*                                                                         *)
(* The lock is also the ring's back-pressure: whoever fills the last slot  *)
(* keeps the lock, and the listener, finding the ring full, takes an       *)
(* operation without acquiring and then releases.                          *)
(*                                                                         *)
(* A context is a thread, at level 0, or a mouse handler, at a level above *)
(* what it interrupts, which stands still until the handler returns.       *)
(* Interrupts are enabled in the handler and it acknowledges its own       *)
(* before its body (mouse.c:103): the timer may switch threads before any  *)
(* step, and a handler may be interrupted by another.  While a handler     *)
(* wakes a window's threads, scheduling is disabled, and only it and what  *)
(* interrupts it run.                                                      *)
(***************************************************************************)
EXTENDS Integers, FiniteSets

CONSTANTS
  Producer,      \* threads that enqueue
  Listener,      \* the thread of winsys_listener
  Interrupted,   \* the threads on which the handler of irq 12 may run
  Depth,         \* bound: mouse handlers one on top of the other
  Op, NoOp,
  Size,          \* WINSYS_QUEUE_SIZE
  Burst          \* bound: operations in the ring or on their way into it

ASSUME WinsysAssumption ==
  /\ Listener \notin Producer
  /\ IsFiniteSet(Producer)
  /\ Interrupted \subseteq Producer \cup {Listener}
  /\ Depth \in Nat
  /\ NoOp \notin Op
  /\ Size \in Nat \ {0, 1}
  /\ Burst \in Nat

VARIABLES
  ring,    \* winsys_queue
  index,   \* winsys_queue_index: the number of operations in the ring
  start,   \* winsys_queue_start
  end,     \* winsys_queue_end
  lock,    \* winsys_queue_lock
  pc,      \* where each context is
  op       \* the operation a context enqueues or performs

vars == << ring, index, start, end, lock, pc, op >>

Thread    == Producer \cup {Listener}
Handler   == Interrupted \X (1 .. Depth)
Context   == (Thread \X {0}) \cup Handler
Server    == << Listener, 0 >>
Enqueuing == {"check", "acquire", "store", "count", "release"}
Stage     == Enqueuing \cup {"out", "event", "wake", "walk",
                             "poll", "choose", "lock", "take", "drop", "free", "perform"}
InFlight  == index + Cardinality({c \in Context : pc[c] \in Enqueuing})

Init ==
  /\ ring = [i \in 0 .. Size - 1 |-> NoOp]
  /\ index = 0 /\ start = 0 /\ end = 0
  /\ lock = FALSE
  /\ pc = [c \in Context |-> IF c = Server THEN "poll" ELSE "out"]
  /\ op = [c \in Context |-> NoOp]

\* No handler runs on top of the context.
Top(c) == \A d \in Handler : d[1] = c[1] /\ d[2] > c[2] => pc[d] = "out"

\* _currentTask is 0: a handler has disabled scheduling for its wake-up.
Unscheduled == \E d \in Handler : pc[d] = "wake"

\* The processor can be at the context.
Runs(c) == Top(c) /\ \A d \in Handler : pc[d] = "wake" => d[1] = c[1]

At(c, l)      == pc[c] = l /\ Runs(c)
Goto(c, l)    == pc' = [pc EXCEPT ![c] = l]
ringVars      == << ring, index, start, end >>
-----------------------------------------------------------------------------
(***************************************************************************)
(* winsys_enqueue_to_winsys_listener, called by a thread or by a mouse     *)
(* handler, which then goes on to its event.                               *)
(***************************************************************************)
Call(p, o) ==
  /\ At(<< p, 0 >>, "out")
  /\ InFlight < Burst
  /\ op' = [op EXCEPT ![<< p, 0 >>] = o]
  /\ Goto(<< p, 0 >>, "check")
  /\ UNCHANGED << ringVars, lock >>

\* irq 12 while the thread, or the handler on top of it, has the processor.
Comes(h) ==
  /\ Runs(<< h[1], h[2] - 1 >>)
  /\ h[2] > 1 => pc[<< h[1], h[2] - 1 >>] # "out"

\* A click that focuses or moves a window.
Interrupt(h, o) ==
  /\ Comes(h)
  /\ InFlight < Burst
  /\ op' = [op EXCEPT ![h] = o]
  /\ Goto(h, "check")
  /\ UNCHANGED << ringVars, lock >>

\* A movement, or a click that asks for nothing.
InterruptMove(h) ==
  /\ Comes(h)
  /\ Goto(h, "event")
  /\ UNCHANGED << ringVars, lock, op >>

Return(c) ==
  /\ Goto(c, IF c[2] = 0 THEN "out" ELSE "event")
  /\ op' = [op EXCEPT ![c] = NoOp]

\* The event is stored and unsuspend_suspended_threads called, which leaves
\* scheduling disabled if it finds it so; no event, and the handler returns.
Event(h) ==
  /\ At(h, "event")
  /\ \/ Goto(h, IF Unscheduled THEN "walk" ELSE "wake")
     \/ Goto(h, "out")
  /\ UNCHANGED << ringVars, lock, op >>

Woken(h) ==
  /\ At(h, "wake") \/ At(h, "walk")
  /\ Goto(h, "out")
  /\ UNCHANGED << ringVars, lock, op >>

\* get_running_process() is the window system's: not while _currentTask is 0.
ListenerRuns(c) == ~ Unscheduled /\ c[1] = Listener

\* Faulty: the event is never discarded.
NeverDiscard(c) == FALSE

\* The window system's own thread was interrupted and the lock is taken.
Discards(c) == lock /\ ListenerRuns(c)

Check(c) ==
  /\ At(c, "check")
  /\ IF Discards(c) THEN Return(c)
                    ELSE Goto(c, "acquire") /\ UNCHANGED op
  /\ UNCHANGED << ringVars, lock >>

\* Faulty: reads the lock and writes it without excluding others.
AcquireAlways(c, l) ==
  /\ lock' = TRUE
  /\ Goto(c, l)

\* acquireLock: spins until its exchange finds the lock free.
Acquire(c, l) ==
  /\ ~ lock
  /\ lock' = TRUE
  /\ Goto(c, l)

EnqueueAcquire(c) ==
  /\ At(c, "acquire")
  /\ Acquire(c, "store")
  /\ UNCHANGED << ringVars, op >>

\* Faulty: the end is not wrapped at the last slot but one before it.
StoreShort(c) ==
  /\ At(c, "store")
  /\ ring' = [ring EXCEPT ![end] = op[c]]
  /\ end' = (end + 1) % (Size - 1)
  /\ Goto(c, "count")
  /\ UNCHANGED << index, start, lock, op >>

Store(c) ==
  /\ At(c, "store")
  /\ ring' = [ring EXCEPT ![end] = op[c]]
  /\ end' = (end + 1) % Size
  /\ Goto(c, "count")
  /\ UNCHANGED << index, start, lock, op >>

Count(c) ==
  /\ At(c, "count")
  /\ index' = index + 1
  /\ Goto(c, "release")
  /\ UNCHANGED << ring, start, end, lock, op >>

\* The lock is released unless the ring is now full.
Release(c) ==
  /\ At(c, "release")
  /\ lock' = IF index < Size THEN FALSE ELSE lock
  /\ Return(c)
  /\ UNCHANGED ringVars
-----------------------------------------------------------------------------
(***************************************************************************)
(* winsys_listener: poll, dequeue, perform.                                *)
(***************************************************************************)
\* Faulty: waits for a second operation.
PollTwo ==
  /\ At(Server, "poll") /\ index > 1
  /\ Goto(Server, "choose")
  /\ UNCHANGED << ringVars, lock, op >>

Poll ==
  /\ At(Server, "poll") /\ index # 0
  /\ Goto(Server, "choose")
  /\ UNCHANGED << ringVars, lock, op >>

Choose ==
  /\ At(Server, "choose")
  /\ Goto(Server, IF index < Size THEN "lock" ELSE "take")
  /\ UNCHANGED << ringVars, lock, op >>

DequeueAcquire ==
  /\ At(Server, "lock")
  /\ Acquire(Server, "take")
  /\ UNCHANGED << ringVars, op >>

Take ==
  /\ At(Server, "take")
  /\ op' = [op EXCEPT ![Server] = ring[start]]
  /\ start' = (start + 1) % Size
  /\ Goto(Server, "drop")
  /\ UNCHANGED << ring, index, end, lock >>

\* Faulty: counts one operation down twice.
DropTwice ==
  /\ At(Server, "drop")
  /\ index' = index - 2
  /\ Goto(Server, "free")
  /\ UNCHANGED << ring, start, end, lock, op >>

Drop ==
  /\ At(Server, "drop")
  /\ index' = index - 1
  /\ Goto(Server, "free")
  /\ UNCHANGED << ring, start, end, lock, op >>

Free ==
  /\ At(Server, "free")
  /\ lock' = FALSE
  /\ Goto(Server, "perform")
  /\ UNCHANGED << ringVars, op >>

Perform ==
  /\ At(Server, "perform")
  /\ op' = [op EXCEPT ![Server] = NoOp]
  /\ Goto(Server, "poll")
  /\ UNCHANGED << ringVars, lock >>

Enqueue(c) == Check(c) \/ EnqueueAcquire(c) \/ Store(c) \/ Count(c) \/ Release(c)
Listen     == Poll \/ Choose \/ DequeueAcquire \/ Take \/ Drop \/ Free \/ Perform

Handle(h) == Enqueue(h) \/ Event(h) \/ Woken(h)

Next ==
  \/ \E o \in Op : \/ \E p \in Producer : Call(p, o)
                   \/ \E h \in Handler : Interrupt(h, o)
  \/ \E h \in Handler : InterruptMove(h) \/ Handle(h)
  \/ \E p \in Producer : Enqueue(<< p, 0 >>)
  \/ Listen

Spec == Init /\ [][Next]_vars

(***************************************************************************)
(* Fairness: the scheduler runs every thread again and again, and with it  *)
(* the handlers on top of it; interrupts may come, but no assumption says  *)
(* that they do.  Strong, because an interrupt stops a thread for a while  *)
(* and because the lock may be taken whenever a spinning thread looks.     *)
(***************************************************************************)
Fairness ==
  /\ \A p \in Producer : SF_vars(Enqueue(<< p, 0 >>))
  /\ \A h \in Handler : SF_vars(Handle(h))
  /\ SF_vars(Listen)

FairSpec == Spec /\ Fairness
-----------------------------------------------------------------------------
(***************************************************************************)
(* Properties.                                                             *)
(***************************************************************************)

\* The type invariant: the shape of the ring, its indices and the contexts.
TypeOK ==
  /\ ring \in [0 .. Size - 1 -> Op \cup {NoOp}]
  /\ index \in 0 .. Size
  /\ start \in 0 .. Size - 1 /\ end \in 0 .. Size - 1
  /\ lock \in BOOLEAN
  /\ pc \in [Context -> Stage]
  /\ op \in [Context -> Op \cup {NoOp}]

Holding == {"store", "count", "release", "take", "drop", "free"}

(***************************************************************************)
(* As long as the ring never fills, the lock excludes: it is taken exactly *)
(* while one context is between its acquire and its release                *)
(* (window_sys.c:197-208, :228-235), although the listener may skip the    *)
(* acquire and a producer may skip the release.                            *)
(***************************************************************************)
OneHolder ==
  /\ lock <=> \E c \in Context : pc[c] \in Holding
  /\ \A c, d \in Context : pc[c] \in Holding /\ pc[d] \in Holding => c = d

(***************************************************************************)
(* A mouse handler never spins for a lock that a context below it holds:   *)
(* that context cannot release it before the handler returns.  It is       *)
(* what the early return of window_sys.c:222-226 is for ("we can't         *)
(* schedule while handling an isr... so just discard this event").         *)
(***************************************************************************)
Below(h) == {c \in Context : c[1] = h[1] /\ c[2] < h[2]}

NeverSelfSpin ==
  \A h \in Handler : pc[h] = "acquire" => \A c \in Below(h) : pc[c] \notin Holding

(***************************************************************************)
(* On the window system's own thread the early return keeps the handler    *)
(* from it, except for a handler that came during the wake-up of another:  *)
(* with _currentTask 0 nothing tells it whose thread it interrupted        *)
(* (scheduler.c:24-26, :158-161).                                          *)
(***************************************************************************)
SelfSpinsInWakeUp ==
  \A h \in Handler : pc[h] = "acquire" /\ (\A c \in Below(h) : pc[c] # "wake")
                       => \A c \in Below(h) : pc[c] \notin Holding

(***************************************************************************)
(* The ring implements the queue of OperationQueue: an operation counts as *)
(* enqueued when the index says so (window_sys.c:232), and as dequeued     *)
(* when the start has moved past it (:202).                                *)
(***************************************************************************)
Contents ==
  LET n == IF pc[Server] = "drop" THEN index - 1 ELSE index
  IN  [i \in 1 .. n |-> ring[(start + i - 1) % Size]]

Queue == INSTANCE OperationQueue WITH pending <- Contents, performing <- op[Server]

RefinesQueue == Queue!Spec

(***************************************************************************)
(* Every operation in the ring is performed in the end: neither producers, *)
(* listener nor mouse handler spins for ever (window_sys.c:185-188),       *)
(* unless a handler comes to spin for the lock while another's wake-up has *)
(* disabled scheduling: then nobody can release it.                        *)
(***************************************************************************)
Stuck ==
  lock /\ Unscheduled /\ \E h \in Handler : pc[h] = "acquire" /\ Runs(h)

OperationsPerformed ==
  \A o \in Op : (\E i \in DOMAIN Contents : Contents[i] = o) ~> (op[Server] = o \/ Stuck)
=============================================================================
