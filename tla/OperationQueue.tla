--------------------------- MODULE OperationQueue ---------------------------
(***************************************************************************)
(* What the window system's ring of operations promises: operations are    *)
(* performed one at a time, each once, in the order in which they were     *)
(* enqueued.                                                               *)
(***************************************************************************)
EXTENDS Naturals, Sequences

CONSTANTS Op,    \* the operations: display, move, focus, remove
          NoOp

VARIABLES pending,     \* the operations enqueued and not yet taken
          performing   \* the operation winsys_listener is performing

vars == << pending, performing >>

Init == pending = << >> /\ performing = NoOp

Enqueue(op) ==
  /\ pending' = Append(pending, op)
  /\ UNCHANGED performing

Dequeue ==
  /\ pending # << >> /\ performing = NoOp
  /\ performing' = Head(pending)
  /\ pending' = Tail(pending)

Finish ==
  /\ performing # NoOp
  /\ performing' = NoOp
  /\ UNCHANGED pending

Next == (\E op \in Op : Enqueue(op)) \/ Dequeue \/ Finish

Spec == Init /\ [][Next]_vars
=============================================================================
