----------------------------- MODULE Allocator -----------------------------
(***************************************************************************)
(* What an allocator of blocks promises: what it gives out lies in the     *)
(* arena and overlaps nothing given out before and not returned; it        *)
(* refuses a request only when no gap is large enough.                     *)
(***************************************************************************)
EXTENDS Integers

CONSTANTS Blocks, Caller

VARIABLES given,     \* the areas given out: first block and number of blocks
          request    \* the number of blocks each caller waits for, or 0

vars == << given, request >>

Cells(a) == a.at .. a.at + a.size - 1
Taken    == UNION {Cells(a) : a \in given}
Gap(n)   == {b \in 0 .. Blocks - 1 : /\ b + n <= Blocks
                                     /\ \A i \in b .. b + n - 1 : i \notin Taken}

Init == given = {} /\ request = [c \in Caller |-> 0]

Ask(c) ==
  /\ request[c] = 0
  /\ request' = [request EXCEPT ![c] = request'[c]]
  /\ request'[c] \in Nat \ {0}
  /\ UNCHANGED given

Grant(c) ==
  /\ request[c] # 0
  /\ \E b \in Gap(request[c]) :
       given' = given \cup {[at |-> b, size |-> request[c]]}
  /\ request' = [request EXCEPT ![c] = 0]

Refuse(c) ==
  /\ request[c] # 0 /\ Gap(request[c]) = {}
  /\ request' = [request EXCEPT ![c] = 0]
  /\ UNCHANGED given

Return ==
  /\ \E a \in given : given' = given \ {a}
  /\ UNCHANGED request

Next == Return \/ \E c \in Caller : Ask(c) \/ Grant(c) \/ Refuse(c)

Spec == Init /\ [][Next]_vars
=============================================================================
