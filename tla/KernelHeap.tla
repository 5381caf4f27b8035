----------------------------- MODULE KernelHeap -----------------------------
(***************************************************************************)
(* The kernel heap (kernel/heap.c): a bitmap of blocks, a counter of the   *)
(* blocks in use and, in front of every allocation, its number of blocks.  *)
(* A bitmap is the set of its bits that are 1.                             *)
(*                                                                         *)
(* There is no lock.  Callers may be preempted between any two steps; with *)
(* one caller nothing comes between.                                       *)
(***************************************************************************)
EXTENDS Integers, FiniteSets

CONSTANTS
  Blocks,      \* blocks of the arena: _alloc_max_blocks
  WordBits,    \* bits of a word of the bitmap: 32
  Caller,      \* threads that use the heap
  Size,        \* the sizes they ask for, in bytes
  BlockSize,   \* HEAP_BLOCK_SIZE
  DescSize     \* BLOCK_AMT_DESC_SIZE

ASSUME HeapAssumption ==
  /\ Blocks \in Nat \ {0}
  /\ WordBits \in Nat \ {0} /\ Blocks % WordBits = 0
  /\ Size \subseteq Nat
  /\ BlockSize \in Nat \ {0} /\ DescSize \in Nat \ {0}

VARIABLES
  map,      \* _alloc_memory_map
  used,     \* _alloc_used_blocks
  header,   \* the length word in front of an allocation, by its first block; 0 elsewhere
  pc,       \* where a caller is in kmalloc
  want,     \* the number of blocks it asks for
  scan      \* its search: the next bit, the length of the current run and its first block

vars == << map, used, header, pc, want, scan >>

Block == 0 .. Blocks - 1

\* n blocks from block b on.
Extent(b, n) == b .. b + n - 1

\* The first blocks of the allocations not yet freed.
live == {b \in Block : header[b] # 0}

NoScan == [at |-> 0, len |-> 0, first |-> 0]

Init ==
  /\ map = {} /\ used = 0
  /\ header = [b \in Block |-> 0]
  /\ pc = [c \in Caller |-> "idle"]
  /\ want = [c \in Caller |-> 0]
  /\ scan = [c \in Caller |-> NoScan]
-----------------------------------------------------------------------------
\* The length word and the size, rounded up to whole blocks.
BlockAmt(size) ==
  LET bytes == size + DescSize
      rest  == bytes % BlockSize
  IN  (IF rest = 0 THEN bytes ELSE bytes + BlockSize - rest) \div BlockSize

Kmalloc(c, size) ==
  /\ pc[c] = "idle"
  /\ want' = [want EXCEPT ![c] = BlockAmt(size)]
  /\ pc' = [pc EXCEPT ![c] = "check"]
  /\ UNCHANGED << map, used, header, scan >>

\* kmalloc returns: null, or the address behind the length word.
Done(c) ==
  /\ pc' = [pc EXCEPT ![c] = "idle"]
  /\ want' = [want EXCEPT ![c] = 0]
  /\ scan' = [scan EXCEPT ![c] = NoScan]

\* Out of memory: by the counter, or after the last word of the map.
Fail(c) ==
  /\ \/ pc[c] = "check" /\ used >= Blocks
     \/ pc[c] = "scan" /\ scan[c].at >= Blocks
  /\ Done(c)
  /\ UNCHANGED << map, used, header >>

Check(c) ==
  /\ pc[c] = "check" /\ used < Blocks
  /\ pc' = [pc EXCEPT ![c] = "scan"]
  /\ UNCHANGED << map, used, header, want, scan >>

\* The scan is at the start of a word with all bits set.
AtFullWord(c) ==
  /\ scan[c].at % WordBits = 0
  /\ Extent(scan[c].at, WordBits) \subseteq map

\* Faulty: the run before a full word is continued behind it.
SkipWordAcross(c) ==
  /\ pc[c] = "scan" /\ scan[c].at < Blocks
  /\ AtFullWord(c)
  /\ scan' = [scan EXCEPT ![c].at = @ + WordBits]
  /\ UNCHANGED << map, used, header, pc, want >>

\* A full word is not looked into; it ends the run.
SkipWord(c) ==
  /\ pc[c] = "scan" /\ scan[c].at < Blocks
  /\ AtFullWord(c)
  /\ scan' = [scan EXCEPT ![c] =
                [at |-> @.at + WordBits, len |-> 0, first |-> @.first]]
  /\ UNCHANGED << map, used, header, pc, want >>

TestSet(c) ==
  /\ pc[c] = "scan" /\ scan[c].at < Blocks
  /\ ~ AtFullWord(c)
  /\ scan[c].at \in map
  /\ scan' = [scan EXCEPT ![c] = [at |-> @.at + 1, len |-> 0, first |-> @.first]]
  /\ UNCHANGED << map, used, header, pc, want >>

TestFree(c) ==
  /\ pc[c] = "scan" /\ scan[c].at < Blocks
  /\ scan[c].at \notin map
  /\ scan' = [scan EXCEPT ![c] =
                [at    |-> @.at + 1,
                 len   |-> @.len + 1,
                 first |-> IF @.len = 0 THEN @.at ELSE @.first]]
  /\ pc' = [pc EXCEPT ![c] = IF scan[c].len + 1 = want[c] THEN "mark" ELSE "scan"]
  /\ UNCHANGED << map, used, header, want >>

\* Faulty: the last block is not marked.
MarkShort(c) ==
  /\ pc[c] = "mark"
  /\ map' = map \cup Extent(scan[c].first, want[c] - 1)
  /\ used' = used + want[c]
  /\ pc' = [pc EXCEPT ![c] = "head"]
  /\ UNCHANGED << header, want, scan >>

Mark(c) ==
  /\ pc[c] = "mark"
  /\ map' = map \cup Extent(scan[c].first, want[c])
  /\ used' = used + want[c]
  /\ pc' = [pc EXCEPT ![c] = "head"]
  /\ UNCHANGED << header, want, scan >>

WriteHeader(c) ==
  /\ pc[c] = "head"
  /\ header' = [header EXCEPT ![scan[c].first] = want[c]]
  /\ Done(c)
  /\ UNCHANGED << map, used >>

\* Faulty: the length word is taken for one more block than it says.
KfreeMore(c, b) ==
  /\ pc[c] = "idle" /\ b \in live
  /\ map' = map \ Extent(b, header[b] + 1)
  /\ used' = used - header[b] - 1
  /\ header' = [header EXCEPT ![b] = 0]
  /\ UNCHANGED << pc, want, scan >>

\* Faulty: counts one block whatever the length.
KfreeCountsOne(c, b) ==
  /\ pc[c] = "idle" /\ b \in live
  /\ map' = map \ Extent(b, header[b])
  /\ used' = used - 1
  /\ header' = [header EXCEPT ![b] = 0]
  /\ UNCHANGED << pc, want, scan >>

\* kfree, of an allocation not yet freed.
Kfree(c, b) ==
  /\ pc[c] = "idle" /\ b \in live
  /\ map' = map \ Extent(b, header[b])
  /\ used' = used - header[b]
  /\ header' = [header EXCEPT ![b] = 0]
  /\ UNCHANGED << pc, want, scan >>

Next ==
  \E c \in Caller :
    \/ \E size \in Size : Kmalloc(c, size)
    \/ Fail(c) \/ Check(c) \/ SkipWord(c) \/ TestSet(c) \/ TestFree(c)
    \/ Mark(c) \/ WriteHeader(c)
    \/ \E b \in Block : Kfree(c, b)

Spec == Init /\ [][Next]_vars
-----------------------------------------------------------------------------
(***************************************************************************)
(* Properties.                                                             *)
(***************************************************************************)

\* The type invariant: bits, counts and blocks are those of the arena.
TypeOK ==
  /\ map \subseteq Block
  /\ used \in 0 .. Blocks
  /\ header \in [Block -> 0 .. Blocks]
  /\ pc \in [Caller -> {"idle", "check", "scan", "mark", "head"}]
  /\ want \in [Caller -> Nat]
  /\ scan \in [Caller -> [at : 0 .. Blocks, len : 0 .. Blocks, first : Block]]

Area(b) == Extent(b, header[b])

(***************************************************************************)
(* What kmalloc has given out lies in marked blocks, no two allocations    *)
(* share a block, and when no call is under way every marked block belongs *)
(* to one: nothing is lost however often blocks are split and freed        *)
(* (heap.c:170-213).                                                       *)
(***************************************************************************)
Disjoint ==
  /\ \A b \in live : Area(b) \subseteq map
  /\ \A a, b \in live : a # b => Area(a) \cap Area(b) = {}
  /\ (\A c \in Caller : pc[c] = "idle") => map \subseteq UNION {Area(b) : b \in live}

(***************************************************************************)
(* "number of blocks currently in use" (heap.c:6): the counter is the      *)
(* number of bits set in the map.                                          *)
(***************************************************************************)
CounterAgrees == used = Cardinality(map)

(***************************************************************************)
(* The heap implements the allocator: an area is given out when its length *)
(* is written, and kmalloc returns null only when no gap is large enough,  *)
(* although the search skips full words (heap.c:97-133).                   *)
(***************************************************************************)
Memory == INSTANCE Allocator WITH
  given   <- {[at |-> b, size |-> header[b]] : b \in live},
  request <- [c \in Caller |-> IF pc[c] = "idle" THEN 0 ELSE want[c]]

ImplementsAllocator == Memory!Spec
=============================================================================
