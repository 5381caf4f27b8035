------------------------------ MODULE PhysMem ------------------------------
(***************************************************************************)
(* The physical memory manager (kernel/pmm.c): a bitmap of frames and a    *)
(* counter of those in use.  The operators take the manager's state, a     *)
(* record of both, and return the new one.  There is no lock; the callers  *)
(* modelled here come one at a time.                                       *)
(***************************************************************************)
EXTENDS Integers, FiniteSets, Sequences, SequencesExt

CONSTANT FrameCount        \* _mmngr_max_blocks

ASSUME PhysMemAssumption == FrameCount \in Nat \ {0}

Frame == 0 .. FrameCount - 1

\* pmmngr_init: everything is in use.
pmmngr_init == [map |-> Frame, used |-> FrameCount]

\* A region is its first frame and its length.  Frame 0 is set again, and
\* that is not counted.
pmmngr_init_region(m, region) ==
    IF region.base >= FrameCount THEN m
    ELSE [map  |-> (m.map \ (region.base .. region.base + region.len - 1)) \cup {0},
          used |-> m.used - region.len]

\* What is in use already is counted again.
pmmngr_deinit_region(m, region) ==
    IF region.base >= FrameCount THEN m
    ELSE [map  |-> m.map \cup (region.base .. region.base + region.len - 1),
          used |-> m.used + region.len]

\* kmain: what the boot loader reports as available, without what the
\* kernel lies in.
Boot(available, special) ==
    FoldLeft(pmmngr_deinit_region, FoldLeft(pmmngr_init_region, pmmngr_init, available),
             special)

\* mmap_first_free: the lowest frame, looking at whole words first.
mmap_first_free(m) ==
    IF m.map = Frame THEN -1 ELSE CHOOSE f \in Frame \ m.map : \A g \in Frame \ m.map : f <= g

\* The frame and the state after it; 0 for none.
Taken(m, frame) ==
    IF frame = -1 THEN [frame |-> 0, mem |-> m]
    ELSE [frame |-> frame, mem |-> [map |-> m.map \cup {frame}, used |-> m.used + 1]]

pmmngr_alloc_block(m) ==
    IF FrameCount - m.used <= 0 THEN [frame |-> 0, mem |-> m] ELSE Taken(m, mmap_first_free(m))

\* Once for each of n frames; one that two pages have is counted twice.
pmmngr_free_block(m, frames, n) == [map |-> m.map \ frames, used |-> m.used - n]

\* pmmngr_alloc_block finds a frame.
Left(m) == FrameCount - m.used > 0 /\ m.map # Frame
=============================================================================
