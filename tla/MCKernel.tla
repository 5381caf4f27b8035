------------------------------ MODULE MCKernel ------------------------------
(***************************************************************************)
(* The kernel's heap with one caller, the frames and address spaces of     *)
(* two programs, and the events of a window.  They share no state, so a    *)
(* behaviour runs one of them, chosen at the start (part), and leaves the  *)
(* others as they are.                                                     *)
(***************************************************************************)
EXTENDS KernelHeap, AddressSpaces, EventRing

CONSTANT shell

VARIABLE part

\* The first megabyte, whose upper part is reserved, and the rest; then the
\* kernel and the first megabyte again.
MCAvailable == << [base |-> 0, len |-> 3], [base |-> 8, len |-> 52] >>
MCSpecial   == << [base |-> 8, len |-> 4], [base |-> 0, len |-> 8] >>

Section(va, raw, bss, virtual) == [va |-> va, raw |-> raw, bss |-> bss, virtual |-> virtual]

\* The sections start after the page of the headers: one of a page and a
\* half and cleared data of less than a page, and one of less than a page.
MCImages == { [base |-> 32, size |-> 15,
               sections |-> << Section(4, 6, FALSE, 6), Section(12, 0, TRUE, 3) >>],
              [base |-> 32, size |-> 7, sections |-> << Section(4, 3, FALSE, 3) >>] }

KernelInit == Init /\ SpaceInit /\ EvInit /\ part \in {"heap", "spaces", "events"}

KernelNext ==
    \/ part = "heap" /\ Next /\ UNCHANGED <<spaceVars, evVars, part>>
    \/ part = "spaces" /\ SpaceNext /\ UNCHANGED <<vars, evVars, part>>
    \/ part = "events" /\ EvNext /\ UNCHANGED <<vars, spaceVars, part>>

KernelSpec ==
    /\ KernelInit /\ [][KernelNext]_<<vars, spaceVars, evVars, part>>
    /\ part = "events" => EvFairness
=============================================================================
