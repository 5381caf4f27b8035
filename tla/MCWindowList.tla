---------------------------- MODULE MCWindowList ----------------------------
(***************************************************************************)
(* Instances of WindowList for TLC: the desktop's window and two more, one *)
(* or two programs and the mouse.  The two windows, and the two programs,  *)
(* are interchangeable.                                                    *)
(***************************************************************************)
EXTENDS WindowList, TLC

CONSTANTS desktop, winA, winB, progA, progB, kernel, mouse

Symmetry == Permutations({winA, winB}) \cup Permutations({progA, progB})
=============================================================================
