----------------------------- MODULE MCStorage -----------------------------
(***************************************************************************)
(* The file systems, the layers above and below them and the text editor,  *)
(* on one instance each.  They share no state, so a behaviour runs one of  *)
(* them, chosen at the start (part), and leaves the others as they are.    *)
(***************************************************************************)
EXTENDS Fat12, TmpFs, Vfs, TextEditor

VARIABLE part

MCDosName == ("f" :> "F") @@ ("F" :> "F") @@ ("g" :> "G") @@ ("a long name" :> "refused")
MCFilesOf == ("p" :> {[dev |-> "a", lba |-> 1]})
             @@ ("q" :> {[dev |-> "a", lba |-> 2], [dev |-> "t", lba |-> 0]})
MCTexts == { << <<"a", CR, LF>>, <<"b", "c", "d", "e", "f", CR, LF>>, <<"g">> >> }

vars == <<fatVars, tmpVars, vfsVars, edVars, part>>

Init ==
    /\ FatInit /\ TmpInit /\ VfsInit /\ EdInit
    /\ part \in {"fat", "tmp", "vfs", "editor"}

Next ==
    \/ part = "fat" /\ FatNext /\ UNCHANGED <<tmpVars, vfsVars, edVars, part>>
    \/ part = "tmp" /\ TmpNext /\ UNCHANGED <<fatVars, vfsVars, edVars, part>>
    \/ part = "vfs" /\ VfsNext /\ UNCHANGED <<fatVars, tmpVars, edVars, part>>
    \/ part = "editor" /\ EdNext /\ UNCHANGED <<fatVars, tmpVars, vfsVars, part>>

Spec == Init /\ [][Next]_vars /\ (part = "vfs" => VfsFairness)

(* The type invariants of the file systems, the descriptors, the floppy    *)
(* driver and the editor.                                                  *)
StorageTypeOK == FatTypeOK /\ TmpTypeOK /\ VfsTypeOK /\ EdTypeOK
=============================================================================
