-------------------------------- MODULE Vfs --------------------------------
(***************************************************************************)
(* Files as programs see them: descriptors (kernel/process.c), the switch  *)
(* over the file systems with its locks (kernel/vfs.c), and below it the   *)
(* floppy.  Each thread is a process of its own.                           *)
(*                                                                         *)
(* volOpenFile, volReadFile and volWriteFile hold a lock of their own      *)
(* while the file system works; volCreateFile, volOpenDir and volCloseFile *)
(* hold none.  vfsHeld, the file each descriptor was returned for, is not  *)
(* in the code.                                                            *)
(***************************************************************************)
EXTENDS Floppy

CONSTANTS
    FilesOf,         \* [Caller -> the files it uses]; a file is [dev, lba], the
                     \* device letter of its path and its sector
    FloppyDevice,    \* letter of the floppy, 'a'
    Registered,      \* letters file systems are registered for, 'a' and 't'
    VfsMaxCalls

\* What is on the floppy is in its sectors.
ASSUME VfsAssumption ==
    \A c \in Caller : \A f \in FilesOf[c] : f.dev = FloppyDevice => f.lba \in Lba

VARIABLES
    vfsLock,         \* [Locked -> BOOLEAN]: the static spinlocks
    vfsFds,          \* [Caller -> process's file_descs]
    vfsHeld,         \* [Caller -> [descriptors it was given -> File]]
    vfsCalls

vfsVars == <<flVars, vfsLock, vfsFds, vfsHeld, vfsCalls>>
Locked  == {"open", "read", "write"}

VfsInit ==
    /\ FlInit
    /\ vfsLock = [e \in Locked |-> FALSE]
    /\ vfsFds = [c \in Caller |-> <<>>]
    /\ vfsHeld = [c \in Caller |-> <<>>]
    /\ vfsCalls = 0

(* What a call does in the file system: nothing in the one in memory, the  *)
(* floppy's conversation otherwise.                                        *)
Begin(c, e, f) == [at |-> IF f.dev = FloppyDevice THEN "motor" ELSE "memory",
                   entry |-> e, lba |-> f.lba, dir |-> "read", tries |-> 0,
                   buffer |-> TRUE, failed |-> FALSE, value |-> NotKnown, file |-> f]

Inside(c) == flCall[c].at \in InDriver

Enter(c, call) ==
    /\ flCall' = [flCall EXCEPT ![c] = call]
    /\ flMixed' = \/ flMixed
                  \/ /\ call.at = "motor"
                     /\ \E d \in Caller \ {c} :
                          Inside(d) /\ (call.entry \notin Locked \/ flCall[d].entry # call.entry)

VfsCalled == vfsCalls < VfsMaxCalls /\ vfsCalls' = vfsCalls + 1

\* Of the places, the first that has the descriptor.
FirstWith(fds, places, fd) ==
    {i \in places : fds[i].fd = fd /\ \A j \in places : fds[j].fd = fd => i <= j}

get_file_by_fd(fds, fd) == {fds[i].file : i \in FirstWith(fds, 1 .. Len(fds), fd)}

(* The call of an entry for a file, with the value to write.  A path whose *)
(* device has no file system, and a descriptor that is not open, end it at *)
(* once.                                                                   *)
Call(c, e, f, v) ==
    /\ VfsCalled
    /\ flCall[c] = Outside
    /\ f.dev \in Registered
    /\ IF e \in Locked
       THEN /\ flCall' = [flCall EXCEPT ![c] = [Begin(c, e, f) EXCEPT !.at = "lock", !.value = v]]
            /\ UNCHANGED flMixed
       ELSE Enter(c, [Begin(c, e, f) EXCEPT !.value = v])
    /\ UNCHANGED <<flpydsk_irq_finished, floppy_dmabuf, flMotor, flFdc, flDisk, flText,
                   vfsLock, vfsFds, vfsHeld>>

volOpenFile(c, f)     == Call(c, "open", f, NotKnown)
volCreateFile(c, f)   == \E v \in Written : Call(c, "create", f, v)
fread(c, fd)          == \E f \in get_file_by_fd(vfsFds[c], fd) : Call(c, "read", f, NotKnown)
fwrite(c, fd)         == \E f \in get_file_by_fd(vfsFds[c], fd), v \in Written :
                           Call(c, "write", f, v)

acquireLock(c) ==
    /\ flCall[c].at = "lock" /\ ~vfsLock[flCall[c].entry]
    /\ vfsLock' = [vfsLock EXCEPT ![flCall[c].entry] = TRUE]
    /\ Enter(c, [flCall[c] EXCEPT !.at = Begin(c, @, flCall[c].file).at])
    /\ UNCHANGED <<flpydsk_irq_finished, floppy_dmabuf, flMotor, flFdc, flDisk, flText,
                   vfsFds, vfsHeld, vfsCalls>>

\* One more than every descriptor in the list.
FreeFd(fds, lowest) ==
    CHOOSE n \in {lowest} \cup {fds[i].fd + 1 : i \in 1 .. Len(fds)} :
        \A i \in 1 .. Len(fds) : fds[i].fd < n

\* Mutant: descriptors start at 0, which is fopen's error.
append_fd_from_zero(fds, f) == Append(fds, [fd |-> FreeFd(fds, 0), file |-> f])

append_fd_to_process(fds, f) == Append(fds, [fd |-> FreeFd(fds, 1), file |-> f])

\* Mutant: the lock of a call that failed is kept.
releaseLockOfSuccess(call) ==
    [e \in Locked |-> vfsLock[e] /\ (e # call.entry \/ call.failed)]

releaseLock(call) == [e \in Locked |-> vfsLock[e] /\ e # call.entry]

\* The descriptor leads to f from now on.
Holding(held, fd, f) == [d \in DOMAIN held \cup {fd} |-> IF d = fd THEN f ELSE held[d]]

(* The file system returns: the lock is released, and a file that was      *)
(* opened (a path may lead nowhere) gets a descriptor.                     *)
Return(c) ==
    LET call  == flCall[c]
        done  == \/ call.at = "memory"
                 \/ call.at = "back" /\ (call.value = NotKnown \/ call.dir = "write")
    IN  /\ done
        /\ flCall' = [flCall EXCEPT ![c] = Outside]
        /\ vfsLock' = releaseLock(call)
        /\ flText' = IF call.dir = "read" THEN flText
                     ELSE [flText EXCEPT ![call.lba] =
                             IF call.failed THEN NotKnown ELSE call.value]
        /\ \E found \in (IF call.entry = "open" THEN BOOLEAN ELSE {FALSE}) :
             /\ vfsFds' = IF found THEN [vfsFds EXCEPT ![c] = append_fd_to_process(@, call.file)]
                          ELSE vfsFds
             /\ vfsHeld' = IF found THEN [vfsHeld EXCEPT ![c] = Holding(@, Last(vfsFds'[c]).fd, call.file)]
                           ELSE vfsHeld
    /\ UNCHANGED <<flpydsk_irq_finished, floppy_dmabuf, flMotor, flFdc, flDisk, flMixed, vfsCalls>>

\* Mutant: the descriptor behind the one sought is closed.
close_fdBehind(fds, fd) ==
    LET i == FirstWith(fds, 1 .. Len(fds), fd)
    IN  IF i = {} \/ (Len(fds) \in i /\ Len(fds) > 1) THEN fds
        ELSE IF Len(fds) = 1 THEN <<>> ELSE RemoveAt(fds, 1 + CHOOSE k \in i : TRUE)

(* close_fd looks behind the first descriptor, unless it is alone: the     *)
(* first of several stays.                                                 *)
close_fd(fds, fd) ==
    LET i == FirstWith(fds, IF Len(fds) = 1 THEN {1} ELSE 2 .. Len(fds), fd)
    IN  IF i = {} THEN fds ELSE RemoveAt(fds, CHOOSE k \in i : TRUE)

fclose(c, fd) ==
    /\ flCall[c] = Outside
    /\ fd \in DOMAIN vfsHeld[c]              \* programs close what they have opened
    /\ vfsFds' = [vfsFds EXCEPT ![c] = close_fd(@, fd)]
    /\ vfsHeld' = [vfsHeld EXCEPT ![c] = [d \in DOMAIN @ \ {fd} |-> @[d]]]
    /\ UNCHANGED <<flVars, vfsLock, vfsCalls>>

\* terminateProcessById closes every file; the process is replaced by a new one.
Terminate(c) ==
    /\ flCall[c] = Outside /\ vfsFds[c] # <<>>
    /\ vfsFds' = [vfsFds EXCEPT ![c] = <<>>]
    /\ vfsHeld' = [vfsHeld EXCEPT ![c] = <<>>]
    /\ UNCHANGED <<flVars, vfsLock, vfsCalls>>

Fd == 1 .. VfsMaxCalls

Driver(c) == FlStep(c) /\ UNCHANGED <<vfsLock, vfsFds, vfsHeld, vfsCalls>>
Works == Controller /\ UNCHANGED <<vfsLock, vfsFds, vfsHeld, vfsCalls>>

(* Two calls in the driver at once send the bytes of their commands in any *)
(* mixture, and what a controller makes of them is its own: the model      *)
(* stops there.                                                            *)
VfsNext ==
    /\ ~flMixed
    /\ \/ \E c \in Caller :
            \/ \E f \in FilesOf[c] : volOpenFile(c, f) \/ volCreateFile(c, f)
            \/ \E fd \in Fd : fread(c, fd) \/ fwrite(c, fd) \/ fclose(c, fd)
            \/ acquireLock(c) \/ Return(c) \/ Terminate(c) \/ Driver(c)
       \/ Works

(* The scheduler comes back to every thread, and the controller ends what  *)
(* it has begun.                                                           *)
VfsFairness ==
    /\ \A c \in Caller : WF_vfsVars(acquireLock(c) \/ Return(c) \/ Driver(c))
    /\ WF_vfsVars(Works)

VfsSpec == VfsInit /\ [][VfsNext]_vfsVars /\ VfsFairness
-----------------------------------------------------------------------------
(* The type invariant of the driver and the descriptors.                   *)
VfsTypeOK ==
    /\ flpydsk_irq_finished \in BOOLEAN /\ flMotor \in BOOLEAN /\ flMixed \in BOOLEAN
    /\ floppy_dmabuf \in Lba \cup Written \cup {Junk}
    /\ flFdc.busy \in {"no", "seek", "transfer", "result"}
    /\ flDisk \in [Lba -> Lba \cup Written \cup {Junk}]
    /\ \A c \in Caller : flCall[c].at \in InDriver \cup {"outside", "lock", "memory"}
    /\ vfsLock \in [Locked -> BOOLEAN]
    /\ \A c \in Caller : \A i \in DOMAIN vfsFds[c] :
         vfsFds[c][i].fd \in Nat \ {0} /\ vfsFds[c][i].file \in FilesOf[c]

(* As long as no two calls of different kinds have been in the driver at   *)
(* once: a read that did not fail leaves in the buffer what was last       *)
(* written to its sector, until its caller has used it; and when nobody is *)
(* in the driver every sector holds what was last written to it, through   *)
(* retried seeks and transfers and through other calls that failed.        *)
FloppyDelivers ==
    ~flMixed =>
      /\ \A c \in Caller :
           (/\ Inside(c) /\ flCall[c].at = "back"
            /\ flCall[c].dir = "read" /\ ~flCall[c].failed) =>
             flText[flCall[c].lba] \in {floppy_dmabuf, NotKnown}
      /\ (\A c \in Caller : ~Inside(c)) =>
           \A l \in Lba : flText[l] \in {flDisk[l], NotKnown}

(* As long as no two calls of different kinds have been in the driver at   *)
(* once, every call comes back: no interrupt is lost or waited for twice,  *)
(* and no lock is kept.                                                    *)
FloppyReturns == \A c \in Caller :
    flCall[c] # Outside ~> (flCall[c] = Outside \/ flMixed)

(* A descriptor leads to the file it was returned for until its program    *)
(* closes it, whichever others are closed and opened in between; no        *)
(* descriptor is returned twice.                                           *)
FdsKept == \A c \in Caller :
    /\ \A fd \in DOMAIN vfsHeld[c] : get_file_by_fd(vfsFds[c], fd) = {vfsHeld[c][fd]}
    /\ \A i, j \in DOMAIN vfsFds[c] : i # j => vfsFds[c][i].fd # vfsFds[c][j].fd
=============================================================================
