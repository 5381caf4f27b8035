------------------------------- MODULE Fat12 -------------------------------
(***************************************************************************)
(* The FAT12 file system on the floppy (drivers/fat12fsys.c), one caller   *)
(* at a time.                                                              *)
(*                                                                         *)
(* The disk is a file allocation table, the root directory and the data    *)
(* clusters.  The code reads whole sectors, changes them in memory and     *)
(* writes them back: an operation is the sequence of sector writes it      *)
(* issues.  An entry of the table is written with two sectors of it; the   *)
(* writes count as two where the entry lies in both.  A call of the model  *)
(* computes the sequence (fatPending) and the handle it leaves;            *)
(* FatSectorWritten carries the writes out one by one, and the machine may *)
(* be switched off between any two of them.  What survives is the disk.    *)
(*                                                                         *)
(* fatBusy, fatText, fatAt, fatBehind and fatRead are not in the code:     *)
(* they record the file a call is about, what has been written to each     *)
(* file, how far the open handle has come in it, the files written by a    *)
(* handle that had read from them, and what the last read returned.        *)
(***************************************************************************)
EXTENDS Integers, FiniteSets, Sequences, SequencesExt, TLC

CONSTANTS
    FileName,        \* names as programs give them
    DosName,         \* ToDosFileName: [FileName -> the 8.3 name, or Refused]
    Refused,         \* the value for a name that is too long
    LastCluster,     \* data clusters are 2 .. LastCluster
    Straddling,      \* those whose entry lies in two sectors of the table
    RootSectors,     \* sectors of the root directory (14)
    Entries,         \* directory entries in a sector (16)
    SectorSize,      \* bytes in a sector (512)
    Byte,            \* what a byte of a file may be; 0 is the blank one
    Lengths,         \* lengths of the reads and writes programs make
    Garbage,         \* values an uninitialised abs_position may have
    Modulus,         \* 2^32, where unsigned lengths wrap
    MaxCalls, MaxCrashes   \* bounds of the exploration

ASSUME Fat12Assumption ==
    /\ LastCluster \in Nat \ {0, 1} /\ Straddling \subseteq 2 .. LastCluster
    /\ RootSectors \in Nat \ {0} /\ Entries \in Nat \ {0}
    /\ SectorSize \in Nat \ {0}
    /\ Byte \subseteq Nat /\ 0 \in Byte
    /\ Lengths \subseteq Nat \ {0}
    /\ Garbage \subseteq Nat
    /\ Modulus \in Nat \ {0}
    /\ FileName \subseteq DOMAIN DosName

VARIABLES
    fatDisk,         \* [fat, root, data]: what is on the disk
    fatPending,      \* sector writes the current call has still to make
    fatFile,         \* the open FILE, or NoFile
    fatBusy,         \* the file the pending writes are for
    fatText, fatAt, fatBehind, fatRead,  \* see above
    fatCalls, fatCrashes      \* counters for the bounds

fatVars == <<fatDisk, fatPending, fatFile, fatBusy, fatText, fatAt, fatBehind,
             fatRead, fatCalls, fatCrashes>>

Cluster  == 2 .. LastCluster
Eof      == LastCluster + 1        \* 0xFF8
FatFull  == LastCluster + 2        \* 0xFF0, no cluster is free
Torn     == LastCluster + 3        \* an entry of which one sector is written
DosNames == {DosName[n] : n \in FileName} \ {Refused}
FreeEntry     == [name |-> Refused, cluster |-> 0, size |-> 0, dir |-> FALSE]
NoFile   == [flags |-> "invalid"]

(***************************************************************************)
(* Reading the disk                                                        *)
(***************************************************************************)
Clusters(disk, c) ==     \* the chain that starts at c, as the reads follow it
    FoldLeft(LAMBDA s, i : IF disk.fat[Last(s)] \in Cluster
                           THEN Append(s, disk.fat[Last(s)]) ELSE s,
             <<c>>, [i \in 2 .. LastCluster |-> i])

\* A directory's sectors in order: where each is, and its entries.
RootDir(disk) == [s \in 1 .. RootSectors |->
                    [what |-> "root", at |-> s, value |-> disk.root[s]]]
SubDir(disk, c) == LET cs == Clusters(disk, c)
                   IN  [i \in 1 .. Len(cs) |->
                          [what |-> "data", at |-> cs[i],
                           value |-> disk.data[cs[i]].entries]]

\* Its places: sector and index within it, in the order they are looked at.
Places(dir) == [k \in 1 .. Len(dir) * Entries |->
                  [sector |-> ((k - 1) \div Entries) + 1,
                   slot   |-> ((k - 1) % Entries) + 1]]
EntryAt(dir, p) == dir[p.sector].value[p.slot]

Listing(dir) == {k \in DOMAIN Places(dir) : EntryAt(dir, Places(dir)[k]).cluster # 0}

OpenIn(dir, n, abs) ==
    LET k == SelectInSeq(Places(dir), LAMBDA x : EntryAt(dir, x).name = DosName[n])
        p == Places(dir)[k]
        e == EntryAt(dir, p)
    IN  IF DosName[n] = Refused \/ k = 0 THEN NoFile
        ELSE [flags |-> IF e.dir THEN "dir" ELSE "file",
              name |-> DosName[n], cluster |-> e.cluster, position |-> 0,
              eof |-> FALSE, fileLength |-> e.size, abs |-> abs,
              parent |-> [what |-> dir[p.sector].what, at |-> dir[p.sector].at]]

(* The directory a path names, or <<>>.  Opening takes a file for one too  *)
(* and reads its sectors as entries; what programs write spells none, so   *)
(* these are blank.  Creating looks at the flags first.                    *)
Within(disk, path) ==
    IF path = <<>> THEN RootDir(disk)
    ELSE LET d == OpenIn(RootDir(disk), path[1], 0)
         IN  IF d = NoFile THEN <<>> ELSE SubDir(disk, d.cluster)

DirOf(disk, path) ==
    IF path # <<>> /\ OpenIn(RootDir(disk), path[1], 0).flags # "dir" THEN <<>>
    ELSE Within(disk, path)

(* The result for a path of one or two names.  In a subdirectory           *)
(* abs_position is not set: abs is whatever was on the stack.              *)
Open(disk, path, abs) ==
    IF Len(path) = 1 THEN OpenIn(RootDir(disk), path[1], 0)
    ELSE OpenIn(Within(disk, Front(path)), Last(path), abs)

(***************************************************************************)
(* Writing it                                                              *)
(***************************************************************************)
Put(disk, w) == CASE w.what = "fat"  -> [disk EXCEPT !.fat[w.at] = w.value]
                  [] w.what = "root" -> [disk EXCEPT !.root[w.at] = w.value]
                  [] w.what = "data" -> [disk EXCEPT !.data[w.at].entries = w.value]
                  [] w.what = "byte" -> [disk EXCEPT !.data[w.at].bytes = w.value]

\* The lowest free entry of the table is marked as an end; a chain that
\* grows is then linked to it.
FreeCluster(disk) ==
    LET free == {c \in Cluster : disk.fat[c] = 0}
    IN  IF free = {} THEN FatFull ELSE CHOOSE c \in free : \A d \in free : c <= d

(* The sector writes that set an entry of the table.  Between the two of   *)
(* a straddling one it has bits of both values: 0xFF0 and up or 0xF00 and  *)
(* up for a chain that is linked, which is no cluster of the disk and,     *)
(* unless the new bits say otherwise, no end; for one that is marked a     *)
(* number nobody looks at yet.                                             *)
SetEntry(c, value) ==
    LET set(v) == [what |-> "fat", at |-> c, value |-> v]
    IN  IF c \in Straddling THEN <<set(Torn), set(value)>> ELSE <<set(value)>>

Mark(c) == SetEntry(c, Eof)

\* Mutant: the chain is linked before the cluster is marked.
OccupyLinksFirst(disk, chain) ==
    LET c == FreeCluster(disk)
    IN  IF c = FatFull THEN <<>>
        ELSE IF chain = 0 THEN Mark(c)
        ELSE SetEntry(chain, c) \o Mark(c)

Occupy(disk, chain) ==
    LET c == FreeCluster(disk)
    IN  IF c = FatFull THEN <<>>
        ELSE IF chain = 0 THEN Mark(c)
        ELSE Mark(c) \o SetEntry(chain, c)

FreeOrNamed(dir, n) ==
    SelectInSeq(Places(dir), LAMBDA x : \/ EntryAt(dir, x).cluster = 0
                                        \/ EntryAt(dir, x).name = DosName[n])

\* Mutant: a cluster is taken before the name is looked up.
CreateWritesEarly(disk, dir, n, isdir) ==
    LET k   == FreeOrNamed(dir, n)
        p   == Places(dir)[k]
        c   == FreeCluster(disk)
        new == [name |-> DosName[n], cluster |-> c, size |-> 0, dir |-> isdir]
    IN  IF DosName[n] = Refused \/ c = FatFull THEN <<>>
        ELSE IF k = 0 \/ EntryAt(dir, p).cluster # 0 THEN Occupy(disk, 0)
        ELSE Occupy(disk, 0) \o <<[dir[p.sector] EXCEPT !.value[p.slot] = new]>>

CreateWrites(disk, dir, n, isdir) ==
    LET k   == FreeOrNamed(dir, n)
        p   == Places(dir)[k]
        c   == FreeCluster(disk)
        new == [name |-> DosName[n], cluster |-> c, size |-> 0, dir |-> isdir]
    IN  IF \/ DosName[n] = Refused
           \/ k = 0                              \* the directory is full
           \/ EntryAt(dir, p).cluster # 0        \* the name is taken
           \/ c = FatFull
        THEN <<>>
        ELSE Occupy(disk, 0)
             \o <<[dir[p.sector] EXCEPT !.value[p.slot] = new]>>
             \o IF isdir
                THEN <<[what |-> "data", at |-> c,
                        value |-> [i \in 1 .. Entries |-> FreeEntry]]>>
                ELSE <<>>

\* Mutant: the length goes into the first entry of the sector.
LengthWritesFirst(disk, f, len) ==
    LET sector == IF f.parent.what = "root" THEN disk.root[f.parent.at]
                  ELSE disk.data[f.parent.at].entries
    IN  <<[what |-> f.parent.what, at |-> f.parent.at,
           value |-> [sector EXCEPT ![1].size = len]]>>

LengthWrites(disk, f, len) ==     \* fat12fsys_update_flen
    LET sector == IF f.parent.what = "root" THEN disk.root[f.parent.at]
                  ELSE disk.data[f.parent.at].entries
        i == SelectInSeq(sector, LAMBDA e : e.name = f.name)
    IN  IF i = 0 THEN <<>>
        ELSE <<[what |-> f.parent.what, at |-> f.parent.at,
                value |-> [sector EXCEPT ![i].size = len]]>>

(***************************************************************************)
(* One round of fat12fsys_rw: transfer within the current cluster, then    *)
(* find the next one, growing the chain when a write needs more.  t is a   *)
(* transfer: the disk as its writes leave it, the writes, the FILE, the    *)
(* bytes still to write or already read, and the length still to go.  The  *)
(* round that ends within a cluster but after the file's length subtracts  *)
(* more than is left: a read goes on to the end of the chain, a write      *)
(* until the disk is full, with what lies behind the buffer (taken as 0).  *)
(***************************************************************************)
Smaller(m, n) == IF m < n THEN m ELSE n

Round(t) ==
    LET f      == t.file
        room   == SectorSize - f.position
        n      == Smaller(t.length, room)
        sector == t.disk.data[f.cluster].bytes
        w      == [what |-> "byte", at |-> f.cluster,
                   value |-> [i \in 1 .. SectorSize |->
                                IF i > f.position /\ i <= f.position + n
                                THEN IF i - f.position <= Len(t.bytes)
                                     THEN t.bytes[i - f.position] ELSE 0
                                ELSE sector[i]]]
        t1     == IF t.write
                  THEN [t EXCEPT !.disk = Put(@, w), !.writes = Append(@, w),
                                 !.bytes = SubSeq(@, n + 1, Len(@))]
                  ELSE [t EXCEPT !.bytes = @ \o SubSeq(sector, f.position + 1, f.position + n)]
        at     == IF t.length < room THEN f.position + t.length ELSE f.position
        next   == t.disk.fat[f.cluster]
        more   == t.length # room          \* the unsigned difference is not 0
        grow   == Occupy(t1.disk, f.cluster)
        go(c)  == [t1 EXCEPT !.file.cluster = c, !.file.position = 0,
                             !.length = (Modulus + @ - room) % Modulus]
        lost(c) == [go(c) EXCEPT !.length = 0]       \* off the disk
    IN  CASE t.length = 0 -> t
          [] t.length # 0 /\ t.length < room /\ at <= f.fileLength ->
               [t1 EXCEPT !.file.position = at, !.length = 0]
          [] t.length # 0 /\ ~(t.length < room /\ at <= f.fileLength) ->
               IF next = 0 \/ (next = Eof /\ ~(more /\ t.write))
               THEN [t1 EXCEPT !.file.position = at, !.file.eof = TRUE, !.length = 0]
               ELSE IF next = Torn THEN lost(Torn)
               ELSE IF next # Eof THEN go(next)
               ELSE IF grow = <<>> THEN lost(FatFull)
               ELSE [go(grow[1].at) EXCEPT !.disk = FoldLeft(Put, @, grow),
                                           !.writes = @ \o grow]

Transfer(t) == FoldLeft(LAMBDA s, i : Round(s), t,
                        [i \in 1 .. LastCluster + 1 |-> i])

Reading(f, len) ==
    Transfer([disk |-> fatDisk, writes |-> <<>>, file |-> f, bytes |-> <<>>,
              length |-> len, write |-> FALSE])

(* fat12fsys_write: the new length is on the disk before the data.         *)
Writing(f, bytes) ==
    LET abs  == (f.abs + Len(bytes)) % Modulus
        long == abs > f.fileLength
        g    == [f EXCEPT !.abs = abs, !.fileLength = IF long THEN abs ELSE @]
        lw   == IF long THEN LengthWrites(fatDisk, g, abs) ELSE <<>>
    IN  Transfer([disk |-> FoldLeft(Put, fatDisk, lw), writes |-> lw, file |-> g,
                  bytes |-> bytes, length |-> Len(bytes), write |-> TRUE])

(***************************************************************************)
(* The calls.  A program has at most one file open; the shell creates.     *)
(***************************************************************************)
Paths   == {<<n>> : n \in DosNames} \cup {<<d, n>> : d \in DosNames, n \in DosNames}
Unknown == <<-1>>                   \* no claim is made about the file any more
PathOf(path) == [i \in DOMAIN path |-> DosName[path[i]]]
NoRead  == [at |-> 0, bytes |-> <<>>]

FatInit ==
    /\ fatDisk = [fat  |-> [c \in Cluster |-> 0],
                  root |-> [s \in 1 .. RootSectors |-> [i \in 1 .. Entries |-> FreeEntry]],
                  data |-> [c \in Cluster |->
                              [bytes   |-> [i \in 1 .. SectorSize |-> 0],
                               entries |-> [i \in 1 .. Entries |-> FreeEntry]]]]
    /\ fatPending = <<>> /\ fatFile = NoFile /\ fatBusy = <<>>
    /\ fatText = [p \in Paths |-> Unknown]
    /\ fatAt = 0 /\ fatBehind = {} /\ fatRead = NoRead
    /\ fatCalls = 0 /\ fatCrashes = 0

FatCalled == /\ fatPending = <<>>
          /\ fatCalls < MaxCalls
          /\ fatCalls' = fatCalls + 1
          /\ UNCHANGED fatCrashes

FatOpen(path) ==
    /\ FatCalled
    /\ fatFile.flags = "invalid"
    /\ \E g \in Garbage :
         LET f == Open(fatDisk, path, g)
         IN  /\ f.flags = "file"         \* fopen keeps no other
             /\ fatFile' = f @@ [path |-> PathOf(path)]
    /\ fatAt' = 0 /\ fatRead' = NoRead
    /\ UNCHANGED <<fatDisk, fatPending, fatBusy, fatText, fatBehind>>

FatCreate(dir, n, isdir) ==
    LET w == CreateWrites(fatDisk, DirOf(fatDisk, dir), n, isdir)
    IN  /\ FatCalled
        /\ w # <<>>
        /\ fatPending' = w /\ fatBusy' = PathOf(Append(dir, n))
        /\ fatText' = IF isdir THEN fatText
                      ELSE [fatText EXCEPT ![PathOf(Append(dir, n))] = <<>>]
        /\ UNCHANGED <<fatDisk, fatFile, fatAt, fatBehind, fatRead>>

FatUsable == fatFile.flags = "file" /\ fatFile.cluster \in Cluster

FatReadFile(len) ==
    /\ FatCalled
    /\ FatUsable /\ ~fatFile.eof            \* programs read until eof
    /\ LET t == Reading(fatFile, len)
       IN  /\ fatFile' = t.file
           /\ fatRead' = [at |-> fatAt,
                         bytes |-> SubSeq(t.bytes, 1, Smaller(len, Len(t.bytes)))]
           /\ fatAt' = fatAt + len
    /\ UNCHANGED <<fatDisk, fatPending, fatBusy, fatText, fatBehind>>

Overlay(text, at, bytes) ==
    [i \in 1 .. (IF at + Len(bytes) > Len(text) THEN at + Len(bytes) ELSE Len(text)) |->
       IF i > at /\ i <= at + Len(bytes) THEN bytes[i - at]
       ELSE IF i <= Len(text) THEN text[i] ELSE 0]

(* A FILE that has met the end of its chain is left at a position that     *)
(* need not be where its program is: the write after that may land         *)
(* anywhere in the last cluster.  Reads do not advance abs_position, so a  *)
(* handle that has read writes behind the length it records.               *)
FatWriteFile(bytes) ==
    /\ FatCalled
    /\ FatUsable
    /\ LET t     == Writing(fatFile, bytes)
           lost  == fatFile.eof \/ t.file.cluster \notin Cluster
           p     == fatFile.path
       IN  /\ fatPending' = t.writes /\ fatBusy' = p
           /\ fatFile' = t.file
           /\ fatText' = [fatText EXCEPT ![p] =
                            IF lost \/ @ = Unknown THEN Unknown
                            ELSE Overlay(@, fatAt, bytes)]
           /\ fatAt' = fatAt + Len(bytes)
           /\ fatBehind' = fatBehind \cup (IF fatFile.abs # fatAt THEN {p} ELSE {})
    /\ fatRead' = NoRead
    /\ UNCHANGED fatDisk

FatClose ==
    /\ fatPending = <<>> /\ fatFile.flags = "file"
    /\ fatFile' = NoFile /\ fatAt' = 0 /\ fatRead' = NoRead
    /\ UNCHANGED <<fatDisk, fatPending, fatBusy, fatText, fatBehind, fatCalls, fatCrashes>>

FatSectorWritten ==
    /\ fatPending # <<>>
    /\ fatDisk' = Put(fatDisk, Head(fatPending))
    /\ fatPending' = Tail(fatPending)
    /\ fatBusy' = IF Len(fatPending) = 1 THEN <<>> ELSE fatBusy
    /\ UNCHANGED <<fatFile, fatText, fatAt, fatBehind, fatRead, fatCalls, fatCrashes>>

(* Power off and on: mounting reads the boot sector and nothing else.      *)
FatRestart ==
    /\ fatCrashes < MaxCrashes
    /\ fatCrashes' = fatCrashes + 1
    /\ fatText' = [p \in Paths |-> IF p = fatBusy THEN Unknown ELSE fatText[p]]
    /\ fatPending' = <<>> /\ fatBusy' = <<>> /\ fatFile' = NoFile /\ fatAt' = 0 /\ fatRead' = NoRead
    /\ UNCHANGED <<fatDisk, fatBehind, fatCalls>>

DirPaths  == {<<>>} \cup {<<d>> : d \in FileName}
FilePaths == {Append(d, n) : d \in DirPaths, n \in FileName}

FatNext ==
    \/ \E path \in FilePaths : FatOpen(path)
    \/ \E dir \in DirPaths, n \in FileName, isdir \in BOOLEAN : FatCreate(dir, n, isdir)
    \/ \E len \in Lengths : FatReadFile(len)
    \/ \E len \in Lengths, b \in Byte \ {0} : FatWriteFile([i \in 1 .. len |-> b])
    \/ FatClose
    \/ FatSectorWritten
    \/ FatRestart

FatSpec == FatInit /\ [][FatNext]_fatVars

-----------------------------------------------------------------------------
Entry == [name : DosNames \cup {Refused}, cluster : {0} \cup Cluster,
          size : Nat, dir : BOOLEAN]

(* The type invariant of the FAT12 file system.                            *)
FatTypeOK ==
    /\ fatDisk.fat \in [Cluster -> {0, Eof, Torn} \cup Cluster]
    /\ fatDisk.root \in [1 .. RootSectors -> [1 .. Entries -> Entry]]
    /\ \A c \in Cluster : /\ fatDisk.data[c].bytes \in [1 .. SectorSize -> Byte]
                          /\ fatDisk.data[c].entries \in [1 .. Entries -> Entry]
    /\ fatFile = NoFile \/ fatFile.cluster \in Cluster \cup {FatFull, Torn}
    /\ fatFile # NoFile => fatFile.position \in 0 .. SectorSize - 1
    /\ DOMAIN fatText = Paths
    /\ fatAt \in Nat

\* Every used entry of every directory, with the place it is in.
Used(dir) == {<<dir[Places(dir)[k].sector].what, dir[Places(dir)[k].sector].at,
                Places(dir)[k].slot, EntryAt(dir, Places(dir)[k])>> : k \in Listing(dir)}
Files == LET root == Used(RootDir(fatDisk))
         IN  root \cup UNION {Used(SubDir(fatDisk, x[4].cluster)) :
                                x \in {y \in root : y[4].dir}}
Chain(x) == Clusters(fatDisk, x[4].cluster)

(* At every moment, also between two sector writes and after a power cut,  *)
(* each file and directory owns a chain of clusters, no two own the same   *)
(* one, and the chain ends where the table says so: the order in which     *)
(* fat12fsys_create and fat12fsys_rw write table and directory keeps it.   *)
(* What they do not keep is an entry that lies in two sectors: a power cut *)
(* between these leaves a chain with no end, one a power cut at most.      *)
Endless == {x \in Files : fatDisk.fat[Last(Chain(x))] # Eof}

FatChains ==
    /\ \A x \in Files : Cardinality(ToSet(Chain(x))) = Len(Chain(x))
    /\ \A x, y \in Files : x # y => ToSet(Chain(x)) \cap ToSet(Chain(y)) = {}
    /\ \A x \in Endless : /\ fatDisk.fat[Last(Chain(x))] = Torn
                          /\ Last(Chain(x)) \in Straddling
    /\ Cardinality(Endless) <= fatCrashes + IF fatPending # <<>> THEN 1 ELSE 0

(* A cluster is marked before anything points to it, so a power cut may    *)
(* lose clusters, and nothing ever frees them; but it loses no more than   *)
(* one each time, however long the write was.                              *)
FatLeaks ==
    Cardinality({c \in Cluster : fatDisk.fat[c] # 0}
                \ UNION {ToSet(Chain(x)) : x \in Files})
      <= fatCrashes + IF fatPending # <<>> THEN 1 ELSE 0

\* The bytes of the chain a path leads to.
Content(path) ==
    FoldLeft(LAMBDA s, c : s \o [i \in 1 .. SectorSize |-> fatDisk.data[c].bytes[i]],
             <<>>, Clusters(fatDisk, path))
FileAt(p) ==
    LET n(x) == CHOOSE f \in FileName : DosName[f] = x
    IN  Open(fatDisk, [i \in DOMAIN p |-> n(p[i])], 0)

(* When no call is under way, a file holds what was written to it, and a   *)
(* read has returned the bytes at its place in the file: across clusters,  *)
(* other files' growth and power cuts (but for the file being written).    *)
(* A file in the root also has its length in the directory, unless it was  *)
(* written by a handle that had read from it (the length it has then       *)
(* counts the writes alone); in a subdirectory the length is not known,    *)
(* its abs_position starts as whatever was in memory.                      *)
FatReadsBack ==
    fatPending = <<>> =>
      /\ \A p \in {q \in Paths : fatText[q] # Unknown} :
           LET f == FileAt(p)
           IN  /\ f.flags = "file"
               /\ IsPrefix(fatText[p], Content(f.cluster))
               /\ (Len(p) = 1 /\ p \notin fatBehind) => f.fileLength = Len(fatText[p])
      /\ (fatFile.flags = "file" /\ fatText[fatFile.path] # Unknown) =>
           \A i \in 1 .. Len(fatRead.bytes) :
             fatRead.at + i <= Len(fatText[fatFile.path]) =>
               fatRead.bytes[i] = fatText[fatFile.path][fatRead.at + i]
=============================================================================
