------------------------------- MODULE TmpFs -------------------------------
(***************************************************************************)
(* The file system in memory (drivers/tmpfsys.c), one call at a time.      *)
(*                                                                         *)
(* A fixed area is cut into blocks.  A file is a head block (type File)    *)
(* and a list of SubFile blocks; a directory is one block whose data is a  *)
(* list of records, newest after ".".  Files are known by a file id, which *)
(* is looked up by walking the blocks from the first.                      *)
(*                                                                         *)
(* tmpText and tmpRead are not in the code: what has been written to each  *)
(* file, and what the last read returned.                                  *)
(***************************************************************************)
EXTENDS Integers, FiniteSets, Sequences, SequencesExt

CONSTANTS
    TmpName,         \* names of files and directories
    Blocks,          \* blocks in the area (256)
    BlockSize,       \* data bytes in a block (BLOCK_SIZE - META_SIZE)
    Records,         \* records that fit in a directory's block
    TmpByte,         \* what a byte may be
    TmpLengths,      \* lengths of the reads and writes programs make
    TmpMaxCalls      \* bound of the exploration

ASSUME TmpFsAssumption ==
    /\ Blocks \in Nat \ {0} /\ BlockSize \in Nat \ {0} /\ Records \in Nat \ {0, 1}
    /\ TmpByte \subseteq Nat /\ TmpLengths \subseteq Nat \ {0}

VARIABLES
    tmpBlock,        \* [0 .. Blocks - 1 -> block_metadata and the data behind it]
    tmpFile,         \* the open FILE, or TmpNone
    tmpText, tmpRead, tmpCalls

tmpVars == <<tmpBlock, tmpFile, tmpText, tmpRead, tmpCalls>>

BlockId == 0 .. Blocks - 1
NoBlock == -1
Zeroed  == [occupied |-> FALSE, type |-> "File", fid |-> 0, parent |-> NoBlock,
            child |-> NoBlock, data |-> <<>>, records |-> <<>>]
TmpNone == [flags |-> "invalid"]

Lowest(S) == CHOOSE b \in S : \A c \in S : b <= c

(***************************************************************************)
(* Looking things up                                                       *)
(***************************************************************************)
get_faddr_by_id(blk, fid) ==
    Lowest({b \in BlockId : blk[b].fid = fid /\ blk[b].type # "SubFile"})

\* Blocks occupied before the first that is not, however many follow it.
get_next_fid(blk) ==
    LET free == {b \in BlockId : ~blk[b].occupied}
        end  == IF free = {} THEN Blocks ELSE Lowest(free)
    IN  Cardinality({b \in 0 .. end - 1 : blk[b].type # "SubFile"})

BlocksOf(blk, b) ==      \* a block and those behind it, as child_block leads
    FoldLeft(LAMBDA s, i : IF blk[Last(s)].child # NoBlock
                           THEN Append(s, blk[Last(s)].child) ELSE s,
             <<b>>, [i \in 1 .. Blocks |-> i])

Bytes(blk, b) == FoldLeft(LAMBDA s, c : s \o blk[c].data, <<>>, BlocksOf(blk, b))
Size(blk, fid) == Len(Bytes(blk, get_faddr_by_id(blk, fid)))

Record(blk, dirfid, n) ==      \* the first record of that name, or 0
    SelectInSeq(blk[get_faddr_by_id(blk, dirfid)].records, LAMBDA r : r.name = n)

TmpOpenIn(blk, dirfid, n) ==
    LET r   == Record(blk, dirfid, n)
        fid == blk[get_faddr_by_id(blk, dirfid)].records[r].fid
    IN  IF r = 0 THEN TmpNone
        ELSE [flags |-> IF blk[get_faddr_by_id(blk, fid)].type = "File"
                        THEN "file" ELSE "dir",
              id |-> fid, position |-> 0, eof |-> FALSE, fileLength |-> Size(blk, fid)]

TmpOpenPath(blk, path) ==
    FoldLeft(LAMBDA d, n : IF d.flags = "dir" THEN TmpOpenIn(blk, d.id, n) ELSE TmpNone,
             [flags |-> "dir", id |-> 0], path)

(***************************************************************************)
(* Taking and giving back blocks                                           *)
(***************************************************************************)
FreeBlocks(blk) == {b \in BlockId : ~blk[b].occupied}

\* "." stays first; a new record comes right behind it.
add_record(blk, dir, n, fid) ==
    LET rs == blk[dir].records
        r  == [name |-> n, fid |-> fid]
    IN  [blk EXCEPT ![dir].records =
           IF rs = <<>> THEN <<r>> ELSE <<Head(rs), r>> \o Tail(rs)]

create_block(blk, parent, type, n) ==
    LET b    == Lowest(FreeBlocks(blk))
        fid  == IF type = "SubFile" THEN blk[parent].fid ELSE get_next_fid(blk)
        blk1 == [blk EXCEPT ![b] = [Zeroed EXCEPT !.occupied = TRUE, !.type = type,
                                                  !.fid = fid, !.parent = parent]]
        blk2 == add_record(blk1, parent, n, fid)
    IN  CASE type = "SubFile" -> blk1
          [] type = "File"    -> blk2
          [] type = "Dir"     -> add_record(add_record(blk2, b, ".", fid),
                                            b, "..", blk[parent].fid)

extend_file(blk, fid) ==
    LET tail == Last(BlocksOf(blk, get_faddr_by_id(blk, fid)))
        new  == Lowest(FreeBlocks(blk))
    IN  [create_block(blk, tail, "SubFile", "") EXCEPT ![tail].child = new]

\* Mutant: the block behind keeps its link back.
free_blockOneWay(blk, b) ==
    [[blk EXCEPT ![blk[b].parent].child = blk[b].child] EXCEPT ![b] = Zeroed]

\* free_block, as reset_file uses it: on the SubFile blocks of a file.
free_block(blk, b) ==
    LET up == blk[b].parent
        dn == blk[b].child
        blk1 == [blk EXCEPT ![up].child = dn]
        blk2 == IF dn = NoBlock THEN blk1 ELSE [blk1 EXCEPT ![dn].parent = up]
    IN  [blk2 EXCEPT ![b] = Zeroed]

\* Mutant: the data pointer of the head is not reset.
reset_fileHeadStays(blk, fid) ==
    FoldLeft(free_block, blk, Tail(BlocksOf(blk, get_faddr_by_id(blk, fid))))

reset_file(blk, fid) ==
    LET head == get_faddr_by_id(blk, fid)
    IN  [FoldLeft(free_block, blk, Tail(BlocksOf(blk, head)))
           EXCEPT ![head].data = <<>>]

\* One byte: it goes into the first block with room; a block that it fills is followed
\* by a new one at once.
put_byte(blk, fid, c) ==
    LET bs   == BlocksOf(blk, get_faddr_by_id(blk, fid))
        b    == bs[SelectInSeq(bs, LAMBDA d : Len(blk[d].data) < BlockSize)]
        blk1 == [blk EXCEPT ![b].data = Append(@, c)]
    IN  IF Len(blk1[b].data) = BlockSize THEN extend_file(blk1, blk[b].fid) ELSE blk1

(* The loop of tfsys_read.  pos counts from the start of the file and is   *)
(* compared with read, the place in the block the loop is in: it copies    *)
(* from the first block, and in those behind it reads past every byte.     *)
Walk(blk, fid, pos, len) ==
    LET byte(s, c)  == CASE s.len = 0 -> s
                         [] s.len > 0 /\ s.read < s.pos -> [s EXCEPT !.read = @ + 1]
                         [] s.len > 0 /\ s.read >= s.pos ->
                              [s EXCEPT !.read = @ + 1, !.pos = @ + 1, !.len = @ - 1,
                                        !.got = Append(@, c)]
        block(s, b) == LET t == FoldLeft(byte, [s EXCEPT !.read = 0], blk[b].data)
                       IN  IF s.meta # b THEN s
                           ELSE IF t.read = BlockSize THEN [t EXCEPT !.meta = blk[b].child]
                           ELSE t
        head == get_faddr_by_id(blk, fid)
    IN  FoldLeft(block, [pos |-> pos, len |-> len, read |-> 0, meta |-> head, got |-> <<>>],
                 BlocksOf(blk, head))

-----------------------------------------------------------------------------
TmpPaths  == {<<n>> : n \in TmpName} \cup {<<d, n>> : d \in TmpName, n \in TmpName}
TmpDirs   == {<<>>} \cup {<<d>> : d \in TmpName}
NoText    == <<-1>>            \* no file starts in this block
TmpNoRead == [at |-> 0, len |-> 0, bytes |-> <<>>]

TmpInit ==                     \* tfsys_init
    /\ tmpBlock = LET root == [Zeroed EXCEPT !.occupied = TRUE, !.type = "Dir",
                                              !.parent = 0]
                  IN  add_record(add_record([b \in BlockId |-> IF b = 0 THEN root ELSE Zeroed],
                                            0, ".", 0), 0, "..", 0)
    /\ tmpFile = TmpNone
    /\ tmpText = [b \in BlockId |-> NoText] /\ tmpRead = TmpNoRead
    /\ tmpCalls = 0

TmpCalled == tmpCalls < TmpMaxCalls /\ tmpCalls' = tmpCalls + 1

(* Nothing looks for the end of the area, or of a directory's block.  The  *)
(* model stops there: a call is made only while there is room for it.      *)
TmpRoom(n) == Cardinality(FreeBlocks(tmpBlock)) >= n

tfsys_open(path) ==
    LET f == TmpOpenPath(tmpBlock, path)
    IN  /\ TmpCalled
        /\ tmpFile = TmpNone
        /\ f.flags = "file"
        /\ tmpFile' = f
        /\ tmpRead' = TmpNoRead
        /\ UNCHANGED <<tmpBlock, tmpText>>

tfsys_create(dir, n, type) ==
    LET d == TmpOpenPath(tmpBlock, dir)
    IN  /\ TmpCalled
        /\ d.flags = "dir"
        /\ TmpRoom(1)
        /\ Len(tmpBlock[get_faddr_by_id(tmpBlock, d.id)].records) < Records
        /\ tmpBlock' = create_block(tmpBlock, get_faddr_by_id(tmpBlock, d.id), type, n)
        /\ tmpText' = IF type = "File"
                      THEN [tmpText EXCEPT ![Lowest(FreeBlocks(tmpBlock))] = <<>>]
                      ELSE tmpText
        /\ UNCHANGED <<tmpFile, tmpRead>>

tfsys_write(bytes) ==
    /\ TmpCalled
    /\ tmpFile.flags = "file"
    /\ LET start == tmpFile.position = 0
           fid   == tmpFile.id
           blk   == IF start THEN reset_file(tmpBlock, fid) ELSE tmpBlock
       IN  /\ TmpRoom((Len(bytes) \div BlockSize) + 1)
           /\ tmpBlock' = FoldLeft(LAMBDA b, c : put_byte(b, fid, c), blk, bytes)
           /\ tmpFile' = [tmpFile EXCEPT !.position = @ + Len(bytes)]
           /\ tmpText' = [tmpText EXCEPT ![get_faddr_by_id(tmpBlock, fid)] =
                                      IF start THEN bytes ELSE @ \o bytes]
    /\ tmpRead' = TmpNoRead

(* The read that reaches the end of the file sets eof though it returns    *)
(* bytes; one that would pass it returns none.                             *)
tfsys_read(len) ==
    /\ TmpCalled
    /\ tmpFile.flags = "file" /\ ~tmpFile.eof
    /\ LET pos  == tmpFile.position
           past == pos + len > tmpFile.fileLength
           w    == Walk(tmpBlock, tmpFile.id, pos, len)
           over == w.meta = NoBlock \/ tmpBlock[w.meta].data = <<>>
       IN  /\ tmpFile' = IF past THEN [tmpFile EXCEPT !.eof = TRUE]
                         ELSE [tmpFile EXCEPT !.eof = pos + len = tmpFile.fileLength \/ over,
                                              !.position = w.pos]
           /\ tmpRead' = [at |-> pos, len |-> IF past THEN 0 ELSE len,
                          bytes |-> IF past THEN <<>> ELSE w.got]
    /\ UNCHANGED <<tmpBlock, tmpText>>

tfsys_close ==
    /\ tmpFile.flags = "file"
    /\ tmpFile' = TmpNone /\ tmpRead' = TmpNoRead
    /\ UNCHANGED <<tmpBlock, tmpText, tmpCalls>>

TmpNext ==
    \/ \E path \in TmpPaths : tfsys_open(path)
    \/ \E dir \in TmpDirs, n \in TmpName, type \in {"File", "Dir"} : tfsys_create(dir, n, type)
    \/ \E len \in TmpLengths \cup {0}, c \in TmpByte : tfsys_write([i \in 1 .. len |-> c])
    \/ \E len \in TmpLengths : tfsys_read(len)
    \/ tfsys_close

TmpSpec == TmpInit /\ [][TmpNext]_tmpVars

-----------------------------------------------------------------------------
(* The type invariant of the file system in memory.                        *)
TmpTypeOK ==
    /\ \A b \in BlockId :
         /\ tmpBlock[b].type \in {"File", "SubFile", "Dir"}
         /\ tmpBlock[b].fid \in BlockId
         /\ {tmpBlock[b].parent, tmpBlock[b].child} \subseteq BlockId \cup {NoBlock}
         /\ Len(tmpBlock[b].data) <= BlockSize
         /\ Len(tmpBlock[b].records) <= Records
    /\ tmpFile # TmpNone => tmpFile.id \in BlockId
    /\ DOMAIN tmpText = BlockId

Heads == {b \in BlockId : tmpBlock[b].occupied /\ tmpBlock[b].type # "SubFile"}

(* No two files or directories have the same id: tmpfsys.h:20 says so.     *)
TmpIdsUnique == \A b, c \in Heads : tmpBlock[b].fid = tmpBlock[c].fid => b = c

(* As long as ids are unique: every block in use belongs to one file or    *)
(* directory, the links back undo the links forward, all blocks of a file  *)
(* but its last are full and that one is not (tfsys_write relies on it to  *)
(* find where to go on), and each file and directory is entered in the     *)
(* directory it was created in, once.                                      *)
TmpBlocksOwned ==
    LET of(b) == BlocksOf(tmpBlock, b)
    IN  TmpIdsUnique =>
          /\ {b \in BlockId : tmpBlock[b].occupied} = UNION {ToSet(of(b)) : b \in Heads}
          /\ \A b, c \in Heads : b # c => ToSet(of(b)) \cap ToSet(of(c)) = {}
          /\ \A b \in Heads : \A i \in 2 .. Len(of(b)) :
               /\ tmpBlock[of(b)[i]].parent = of(b)[i - 1]
               /\ tmpBlock[of(b)[i]].type = "SubFile"
               /\ Len(tmpBlock[of(b)[i - 1]].data) = BlockSize
          /\ \A b \in Heads : Len(tmpBlock[Last(of(b))].data) < BlockSize
          /\ \A b \in Heads \ {0} :
               Cardinality({<<d, i>> \in Heads \X (1 .. Records) :
                              /\ i \in DOMAIN tmpBlock[d].records
                              /\ tmpBlock[d].records[i].name \in TmpName
                              /\ tmpBlock[d].records[i].fid = tmpBlock[b].fid}) = 1

(* As long as ids are unique, a file holds what was written to it since it *)
(* was last written from its start, whatever other files did to the blocks *)
(* around it.  A read delivers what of the bytes asked for lies in the     *)
(* first block, and no byte of the blocks behind it (tmpfsys.c:173).       *)
TmpFilesKept ==
    TmpIdsUnique =>
      /\ \A b \in Heads : tmpBlock[b].type = "File" => Bytes(tmpBlock, b) = tmpText[b]
      /\ tmpFile.flags = "file" =>
           LET text == tmpText[get_faddr_by_id(tmpBlock, tmpFile.id)]
               asked == (tmpRead.at + 1) .. (tmpRead.at + tmpRead.len)
               first == DOMAIN text \cap 1 .. BlockSize
           IN  tmpRead.bytes = [i \in 1 .. Cardinality(asked \cap first) |->
                                  text[tmpRead.at + i]]
=============================================================================
