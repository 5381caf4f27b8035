----------------------------- MODULE TextEditor -----------------------------
(***************************************************************************)
(* The text editor (root/bin/tedit.c): a list of lines, each a chain of    *)
(* regions of RegionSize characters, and a cursor that is kept twice, as   *)
(* line and column and as a pointer to the region.                         *)
(*                                                                         *)
(* The editor goes astray at the edges of its regions: it follows a null   *)
(* pointer, writes past a region, edits a region the column is not in.     *)
(* edAstray marks the first such step, and the model ends there.  edText,  *)
(* what the same keys make of plain lines, is not in the code.             *)
(***************************************************************************)
EXTENDS Integers, Sequences, SequencesExt

CONSTANTS
    RegionSize,      \* TEXT_REGION_BUFFER_SIZE (128)
    Typed, Filed,    \* characters that are typed, that a file holds
    Texts,           \* what the file may hold: lines that end in CR, LF but for the last
    MaxKeys          \* bound: keys

VARIABLES
    edLines,         \* line -> its regions
    edLine, edRegion, edCol,   \* cursor_line, cur_text_region, cursor_col
    edInsert,        \* is_insert
    edSaved,         \* what was written on leaving
    edAstray, edText, edKeys

edVars == <<edLines, edLine, edRegion, edCol, edInsert, edSaved, edAstray, edText, edKeys>>

CR == "\r"
LF == "\n"
Backspace == "backspace"
NUL == "nul"
Char == Typed \cup Filed \cup {CR, LF, NUL}

ASSUME EditorAssumption ==
    /\ RegionSize \in Nat \ {0, 1, 2} /\ MaxKeys \in Nat
    /\ Texts \subseteq Seq(Seq(Char)) \ {<<>>}
    /\ \A text \in Texts : \A l \in 1 .. Len(text) : \A k \in 1 .. Len(text[l]) - 1 : text[l][k] # LF

Cell == 0 .. RegionSize - 1
NewRegion == [buffer |-> [i \in Cell |-> NUL], pos |-> 0]

\* Position i, also the byte in front of a buffer, which is a 0.
At(region, i) == IF i \in Cell THEN region.buffer[i] ELSE NUL

TextOf(region) == [i \in 1 .. region.pos |-> region.buffer[i - 1]]
FlatLine(line) ==
    LET upto[n \in 0 .. Len(line)] == IF n = 0 THEN <<>> ELSE upto[n - 1] \o TextOf(line[n])
    IN  upto[Len(line)]
Flat(lines) == [l \in DOMAIN lines |-> FlatLine(lines[l])]

\* One character at the end; a region that is full gets a successor at once.
PutChar(line, c) ==
    LET n    == Len(line)
        full == [buffer |-> [line[n].buffer EXCEPT ![line[n].pos] = c], pos |-> line[n].pos + 1]
    IN  IF full.pos = RegionSize THEN Append([line EXCEPT ![n] = full], NewRegion)
        ELSE [line EXCEPT ![n] = full]

PutChars(line, text) ==
    LET after[n \in 0 .. Len(text)] == IF n = 0 THEN line ELSE PutChar(after[n - 1], text[n])
    IN  after[Len(text)]

load_file(file) == [l \in DOMAIN file |-> PutChars(<<NewRegion>>, file[l])]

write_file(lines) ==
    LET written[n \in 0 .. Len(lines)] ==
            IF n = 0 THEN <<>> ELSE written[n - 1] \o FlatLine(lines[n])
    IN  written[Len(lines)]

EdInit ==
    /\ edText \in Texts
    /\ edLines = load_file(edText)
    /\ edLine = 1 /\ edRegion = 1 /\ edCol = 0
    /\ edInsert = FALSE /\ edSaved = <<>> /\ edAstray = FALSE /\ edKeys = 0
-----------------------------------------------------------------------------
(***************************************************************************)
(* Moving the cursor.  A state of the editor is the record of its lines    *)
(* and its cursor; ok is what the code's function returns.                 *)
(***************************************************************************)
Here == [lines |-> edLines, line |-> edLine, region |-> edRegion, col |-> edCol, ok |-> TRUE]

Stay(s) == [s EXCEPT !.ok = FALSE]

\* From the first column to two before the end of the line above.
advance_cursor_left(s) ==
    IF s.col > 0
    THEN [s EXCEPT !.col = @ - 1, !.region = IF s.col % RegionSize = 0 THEN @ - 1 ELSE @]
    ELSE IF s.line = 1 THEN Stay(s)
    ELSE LET above == s.lines[s.line - 1]
         IN  [s EXCEPT !.line = @ - 1, !.region = Len(above), !.col = Len(FlatLine(above)) - 2]

AtEnd(s) ==
    LET r    == s.lines[s.line][s.region]
        i    == s.col % RegionSize
        last == At(r, r.pos - 1)
    IN  \/ i = r.pos - 1 /\ last = LF
        \/ i = r.pos /\ last # LF

advance_cursor_right(s) ==
    IF AtEnd(s)
    THEN IF s.line = Len(s.lines) THEN Stay(s)
         ELSE [s EXCEPT !.line = @ + 1, !.region = 1, !.col = 0]
    ELSE [s EXCEPT !.col = @ + 1,
                   !.region = IF (s.col + 1) % RegionSize = 0 THEN @ + 1 ELSE @]

\* The column in another line, and the region where the search for it ends:
\* the first at whose start the column is reached, or the last.
ToLine(s, l) ==
    LET line    == s.lines[l]
        start   == [r \in DOMAIN line |-> Len(FlatLine(SubSeq(line, 1, r - 1)))]
        reached == {r \in DOMAIN line : r = Len(line) \/ start[r] >= s.col}
        region  == CHOOSE r \in reached : \A q \in reached : r <= q
        read    == start[region] + line[region].pos
        last    == At(line[region], line[region].pos - 1)
    IN  [s EXCEPT !.line = l, !.region = region,
                  !.col = IF read < @ THEN (IF last = LF THEN read - 1 ELSE read)
                          ELSE IF read >= 2 /\ @ > read - 2 THEN read - 1 ELSE @]

advance_cursor_up(s)   == IF s.line = 1 THEN Stay(s) ELSE ToLine(s, s.line - 1)
advance_cursor_down(s) == IF s.line = Len(s.lines) THEN Stay(s) ELSE ToLine(s, s.line + 1)
-----------------------------------------------------------------------------
(***************************************************************************)
(* Changing the text                                                       *)
(***************************************************************************)
Offset(s) == s.col % RegionSize

\* c goes to place at of region q, everything behind it moves up by one,
\* across the regions.
ShiftUp(line, q, at, c) ==
    [r \in DOMAIN line |->
        IF r < q THEN line[r]
        ELSE [line[r] EXCEPT !.buffer =
                [i \in Cell |-> IF r = q /\ i < at THEN @[i]
                                ELSE IF r = q /\ i = at THEN c
                                ELSE IF i > 0 THEN @[i - 1] ELSE line[r - 1].buffer[RegionSize - 1]]]]

GrowLast(line, by) == Append(Front(line), [Last(line) EXCEPT !.pos = @ + by])

\* A character is put in: the last region grows.
Insert(s, c) ==
    LET old  == s.lines[s.line]
        line == IF Last(old).pos = RegionSize THEN Append(old, NewRegion) ELSE old
    IN  [s EXCEPT !.lines[s.line] = GrowLast(ShiftUp(line, s.region, Offset(s), c), 1)]

\* Enter: the rest of the region goes to a new line as it is, the regions
\* after it character by character.
Split(s) ==
    LET line  == s.lines[s.line]
        r     == line[s.region]
        i     == Offset(s)
        rest  == [buffer |-> [k \in Cell |-> IF i + k < r.pos THEN r.buffer[i + k] ELSE NUL],
                  pos |-> r.pos - i]
        below == PutChars(<<rest>>, FlatLine(SubSeq(line, s.region + 1, Len(line))))
        cut   == [buffer |-> [r.buffer EXCEPT ![i] = CR, ![i + 1] = LF], pos |-> i + 2]
    IN  [s EXCEPT !.lines = SubSeq(@, 1, s.line - 1)
                            \o << Append(SubSeq(line, 1, s.region - 1), cut), below >>
                            \o SubSeq(@, s.line + 1, Len(@))]

\* Mutant: the character that moves to the next region is forgotten.
DeleteInRegion(line, q, at) ==
    [r \in DOMAIN line |->
        IF r < q THEN line[r]
        ELSE [line[r] EXCEPT !.buffer =
                [i \in Cell |-> IF r = q /\ i < at THEN @[i]
                                ELSE IF i + 1 < RegionSize THEN @[i + 1] ELSE @[i]]]]

\* Everything behind the character moves down by one, across the regions.
ShiftDown(line, q, at) ==
    [r \in DOMAIN line |->
        IF r < q THEN line[r]
        ELSE [line[r] EXCEPT !.buffer =
                [i \in Cell |-> IF r = q /\ i < at THEN @[i]
                                ELSE IF i + 1 < RegionSize THEN @[i + 1]
                                ELSE IF r < Len(line) THEN line[r + 1].buffer[0] ELSE @[i]]]]

\* Backspace behind a character: an empty last region goes instead of it.
Delete(s) ==
    LET line == ShiftDown(s.lines[s.line], s.region, (s.col - 1) % RegionSize)
    IN  IF Last(line).pos > 0 THEN [s EXCEPT !.lines[s.line] = GrowLast(line, -1)]
        ELSE IF Len(line) > 1 THEN [s EXCEPT !.lines[s.line] = Front(line)]
        ELSE Stay(s)

\* Backspace in the first column: the line above loses two characters and
\* gets these.
Join(s) ==
    LET above  == s.lines[s.line - 1]
    IN  [s EXCEPT !.lines = SubSeq(@, 1, s.line - 2)
                            \o << PutChars(GrowLast(above, -2), FlatLine(s.lines[s.line])) >>
                            \o SubSeq(@, s.line + 1, Len(@))]

remove_at_position(s) ==
    IF s.col > 0 THEN Delete(s) ELSE IF s.line > 1 THEN Join(s) ELSE Stay(s)

append_at_position(s, c) ==
    IF c = Backspace THEN remove_at_position(s) ELSE IF c = LF THEN Split(s) ELSE Insert(s, c)

\* At the end of a line there is nothing to write over.
WritesOver(s, c) ==
    LET r == s.lines[s.line][s.region]
        i == Offset(s)
    IN  /\ c \notin {LF, Backspace}
        /\ ~(i = r.pos - 2 /\ At(r, r.pos - 1) = LF)
        /\ ~(i = r.pos /\ At(r, r.pos - 1) # LF)

insert_at_position(s, c) ==
    IF WritesOver(s, c) THEN [s EXCEPT !.lines[s.line][s.region].buffer[Offset(s)] = c]
    ELSE append_at_position(s, c)
-----------------------------------------------------------------------------
(***************************************************************************)
(* Where the editor goes astray                                            *)
(***************************************************************************)
\* The column is behind the line's end, or its region is not the cursor's.
Misplaced(s) ==
    LET line == s.lines[s.line]
        text == FlatLine(line)
    IN  \/ s.col \notin 0 .. Len(text)
        \/ s.col > 0 /\ s.col = Len(text) /\ Last(text) = LF
        \/ s.region \notin DOMAIN line \/ s.region # (s.col \div RegionSize) + 1

\* A character would be lost or go to a place that is not the line's.
Spoils(s, c) ==
    LET line  == s.lines[s.line]
        i     == Offset(s)
        above == s.lines[s.line - 1]
        text  == FlatLine(line)
    IN  CASE c = LF -> \/ i = RegionSize - 1
                       \/ /\ i = 0 /\ line[s.region].pos = RegionSize
                          /\ FlatLine(SubSeq(line, s.region + 1, Len(line))) # <<>>
          [] c = Backspace /\ s.col > 0 -> i = 0 \/ Last(line).pos = 0
          [] c = Backspace /\ s.col = 0 /\ s.line > 1 ->
                \/ Last(above).pos < 2
                \/ FlatLine(above) # <<>> /\ ~IsSuffix(<<CR, LF>>, FlatLine(above))
          [] c \notin {LF, Backspace} ->
                edInsert /\ i = RegionSize - 1 /\ s.col = Len(text) - 2 /\ Last(text) = LF
          [] OTHER -> FALSE

\* The same key on plain lines.
Plain(c) ==
    LET line  == edText[edLine]
        left  == SubSeq(line, 1, edCol)
        right == SubSeq(line, edCol + 1, Len(line))
        with(lines, before) == SubSeq(edText, 1, edLine - 1 - before) \o lines
                               \o SubSeq(edText, edLine + 1, Len(edText))
        ending == right = <<>> \/ (Len(right) = 2 /\ right[2] = LF)
    IN  CASE c = LF -> with(<<left \o <<CR, LF>>, right>>, 0)
          [] c = Backspace /\ edCol > 0 -> with(<<Front(left) \o right>>, 0)
          [] c = Backspace /\ edCol = 0 /\ edLine > 1 ->
                with(<<SubSeq(edText[edLine - 1], 1, Len(edText[edLine - 1]) - 2) \o line>>, 1)
          [] c \notin {LF, Backspace} ->
                with(<<left \o <<c>> \o (IF edInsert /\ ~ending THEN Tail(right) ELSE right)>>, 0)
          [] OTHER -> edText
-----------------------------------------------------------------------------
(***************************************************************************)
(* _main                                                                   *)
(***************************************************************************)
Key == ~edAstray /\ edSaved = <<>> /\ edKeys < MaxKeys /\ edKeys' = edKeys + 1

BecomesEditor(s) ==
    /\ edLines' = s.lines /\ edLine' = s.line /\ edRegion' = s.region /\ edCol' = s.col
    /\ edAstray' = Misplaced(s)

Arrow(s) ==
    /\ Key
    /\ BecomesEditor(s)
    /\ UNCHANGED <<edInsert, edSaved, edText>>

\* The change, then the cursor follows: after backspace to the left, from the
\* line as it is now, even when it is the one above.
Type(c) ==
    LET changed == IF edInsert THEN insert_at_position(Here, c) ELSE append_at_position(Here, c)
        s == IF ~changed.ok THEN Here
             ELSE IF c = Backspace THEN advance_cursor_left(changed) ELSE advance_cursor_right(changed)
    IN  /\ Key
        /\ IF Spoils(Here, c)
           THEN edAstray' = TRUE /\ UNCHANGED <<edLines, edLine, edRegion, edCol, edText>>
           ELSE BecomesEditor(s) /\ edText' = Plain(c)
        /\ UNCHANGED <<edInsert, edSaved>>

ToggleInsert ==
    /\ Key
    /\ edInsert' = ~edInsert
    /\ UNCHANGED <<edLines, edLine, edRegion, edCol, edSaved, edAstray, edText>>

Escape ==
    /\ Key
    /\ edSaved' = write_file(edLines)
    /\ UNCHANGED <<edLines, edLine, edRegion, edCol, edInsert, edAstray, edText>>

EdNext ==
    \/ Arrow(advance_cursor_left(Here)) \/ Arrow(advance_cursor_right(Here))
    \/ Arrow(advance_cursor_up(Here)) \/ Arrow(advance_cursor_down(Here))
    \/ \E c \in Typed \cup {LF, Backspace} : Type(c)
    \/ ToggleInsert \/ Escape

EdSpec == EdInit /\ [][EdNext]_edVars
-----------------------------------------------------------------------------
(* The type invariant of the editor.                                       *)
EdTypeOK ==
    /\ edLine \in 1 .. Len(edLines)
    /\ \A l \in DOMAIN edLines : \A r \in DOMAIN edLines[l] : edLines[l][r].pos \in 0 .. RegionSize
    /\ edInsert \in BOOLEAN /\ edAstray \in BOOLEAN /\ edKeys \in 0 .. MaxKeys

(* As long as the editor does not go astray, its chains of regions hold    *)
(* what the keys make of plain lines, whatever the shifts across regions,  *)
(* the splits and the joins; no region but the last of a line has room     *)
(* left; and that text is what is written on leaving.                      *)
TextKept ==
    /\ Flat(edLines) = edText
    /\ \A l \in DOMAIN edLines : \A r \in 1 .. Len(edLines[l]) - 1 : edLines[l][r].pos = RegionSize
    /\ edSaved # <<>> => edSaved = FlattenSeq(edText)
=============================================================================
