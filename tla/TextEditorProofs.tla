-------------------------- MODULE TextEditorProofs --------------------------
(***************************************************************************)
(* That the editor's chains of regions hold the text, for regions of any   *)
(* size, any file and any keys.                                            *)
(***************************************************************************)
EXTENDS TextEditor, WellFoundedInduction, TLAPS

Region == [buffer : [Cell -> Char], pos : 0 .. RegionSize]

\* A chain of regions, all full but for the last.
IsLine(line) ==
    /\ line \in Seq(Region) /\ line # <<>>
    /\ \A r \in 1 .. Len(line) - 1 : line[r].pos = RegionSize

\* Characters in front of region r.
Start(r) == (r - 1) * RegionSize

Extent(line) == Start(Len(line)) + line[Len(line)].pos

\* The chain holds text, character by character.
Holds(line, text) ==
    /\ text \in Seq(Char) /\ Len(text) = Extent(line)
    /\ \A r \in 1 .. Len(line) : \A i \in 0 .. line[r].pos - 1 :
           text[Start(r) + i + 1] = line[r].buffer[i]

\* LF only at the end.
IsText(text) == text \in Seq(Char) /\ \A k \in 1 .. Len(text) - 1 : text[k] # LF

\* Lines of regions and the plain lines they hold.
LinesHold(lines, texts) ==
    /\ lines \in Seq(Seq(Region)) /\ texts \in Seq(Seq(Char)) /\ Len(lines) = Len(texts)
    /\ \A l \in 1 .. Len(lines) :
           IsLine(lines[l]) /\ FlatLine(lines[l]) = texts[l] /\ IsText(texts[l])

EdInv ==
    /\ LinesHold(edLines, edText)
    /\ edLine \in 1 .. Len(edLines) /\ edInsert \in BOOLEAN /\ edKeys \in 0 .. MaxKeys
    /\ edAstray \in BOOLEAN /\ (~edAstray => ~Misplaced(Here))
    /\ edSaved # <<>> => edSaved = FlattenSeq(edText)
-----------------------------------------------------------------------------
(***************************************************************************)
(* Numbers                                                                 *)
(***************************************************************************)
\* A non-empty set of natural numbers has a least element.
LEMMA LeastNumber ==
    ASSUME NEW S, S \subseteq Nat, S # {}
    PROVE  \E i \in S : \A j \in S : i <= j
<1>1. PICK i \in S : \A j \in S : <<j, i>> \notin OpToRel(<, Nat)
  BY WFMin, NatLessThanWellFounded, Zenon
<1>2. ASSUME NEW j \in S, j < i
      PROVE  FALSE
  BY <1>1, <1>2, Zenon DEF OpToRel
<1> QED
  BY <1>2

\* A set that holds 0 and with each number its successor holds them all up to b.
LEMMA CountUp ==
    ASSUME NEW b \in Nat, NEW S, 0 \in S, \A v \in 0 .. b - 1 : v \in S => v + 1 \in S
    PROVE  \A v \in 0 .. b : v \in S
<1> DEFINE Bad == {n \in Nat : n <= b /\ n \notin S}
<1>1. SUFFICES ASSUME Bad # {} PROVE FALSE
  OBVIOUS
<1>2. PICK n \in Bad : \A k \in Bad : n <= k
  <2>1. Bad \subseteq Nat
    OBVIOUS
  <2> HIDE DEF Bad
  <2> QED
    BY <1>1, <2>1, LeastNumber
<1>3. n # 0
  BY <1>2
<1>4. n - 1 \in Nat /\ n - 1 \notin Bad
  BY <1>2, <1>3
<1>5. n - 1 \in 0 .. b - 1 /\ n - 1 \in S
  BY <1>2, <1>4
<1> QED
  BY <1>2, <1>5

\* Quotient and remainder are the only ones.
LEMMA Division ==
    ASSUME NEW n \in Nat \ {0}, NEW q \in Nat, NEW r \in 0 .. n - 1
    PROVE  (n * q + r) \div n = q /\ (n * q + r) % n = r
OBVIOUS

\* Where the regions start.
LEMMA StartNat ==
    ASSUME NEW r \in Nat \ {0}
    PROVE  Start(r) \in Nat
BY EditorAssumption DEF Start

\* Regions start RegionSize places apart.
LEMMA StartNext ==
    ASSUME NEW r \in Nat \ {0}
    PROVE  Start(r + 1) = Start(r) + RegionSize
BY EditorAssumption DEF Start

\* The first region starts at place 0.
LEMMA StartFirst == Start(1) = 0
BY EditorAssumption DEF Start

\* The places of a region.
LEMMA CellFacts ==
    /\ RegionSize \in Nat /\ RegionSize > 2
    /\ \A i : i \in Cell <=> i \in Nat /\ i < RegionSize
<1>1. RegionSize \in Nat /\ RegionSize > 2
  BY EditorAssumption
<1> QED
  BY <1>1 DEF Cell

\* They do not overlap.
LEMMA StartOrder ==
    ASSUME NEW r \in Nat \ {0}, NEW q \in Nat \ {0}, r < q
    PROVE  Start(r) + RegionSize <= Start(q)
<1>1. PICK d \in Nat : q = r + 1 + d
  <2>1. q - r - 1 \in Nat /\ q = r + 1 + (q - r - 1)
    OBVIOUS
  <2> QED
    BY <2>1
<1>2. RegionSize \in Nat
  BY CellFacts
<1>3. Start(q) = Start(r) + RegionSize + d * RegionSize
  BY <1>1, <1>2 DEF Start
<1>4. d * RegionSize \in Nat /\ Start(r) \in Nat
  BY <1>1, <1>2, StartNat, StartNext, StartFirst
<1> QED
  BY <1>2, <1>3, <1>4

\* Every place lies in one region.
LEMMA PlaceExists ==
    ASSUME NEW k \in Nat
    PROVE  \E r \in Nat \ {0}, i \in Cell : k = Start(r) + i
<1> DEFINE Good == {n \in Nat : \E r \in Nat \ {0}, i \in Cell : n = Start(r) + i}
<1>1. 0 \in Good
  <2>1. 0 = Start(1) + 0 /\ 1 \in Nat \ {0}
    BY StartFirst
  <2>2. 0 \in Cell
    BY CellFacts
  <2> QED
    BY <2>1, <2>2
<1>2. ASSUME NEW n \in 0 .. k - 1, n \in Good PROVE n + 1 \in Good
  <2>1. PICK r \in Nat \ {0}, i \in Cell : n = Start(r) + i
    BY <1>2
  <2>2. CASE i + 1 \in Cell
    <3>1. n + 1 = Start(r) + (i + 1) /\ n + 1 \in Nat
      <4>1. i \in Nat
        BY CellFacts
      <4>2. Start(r) \in Nat
        BY StartNat
      <4> QED
        BY <2>1, <4>1, <4>2
    <3> QED
      BY <2>2, <3>1
  <2>3. CASE i + 1 \notin Cell
    <3>1. i \in Nat /\ i + 1 = RegionSize /\ 0 \in Cell /\ RegionSize \in Nat
      BY <2>3, CellFacts
    <3>2. Start(r + 1) = Start(r) + RegionSize /\ Start(r) \in Nat /\ Start(r + 1) \in Nat
      BY StartNat, StartNext, StartFirst
    <3>3. n + 1 = Start(r + 1) + 0 /\ r + 1 \in Nat \ {0} /\ n + 1 \in Nat
      BY <2>1, <3>1, <3>2
    <3> QED
      BY <3>1, <3>3
  <2> QED
    BY <2>2, <2>3
<1> HIDE DEF Good
<1>3. k \in Good
  BY <1>1, <1>2, CountUp
<1> QED
  BY <1>3 DEF Good

\* The column's region and the place in it.
LEMMA ColumnPlace ==
    ASSUME NEW col \in Nat
    PROVE  /\ col \div RegionSize \in Nat /\ col % RegionSize \in Cell
           /\ col = Start((col \div RegionSize) + 1) + (col % RegionSize)
<1>1. PICK r \in Nat \ {0}, i \in Cell : col = Start(r) + i
  BY PlaceExists
<1>2. RegionSize \in Nat \ {0} /\ r - 1 \in Nat /\ i \in 0 .. RegionSize - 1
  BY CellFacts
<1>3. col = RegionSize * (r - 1) + i
  BY <1>1, <1>2 DEF Start
<1>4. col \div RegionSize = r - 1 /\ col % RegionSize = i
  <2>1. PICK n \in Nat \ {0}, q \in Nat : n = RegionSize /\ q = r - 1
    BY <1>2
  <2>2. i \in 0 .. n - 1 /\ col = n * q + i
    BY <1>2, <1>3, <2>1
  <2>3. col \div n = q /\ col % n = i
    BY <2>2, Division
  <2> QED
    BY <2>1, <2>3
<1> QED
  BY <1>1, <1>2, <1>4
-----------------------------------------------------------------------------
(***************************************************************************)
(* The text of a line                                                      *)
(***************************************************************************)
\* One text behind another.
LEMMA Concat ==
    ASSUME NEW s \in Seq(Char), NEW t \in Seq(Char)
    PROVE  /\ s \o t \in Seq(Char) /\ Len(s \o t) = Len(s) + Len(t)
           /\ Len(s) \in Nat /\ Len(t) \in Nat
           /\ \A k \in 1 .. Len(s) : (s \o t)[k] = s[k]
           /\ \A k \in 1 .. Len(t) : (s \o t)[Len(s) + k] = t[k]
OBVIOUS

\* Texts with the same characters are the same.
LEMMA SameText ==
    ASSUME NEW s \in Seq(Char), NEW t \in Seq(Char), Len(s) = Len(t),
           \A k \in 1 .. Len(s) : s[k] = t[k]
    PROVE  s = t
OBVIOUS

\* A line and its regions.
LEMMA LineFacts ==
    ASSUME NEW line, IsLine(line)
    PROVE  /\ Len(line) \in Nat \ {0}
           /\ \A r \in 1 .. Len(line) :
                  /\ line[r] \in Region /\ line[r].buffer \in [Cell -> Char]
                  /\ line[r].pos \in 0 .. RegionSize
           /\ Extent(line) \in Nat
           /\ \A r \in 1 .. Len(line) : Start(r) \in Nat /\ Start(r) + line[r].pos <= Extent(line)
<1>1. Len(line) \in Nat \ {0}
  BY DEF IsLine
<1>2. \A r \in 1 .. Len(line) : line[r] \in Region /\ line[r].buffer \in [Cell -> Char]
                                /\ line[r].pos \in 0 .. RegionSize
  <2>1. \A r \in 1 .. Len(line) : line[r] \in Region
    BY DEF IsLine
  <2>2. \A x \in Region : x.buffer \in [Cell -> Char] /\ x.pos \in 0 .. RegionSize
    BY DEF Region
  <2> QED
    BY <2>1, <2>2
<1>3. ASSUME NEW r \in 1 .. Len(line)
      PROVE  Start(r) \in Nat /\ Start(r) + line[r].pos <= Extent(line)
  <2>1. Start(r) \in Nat /\ Start(Len(line)) \in Nat /\ RegionSize \in Nat
    <3>1. r \in Nat \ {0}
      BY <1>1
    <3>2. Start(r) \in Nat
      BY <3>1, StartNat
    <3>3. Start(Len(line)) \in Nat
      BY <1>1, StartNat
    <3> QED
      BY <3>2, <3>3, CellFacts
  <2>2. r < Len(line) => Start(r) + RegionSize <= Start(Len(line))
    <3>1. r \in Nat \ {0}
      BY <1>1
    <3> QED
      BY <1>1, <3>1, StartOrder
  <2>3. line[r].pos \in 0 .. RegionSize /\ line[Len(line)].pos \in 0 .. RegionSize
    BY <1>1, <1>2
  <2> QED
    BY <1>1, <2>1, <2>2, <2>3, SMTT(30) DEF Extent
<1>4. Extent(line) \in Nat
  <2>1. Len(line) \in 1 .. Len(line) /\ Len(line) \in Int /\ Len(line) > 0
    BY <1>1
  <2>2. Start(Len(line)) \in Nat
    BY <2>1, StartNat, StartNext, StartFirst
  <2>3. line[Len(line)].pos \in Nat
    BY <1>2, <2>1, CellFacts
  <2> QED
    BY <2>2, <2>3 DEF Extent
<1> QED
  BY <1>1, <1>2, <1>3, <1>4

\* Every character of a line lies in one of its regions.
LEMMA Place ==
    ASSUME NEW line, IsLine(line), NEW k \in 1 .. Extent(line)
    PROVE  \E r \in 1 .. Len(line) : \E i \in 0 .. line[r].pos - 1 : k = Start(r) + i + 1
<1>1. Extent(line) \in Nat /\ Len(line) \in Nat \ {0}
  BY LineFacts
<1>2. PICK r \in Nat \ {0}, i \in Cell : k - 1 = Start(r) + i
  <2>1. k - 1 \in Nat
    BY <1>1
  <2> QED
    BY <2>1, PlaceExists
<1>3. i \in Nat /\ i < RegionSize /\ RegionSize \in Nat /\ Start(r) \in Nat /\ Start(Len(line)) \in Nat
  <2>1. Start(Len(line)) \in Nat
    BY <1>1, StartNat
  <2>2. Start(r) \in Nat
    BY StartNat
  <2> QED
    BY <2>1, <2>2, CellFacts
<1>4. line[Len(line)].pos \in 0 .. RegionSize /\ Extent(line) = Start(Len(line)) + line[Len(line)].pos
  BY <1>1, LineFacts DEF Extent
<1>5. r <= Len(line)
  <2>1. SUFFICES ASSUME Len(line) < r PROVE FALSE
    BY <1>1
  <2>2. Start(Len(line)) + RegionSize <= Start(r)
    BY <1>1, <2>1, StartOrder
  <2> QED
    BY <1>1, <1>2, <1>3, <1>4, <2>2
<1>6. i < line[r].pos
  <2>1. CASE r = Len(line)
    BY <1>1, <1>2, <1>3, <1>4, <2>1
  <2>2. CASE r # Len(line)
    <3>1. line[r].pos = RegionSize
      BY <1>1, <1>5, <2>2 DEF IsLine
    <3> QED
      BY <1>3, <3>1
  <2> QED
    BY <2>1, <2>2
<1>7. k = Start(r) + i + 1
  BY <1>1, <1>2, <1>3
<1>8. line[r].pos \in 0 .. RegionSize
  BY <1>1, <1>5, LineFacts
<1>9. r \in 1 .. Len(line)
  BY <1>1, <1>5
<1>10. i \in 0 .. line[r].pos - 1
  <2>1. PICK p \in 0 .. RegionSize : p = line[r].pos
    BY <1>8
  <2>2. p \in Nat /\ i < p
    BY <1>3, <1>6, <2>1
  <2> QED
    BY <1>3, <2>1, <2>2
<1> QED
  BY <1>7, <1>9, <1>10

\* A line holds one text only.
LEMMA HoldsOne ==
    ASSUME NEW line, IsLine(line), NEW s, NEW t, Holds(line, s), Holds(line, t)
    PROVE  s = t
<1>1. s \in Seq(Char) /\ t \in Seq(Char) /\ Len(s) = Extent(line) /\ Len(t) = Extent(line)
  BY DEF Holds
<1>2. ASSUME NEW k \in 1 .. Len(s) PROVE s[k] = t[k]
  <2>1. PICK r \in 1 .. Len(line) : \E i \in 0 .. line[r].pos - 1 : k = Start(r) + i + 1
    BY <1>1, Place
  <2>2. PICK i \in 0 .. line[r].pos - 1 : k = Start(r) + i + 1
    BY <2>1
  <2> QED
    BY <2>2 DEF Holds
<1> QED
  BY <1>1, <1>2, SameText

\* The characters of a region.
LEMMA TextOfFacts ==
    ASSUME NEW region \in Region
    PROVE  /\ TextOf(region) \in Seq(Char) /\ Len(TextOf(region)) = region.pos
           /\ \A i \in 0 .. region.pos - 1 : TextOf(region)[i + 1] = region.buffer[i]
<1>1. region.pos \in Nat /\ region.pos <= RegionSize /\ RegionSize \in Nat
      /\ region.buffer \in [0 .. RegionSize - 1 -> Char]
  BY CellFacts DEF Region, Cell
<1>2. \A i \in 1 .. region.pos : i - 1 \in 0 .. RegionSize - 1
  BY <1>1
<1>3. TextOf(region) = [i \in 1 .. region.pos |-> region.buffer[i - 1]]
  BY DEF TextOf
<1>4. TextOf(region) \in Seq(Char) /\ Len(TextOf(region)) = region.pos
  <2>1. PICK p \in Nat : p = region.pos
    BY <1>1
  <2>2. \A i \in 1 .. p : region.buffer[i - 1] \in Char
    BY <1>1, <1>2, <2>1
  <2>3. TextOf(region) = [i \in 1 .. p |-> region.buffer[i - 1]]
    BY <1>3, <2>1
  <2> QED
    BY <2>1, <2>2, <2>3
<1>5. ASSUME NEW i \in 0 .. region.pos - 1 PROVE TextOf(region)[i + 1] = region.buffer[i]
  <2>1. i + 1 \in 1 .. region.pos /\ (i + 1) - 1 = i
    BY <1>1
  <2> QED
    BY <1>3, <2>1
<1> QED
  BY <1>4, <1>5

Further(text, region) == text \o TextOf(region)

FlatLoop(f, line, n) ==
    f = [k \in 0 .. n |-> IF k = 0 THEN <<>> ELSE Further(f[k - 1], line[k])]

\* The function of the walk along the regions exists, so that CHOOSE finds it.
LEMMA FlatLoopExists ==
    ASSUME NEW line, NEW len \in Nat
    PROVE  \E f : FlatLoop(f, line, len)
<1> DEFINE Good == {n \in Nat : \E f : FlatLoop(f, line, n)}
<1>1. 0 \in Good
  <2>1. FlatLoop([k \in 0 .. 0 |-> <<>>], line, 0)
    BY DEF FlatLoop
  <2> QED
    BY <2>1
<1>2. ASSUME NEW n \in 0 .. len - 1, n \in Good PROVE n + 1 \in Good
  <2>1. PICK f : FlatLoop(f, line, n)
    BY <1>2
  <2>2. PICK g : g = [k \in 0 .. n + 1 |->
                         IF k = 0 THEN <<>>
                         ELSE Further(IF k = n + 1 THEN f[n] ELSE f[k - 1], line[k])]
    OBVIOUS
  <2>3. /\ n \in Nat
        /\ \A k \in 0 .. n : f[k] = IF k = 0 THEN <<>> ELSE Further(f[k - 1], line[k])
    BY <2>1 DEF FlatLoop
  <2>4. \A k \in 0 .. n : g[k] = f[k]
    BY <2>2, <2>3
  <2>5. \A k \in 0 .. n + 1 : g[k] = IF k = 0 THEN <<>> ELSE Further(g[k - 1], line[k])
    BY <2>2, <2>3, <2>4
  <2>6. FlatLoop(g, line, n + 1)
    BY <2>2, <2>5 DEF FlatLoop
  <2> QED
    BY <2>6
<1> HIDE DEF Good
<1>3. len \in Good
  BY <1>1, <1>2, CountUp
<1> QED
  BY <1>3 DEF Good

\* FlatLine is the last value of that function.
LEMMA FlatLineLoop ==
    ASSUME NEW line, Len(line) \in Nat
    PROVE  \E f : /\ FlatLine(line) = f[Len(line)] /\ f[0] = <<>>
                  /\ \A k \in 1 .. Len(line) : f[k] = Further(f[k - 1], line[k])
<1>1. PICK f : f = CHOOSE g : FlatLoop(g, line, Len(line))
  OBVIOUS
<1>2. FlatLoop(f, line, Len(line))
  <2>1. \E g : FlatLoop(g, line, Len(line))
    BY FlatLoopExists
  <2> QED
    BY <1>1, <2>1, Zenon
<1>3. FlatLine(line) = f[Len(line)]
  BY <1>1 DEF FlatLine, FlatLoop, Further
<1>4. f[0] = <<>> /\ \A k \in 1 .. Len(line) : f[k] = Further(f[k - 1], line[k])
  BY <1>2 DEF FlatLoop
<1> QED
  BY <1>3, <1>4

\* What is read of a line up to its region n, all in front of it being full.
HoldsUpTo(line, text, n) ==
    /\ text \in Seq(Char)
    /\ Len(text) = IF n = 0 THEN 0 ELSE Start(n) + line[n].pos
    /\ \A r \in 1 .. n : \A i \in 0 .. line[r].pos - 1 :
           text[Start(r) + i + 1] = line[r].buffer[i]

\* One region further.
LEMMA HoldsFurther ==
    ASSUME NEW line, IsLine(line), NEW n \in 0 .. Len(line) - 1, NEW text, HoldsUpTo(line, text, n)
    PROVE  HoldsUpTo(line, Further(text, line[n + 1]), n + 1)
<1>1. /\ Len(line) \in Nat \ {0} /\ n \in Nat /\ n + 1 \in 1 .. Len(line)
      /\ \A r \in 1 .. n + 1 : line[r] \in Region /\ line[r].pos \in 0 .. RegionSize
  BY LineFacts
<1>2. PICK next : next = TextOf(line[n + 1])
  OBVIOUS
<1>3. /\ next \in Seq(Char) /\ Len(next) = line[n + 1].pos
      /\ \A i \in 0 .. line[n + 1].pos - 1 : next[i + 1] = line[n + 1].buffer[i]
  BY <1>1, <1>2, TextOfFacts
<1>4. text \in Seq(Char) /\ Len(text) = Start(n + 1) /\ Start(n + 1) \in Nat
  <2>1. CASE n = 0
    <3>1. Start(1) = 0
      BY StartNat, StartNext, StartFirst
    <3> QED
      BY <2>1, <3>1 DEF HoldsUpTo
  <2>2. CASE n # 0
    <3>1. line[n].pos = RegionSize
      BY <1>1, <2>2 DEF IsLine
    <3>2. n \in Int /\ n > 0 /\ n + 1 \in Int /\ n + 1 > 0
      BY <1>1, <2>2
    <3>3. Start(n + 1) = Start(n) + RegionSize /\ Start(n + 1) \in Nat
      BY <3>2, StartNat, StartNext, StartFirst
    <3> QED
      BY <2>2, <3>1, <3>3 DEF HoldsUpTo
  <2> QED
    BY <2>1, <2>2
<1>5. PICK all : all = text \o next
  OBVIOUS
<1>6. /\ all \in Seq(Char) /\ Len(all) = Len(text) + Len(next) /\ Len(next) \in Nat
      /\ \A k \in 1 .. Len(text) : all[k] = text[k]
      /\ \A k \in 1 .. Len(next) : all[Len(text) + k] = next[k]
  BY <1>3, <1>4, <1>5, Concat
<1>7. ASSUME NEW r \in 1 .. n + 1, NEW i \in 0 .. line[r].pos - 1
      PROVE  all[Start(r) + i + 1] = line[r].buffer[i]
  <2>1. i \in Nat /\ i < line[r].pos /\ line[r].pos \in 0 .. RegionSize /\ RegionSize \in Nat
    BY <1>1, CellFacts
  <2>2. CASE r = n + 1
    <3>1. i + 1 \in 1 .. Len(next) /\ next[i + 1] = line[r].buffer[i]
      BY <1>3, <2>1, <2>2
    <3>2. Start(r) + i + 1 = Len(text) + (i + 1)
      BY <1>4, <2>1, <2>2
    <3> QED
      BY <1>6, <3>1, <3>2
  <2>3. CASE r # n + 1
    <3>1. r \in 1 .. n /\ r \in Nat \ {0} /\ r < n + 1 /\ n + 1 \in Nat \ {0}
      BY <1>1, <2>3
    <3>2. Start(r) + RegionSize <= Start(n + 1) /\ Start(r) \in Nat
      <4>1. Start(r) + RegionSize <= Start(n + 1)
        BY <3>1, StartOrder
      <4>2. Start(r) \in Nat
        BY <3>1, StartNat, StartNext, StartFirst
      <4> QED
        BY <4>1, <4>2
    <3>3. Start(r) + i + 1 \in 1 .. Len(text)
      BY <1>4, <2>1, <3>2, SMTT(30)
    <3>4. text[Start(r) + i + 1] = line[r].buffer[i]
      BY <3>1 DEF HoldsUpTo
    <3> QED
      BY <1>6, <3>3, <3>4
  <2> QED
    BY <2>2, <2>3
<1>8. Len(all) = Start(n + 1) + line[n + 1].pos /\ n + 1 # 0
  BY <1>1, <1>3, <1>4, <1>6
<1>9. HoldsUpTo(line, all, n + 1)
  BY <1>6, <1>7, <1>8 DEF HoldsUpTo
<1> QED
  BY <1>2, <1>5, <1>9 DEF Further

\* What FlatLine reads is what the line holds.
LEMMA FlatHolds ==
    ASSUME NEW line, IsLine(line)
    PROVE  Holds(line, FlatLine(line))
<1>1. Len(line) \in Nat \ {0}
  BY LineFacts
<1>2. PICK f : /\ FlatLine(line) = f[Len(line)] /\ f[0] = <<>>
               /\ \A k \in 1 .. Len(line) : f[k] = Further(f[k - 1], line[k])
  BY <1>1, FlatLineLoop
<1> DEFINE Good == {n \in 0 .. Len(line) : HoldsUpTo(line, f[n], n)}
<1>3. 0 \in Good
  <2>1. <<>> \in Seq(Char) /\ Len(<<>>) = 0 /\ 1 .. 0 = {}
    OBVIOUS
  <2>2. HoldsUpTo(line, <<>>, 0)
    BY <2>1 DEF HoldsUpTo
  <2> QED
    BY <1>1, <1>2, <2>2
<1>4. ASSUME NEW n \in 0 .. Len(line) - 1, n \in Good PROVE n + 1 \in Good
  <2>1. n + 1 \in 1 .. Len(line) /\ (n + 1) - 1 = n
    BY <1>1
  <2>2. f[n + 1] = Further(f[n], line[n + 1])
    BY <1>2, <2>1
  <2>3. HoldsUpTo(line, f[n], n)
    BY <1>4
  <2>4. HoldsUpTo(line, f[n + 1], n + 1)
    BY <2>2, <2>3, HoldsFurther
  <2> QED
    BY <2>1, <2>4
<1> HIDE DEF Good
<1>5. Len(line) \in Good
  <2>1. \A n \in 0 .. Len(line) : n \in Good
    BY <1>1, <1>3, <1>4, CountUp
  <2> QED
    BY <1>1, <2>1
<1>6. HoldsUpTo(line, FlatLine(line), Len(line))
  BY <1>2, <1>5 DEF Good
<1> QED
  BY <1>1, <1>6 DEF HoldsUpTo, Holds, Extent

\* So a line that holds a text reads as that text.
LEMMA ReadsAs ==
    ASSUME NEW line, IsLine(line), NEW text, Holds(line, text)
    PROVE  FlatLine(line) = text
BY FlatHolds, HoldsOne

\* No regions, no text.
LEMMA FlatNone == FlatLine(<<>>) = <<>>
<1>1. Len(<<>>) = 0
  OBVIOUS
<1> QED
  BY <1>1, FlatLineLoop
-----------------------------------------------------------------------------
(***************************************************************************)
(* Characters at the end of a line                                         *)
(***************************************************************************)
\* The last region has room.
HasRoom(line) == line[Len(line)].pos < RegionSize

\* A line with another buffer or count in its last region.
LEMMA LastChanged ==
    ASSUME NEW line, IsLine(line), NEW region \in Region
    PROVE  /\ IsLine([line EXCEPT ![Len(line)] = region])
           /\ Len([line EXCEPT ![Len(line)] = region]) = Len(line)
           /\ \A r \in 1 .. Len(line) : [line EXCEPT ![Len(line)] = region][r] =
                                            IF r = Len(line) THEN region ELSE line[r]
BY DEF IsLine

\* An empty region.
LEMMA NewRegionFacts == NewRegion \in Region /\ NewRegion.pos = 0
<1>1. NUL \in Char
  BY DEF NUL, Char
<1>3. RegionSize \in Nat /\ 0 \in 0 .. RegionSize
  BY CellFacts
<1>2. [i \in Cell |-> NUL] \in [Cell -> Char]
  BY <1>1
<1> QED
  BY <1>2, <1>3 DEF NewRegion, Region

\* A full line gets an empty region.
LEMMA RegionAdded ==
    ASSUME NEW line, IsLine(line), ~HasRoom(line)
    PROVE  /\ IsLine(Append(line, NewRegion)) /\ HasRoom(Append(line, NewRegion))
           /\ Len(Append(line, NewRegion)) = Len(line) + 1
           /\ Extent(Append(line, NewRegion)) = Extent(line)
           /\ \A r \in 1 .. Len(line) : Append(line, NewRegion)[r] = line[r]
           /\ Append(line, NewRegion)[Len(line) + 1] = NewRegion
           /\ \A text : Holds(line, text) => Holds(Append(line, NewRegion), text)
<1>1. NewRegion \in Region /\ NewRegion.pos = 0
  BY NewRegionFacts
<1>2. PICK longer : longer = Append(line, NewRegion)
  OBVIOUS
<1>3. /\ Len(line) \in Nat \ {0} /\ line[Len(line)].pos \in 0 .. RegionSize
  BY LineFacts
<1>4. line[Len(line)].pos = RegionSize
  BY <1>3, CellFacts DEF HasRoom
<1>5. /\ longer \in Seq(Region) /\ longer # <<>> /\ Len(longer) = Len(line) + 1
      /\ \A r \in 1 .. Len(line) : longer[r] = line[r]
      /\ longer[Len(line) + 1] = NewRegion
  BY <1>1, <1>2 DEF IsLine
<1>6. \A r \in 1 .. Len(line) : line[r].pos = RegionSize
  BY <1>3, <1>4 DEF IsLine
<1>7. IsLine(longer) /\ HasRoom(longer)
  <2>1. \A r \in 1 .. Len(longer) - 1 : longer[r].pos = RegionSize
    BY <1>3, <1>5, <1>6
  <2>2. longer[Len(longer)].pos < RegionSize
    BY <1>1, <1>5, CellFacts
  <2> QED
    BY <1>5, <2>1, <2>2 DEF IsLine, HasRoom
<1>8. Extent(longer) = Extent(line)
  <2>1. Start(Len(line) + 1) = Start(Len(line)) + RegionSize /\ Start(Len(line)) \in Nat
    BY <1>3, StartNat, StartNext, StartFirst
  <2>2. Extent(longer) = Start(Len(line) + 1) + 0
    BY <1>1, <1>5 DEF Extent
  <2> QED
    BY <1>4, <2>1, <2>2, CellFacts DEF Extent
<1>9. ASSUME NEW text, Holds(line, text) PROVE Holds(longer, text)
  <2>1. ASSUME NEW r \in 1 .. Len(longer), NEW i \in 0 .. longer[r].pos - 1
        PROVE  text[Start(r) + i + 1] = longer[r].buffer[i]
    <3>1. r \in 1 .. Len(line)
      BY <1>1, <1>3, <1>5
    <3>2. longer[r] = line[r]
      BY <1>5, <3>1
    <3> QED
      BY <1>9, <3>1, <3>2 DEF Holds
  <2> QED
    BY <1>8, <1>9, <2>1 DEF Holds
<1> QED
  BY <1>2, <1>5, <1>7, <1>8, <1>9

\* PutChar appends a character and leaves room for the next.
LEMMA PutCharHolds ==
    ASSUME NEW line, IsLine(line), HasRoom(line), NEW c \in Char, NEW text, Holds(line, text)
    PROVE  /\ IsLine(PutChar(line, c)) /\ HasRoom(PutChar(line, c))
           /\ Holds(PutChar(line, c), Append(text, c))
<1>1. PICK n : n = Len(line)
  OBVIOUS
<1>2. PICK p : p = line[n].pos
  OBVIOUS
<1>3. /\ n \in Nat \ {0} /\ n \in 1 .. Len(line) /\ line[n] \in Region
      /\ p \in Nat /\ p < RegionSize /\ RegionSize \in Nat
      /\ line[n].buffer \in [Cell -> Char]
  <2>1. n \in Nat \ {0} /\ n \in 1 .. Len(line)
    BY <1>1, LineFacts
  <2>2. line[n] \in Region /\ line[n].buffer \in [Cell -> Char] /\ p \in 0 .. RegionSize
    BY <1>2, <2>1, LineFacts
  <2>3. p < RegionSize /\ RegionSize \in Nat
    BY <1>1, <1>2, CellFacts DEF HasRoom
  <2> QED
    BY <2>1, <2>2, <2>3
<1>4. PICK full : full = [buffer |-> [line[n].buffer EXCEPT ![p] = c], pos |-> p + 1]
  OBVIOUS
<1>5. /\ full \in Region /\ full.pos = p + 1 /\ full.buffer[p] = c
      /\ \A i \in Cell : i # p => full.buffer[i] = line[n].buffer[i]
  <2>1. p \in Cell /\ p + 1 \in 0 .. RegionSize
    BY <1>3, CellFacts
  <2> QED
    BY <1>3, <1>4, <2>1 DEF Region
<1>6. PICK more : more = [line EXCEPT ![n] = full]
  OBVIOUS
<1>7. /\ IsLine(more) /\ Len(more) = n
      /\ \A r \in 1 .. n : more[r] = IF r = n THEN full ELSE line[r]
  <2>1. more = [line EXCEPT ![Len(line)] = full]
    BY <1>1, <1>6
  <2>2. /\ IsLine(more) /\ Len(more) = Len(line)
        /\ \A r \in 1 .. Len(line) : more[r] = IF r = Len(line) THEN full ELSE line[r]
    BY <1>5, <2>1, LastChanged, Zenon
  <2> QED
    BY <1>1, <2>2
<1>8. Start(n) \in Nat
  BY <1>3, StartNat, StartNext, StartFirst
<1>9. /\ text \in Seq(Char) /\ Len(text) = Start(n) + p
      /\ \A r \in 1 .. n : \A i \in 0 .. line[r].pos - 1 : text[Start(r) + i + 1] = line[r].buffer[i]
  BY <1>1, <1>2 DEF Holds, Extent
<1>10. PICK longer : longer = Append(text, c)
  OBVIOUS
<1>11. /\ longer \in Seq(Char) /\ Len(longer) = Len(text) + 1 /\ longer[Len(text) + 1] = c
       /\ \A k \in 1 .. Len(text) : longer[k] = text[k]
  BY <1>9, <1>10
<1>12. Holds(more, longer)
  <2>1. Len(longer) = Extent(more)
    BY <1>3, <1>5, <1>7, <1>8, <1>9, <1>11 DEF Extent
  <2>2. ASSUME NEW r \in 1 .. Len(more), NEW i \in 0 .. more[r].pos - 1
        PROVE  longer[Start(r) + i + 1] = more[r].buffer[i]
    <3>1. CASE r = n /\ i = p
      BY <1>5, <1>7, <1>8, <1>9, <1>11, <3>1
    <3>2. CASE ~(r = n /\ i = p)
      <4>1. r \in 1 .. n /\ i \in 0 .. line[r].pos - 1 /\ more[r].buffer[i] = line[r].buffer[i]
        <5>1. CASE r = n
          <6>1. i \in 0 .. p - 1 /\ i \in Cell
            BY <1>3, <1>5, <1>7, <3>2, <5>1, CellFacts
          <6> QED
            BY <1>2, <1>5, <1>7, <3>2, <5>1, <6>1
        <5>2. CASE r # n
          BY <1>7, <5>2
        <5> QED
          BY <5>1, <5>2
      <4>2. Start(r) \in Nat /\ Start(r) + line[r].pos <= Extent(line) /\ line[r].pos \in 0 .. RegionSize
        BY <1>1, <4>1, LineFacts
      <4>3. Start(r) + i + 1 \in 1 .. Len(text)
        <5>1. Len(text) = Extent(line)
          BY DEF Holds
        <5>2. PICK w \in 0 .. RegionSize : w = line[r].pos
          BY <4>2
        <5>3. PICK start \in Nat : start = Start(r)
          BY <4>2
        <5>4. start + i + 1 \in 1 .. Len(text)
          <6>1. RegionSize \in Nat /\ i \in 0 .. w - 1 /\ start + w <= Len(text)
            BY <1>3, <4>1, <4>2, <5>1, <5>2, <5>3
          <6>2. Len(text) \in Nat
            BY <1>9
          <6> QED
            BY <6>1, <6>2
        <5> QED
          BY <5>3, <5>4
      <4> QED
        BY <1>9, <1>11, <4>1, <4>3
    <3> QED
      BY <3>1, <3>2
  <2> QED
    BY <1>11, <2>1, <2>2 DEF Holds
<1>13. PutChar(line, c) = IF p + 1 = RegionSize THEN Append(more, NewRegion) ELSE more
  BY <1>1, <1>2, <1>4, <1>6 DEF PutChar
<1>14. more[Len(more)].pos = p + 1
  BY <1>3, <1>5, <1>7
<1>15. CASE p + 1 = RegionSize
  <2>1. ~HasRoom(more)
    BY <1>3, <1>14, <1>15 DEF HasRoom
  <2> QED
    BY <1>7, <1>10, <1>12, <1>13, <1>15, <2>1, RegionAdded
<1>16. CASE p + 1 # RegionSize
  <2>1. HasRoom(more)
    BY <1>3, <1>14, <1>16 DEF HasRoom
  <2> QED
    BY <1>7, <1>10, <1>12, <1>13, <1>16, <2>1
<1> QED
  BY <1>15, <1>16

PutLoop(f, line, text, n) ==
    f = [k \in 0 .. n |-> IF k = 0 THEN line ELSE PutChar(f[k - 1], text[k])]

\* The function of the loop over the characters exists.
LEMMA PutLoopExists ==
    ASSUME NEW line, NEW text, NEW len \in Nat
    PROVE  \E f : PutLoop(f, line, text, len)
<1> DEFINE Good == {n \in Nat : \E f : PutLoop(f, line, text, n)}
<1>1. 0 \in Good
  <2>1. PutLoop([k \in 0 .. 0 |-> line], line, text, 0)
    BY DEF PutLoop
  <2> QED
    BY <2>1
<1>2. ASSUME NEW n \in 0 .. len - 1, n \in Good PROVE n + 1 \in Good
  <2>1. PICK f : PutLoop(f, line, text, n)
    BY <1>2
  <2>2. PICK g : g = [k \in 0 .. n + 1 |->
                         IF k = 0 THEN line
                         ELSE PutChar(IF k = n + 1 THEN f[n] ELSE f[k - 1], text[k])]
    OBVIOUS
  <2>3. /\ n \in Nat
        /\ \A k \in 0 .. n : f[k] = IF k = 0 THEN line ELSE PutChar(f[k - 1], text[k])
    BY <2>1 DEF PutLoop
  <2>4. \A k \in 0 .. n : g[k] = f[k]
    BY <2>2, <2>3
  <2>5. \A k \in 0 .. n + 1 : g[k] = IF k = 0 THEN line ELSE PutChar(g[k - 1], text[k])
    BY <2>2, <2>3, <2>4
  <2>6. PutLoop(g, line, text, n + 1)
    BY <2>2, <2>5 DEF PutLoop
  <2> QED
    BY <2>6
<1> HIDE DEF Good
<1>3. len \in Good
  BY <1>1, <1>2, CountUp
<1> QED
  BY <1>3 DEF Good

\* PutChars is the last value of that function.
LEMMA PutCharsLoop ==
    ASSUME NEW line, NEW text, Len(text) \in Nat
    PROVE  \E f : /\ PutChars(line, text) = f[Len(text)] /\ f[0] = line
                  /\ \A k \in 1 .. Len(text) : f[k] = PutChar(f[k - 1], text[k])
<1>1. PICK f : f = CHOOSE g : PutLoop(g, line, text, Len(text))
  OBVIOUS
<1>2. PutLoop(f, line, text, Len(text))
  <2>1. \E g : PutLoop(g, line, text, Len(text))
    BY PutLoopExists
  <2> QED
    BY <1>1, <2>1, Zenon
<1>3. PutChars(line, text) = f[Len(text)]
  BY <1>1 DEF PutChars, PutLoop
<1>4. f[0] = line /\ \A k \in 1 .. Len(text) : f[k] = PutChar(f[k - 1], text[k])
  BY <1>2 DEF PutLoop
<1> QED
  BY <1>3, <1>4

\* No characters change nothing.
LEMMA PutNone ==
    ASSUME NEW line
    PROVE  PutChars(line, <<>>) = line
<1>1. Len(<<>>) = 0
  OBVIOUS
<1> QED
  BY <1>1, PutCharsLoop

\* A text with more of another behind it.
LEMMA ConcatNext ==
    ASSUME NEW s \in Seq(Char), NEW t \in Seq(Char), NEW n \in 0 .. Len(t) - 1
    PROVE  Append(s \o SubSeq(t, 1, n), t[n + 1]) = s \o SubSeq(t, 1, n + 1)
BY SMTT(30)

\* What appending none and all of a text yields.
LEMMA ConcatEnds ==
    ASSUME NEW s \in Seq(Char), NEW t \in Seq(Char)
    PROVE  s \o SubSeq(t, 1, 0) = s /\ s \o SubSeq(t, 1, Len(t)) = s \o t
OBVIOUS

\* PutChars appends a text.
LEMMA PutCharsHolds ==
    ASSUME NEW line, IsLine(line), HasRoom(line), NEW text, Holds(line, text), NEW more \in Seq(Char)
    PROVE  /\ IsLine(PutChars(line, more))
           /\ Holds(PutChars(line, more), text \o more)
<1>1. Len(more) \in Nat /\ text \in Seq(Char)
  BY DEF Holds
<1>2. PICK f : /\ PutChars(line, more) = f[Len(more)] /\ f[0] = line
               /\ \A k \in 1 .. Len(more) : f[k] = PutChar(f[k - 1], more[k])
  BY <1>1, PutCharsLoop
<1> DEFINE Good == {n \in 0 .. Len(more) :
                        /\ IsLine(f[n]) /\ HasRoom(f[n])
                        /\ Holds(f[n], text \o SubSeq(more, 1, n))}
<1>3. 0 \in Good
  <2>1. text \o SubSeq(more, 1, 0) = text
    BY <1>1, ConcatEnds
  <2>2. IsLine(f[0]) /\ HasRoom(f[0]) /\ Holds(f[0], text \o SubSeq(more, 1, 0))
    BY <1>2, <2>1
  <2>3. 0 \in 0 .. Len(more)
    BY <1>1
  <2> QED
    BY <2>2, <2>3
<1>4. ASSUME NEW n \in 0 .. Len(more) - 1, n \in Good PROVE n + 1 \in Good
  <2>1. n + 1 \in 1 .. Len(more) /\ (n + 1) - 1 = n /\ more[n + 1] \in Char
    BY <1>1
  <2>2. f[n + 1] = PutChar(f[n], more[n + 1])
    BY <1>2, <2>1
  <2>3. PICK told : told = text \o SubSeq(more, 1, n)
    OBVIOUS
  <2>4. IsLine(f[n]) /\ HasRoom(f[n]) /\ Holds(f[n], told)
    BY <1>4, <2>3
  <2>5. /\ IsLine(f[n + 1]) /\ HasRoom(f[n + 1])
        /\ Holds(f[n + 1], Append(told, more[n + 1]))
    BY <2>1, <2>2, <2>4, PutCharHolds
  <2>6. Append(told, more[n + 1]) = text \o SubSeq(more, 1, n + 1)
    BY <1>1, <2>3, ConcatNext
  <2> QED
    BY <2>1, <2>5, <2>6
<1> HIDE DEF Good
<1>5. Len(more) \in Good
  <2>1. \A n \in 0 .. Len(more) : n \in Good
    BY <1>1, <1>3, <1>4, CountUp
  <2> QED
    BY <1>1, <2>1
<1>6. /\ IsLine(f[Len(more)])
      /\ Holds(f[Len(more)], text \o SubSeq(more, 1, Len(more)))
  BY <1>5 DEF Good
<1> QED
  BY <1>1, <1>2, <1>6, ConcatEnds

\* An empty line.
LEMMA EmptyLine ==
    IsLine(<<NewRegion>>) /\ HasRoom(<<NewRegion>>) /\ Holds(<<NewRegion>>, <<>>)
<1>1. NewRegion \in Region /\ NewRegion.pos = 0
  BY NewRegionFacts
<1>2. PICK line : line = <<NewRegion>>
  OBVIOUS
<1>3. line \in Seq(Region) /\ line # <<>> /\ Len(line) = 1 /\ line[1] = NewRegion
  BY <1>1, <1>2
<1>4. IsLine(line)
  BY <1>3 DEF IsLine
<1>5. HasRoom(line)
  BY <1>1, <1>3, CellFacts DEF HasRoom
<1>6. Extent(line) = 0
  BY <1>1, <1>3, StartFirst DEF Extent
<1>7. Holds(line, <<>>)
  <2>1. <<>> \in Seq(Char) /\ Len(<<>>) = 0
    OBVIOUS
  <2>2. \A r \in 1 .. Len(line) : 0 .. line[r].pos - 1 = {}
    BY <1>1, <1>3
  <2> QED
    BY <1>6, <2>1, <2>2 DEF Holds
<1> QED
  BY <1>2, <1>4, <1>5, <1>7

\* What load_file makes of a line of the file.
LEMMA LoadHolds ==
    ASSUME NEW text \in Seq(Char)
    PROVE  /\ IsLine(PutChars(<<NewRegion>>, text))
           /\ FlatLine(PutChars(<<NewRegion>>, text)) = text
<1>1. <<>> \o text = text
  OBVIOUS
<1>2. IsLine(PutChars(<<NewRegion>>, text)) /\ Holds(PutChars(<<NewRegion>>, text), <<>> \o text)
  BY EmptyLine, PutCharsHolds
<1> QED
  BY <1>1, <1>2, ReadsAs
-----------------------------------------------------------------------------
(***************************************************************************)
(* What is written on leaving                                              *)
(***************************************************************************)
Written(text, line) == text \o FlatLine(line)

WriteLoop(f, lines, n) ==
    f = [k \in 0 .. n |-> IF k = 0 THEN <<>> ELSE Written(f[k - 1], lines[k])]

\* The function of the loop over the lines exists.
LEMMA WriteLoopExists ==
    ASSUME NEW lines, NEW len \in Nat
    PROVE  \E f : WriteLoop(f, lines, len)
<1> DEFINE Good == {n \in Nat : \E f : WriteLoop(f, lines, n)}
<1>1. 0 \in Good
  <2>1. WriteLoop([k \in 0 .. 0 |-> <<>>], lines, 0)
    BY DEF WriteLoop
  <2> QED
    BY <2>1
<1>2. ASSUME NEW n \in 0 .. len - 1, n \in Good PROVE n + 1 \in Good
  <2>1. PICK f : WriteLoop(f, lines, n)
    BY <1>2
  <2>2. PICK g : g = [k \in 0 .. n + 1 |->
                         IF k = 0 THEN <<>>
                         ELSE Written(IF k = n + 1 THEN f[n] ELSE f[k - 1], lines[k])]
    OBVIOUS
  <2>3. /\ n \in Nat
        /\ \A k \in 0 .. n : f[k] = IF k = 0 THEN <<>> ELSE Written(f[k - 1], lines[k])
    BY <2>1 DEF WriteLoop
  <2>4. \A k \in 0 .. n : g[k] = f[k]
    BY <2>2, <2>3
  <2>5. \A k \in 0 .. n + 1 : g[k] = IF k = 0 THEN <<>> ELSE Written(g[k - 1], lines[k])
    BY <2>2, <2>3, <2>4
  <2>6. WriteLoop(g, lines, n + 1)
    BY <2>2, <2>5 DEF WriteLoop
  <2> QED
    BY <2>6
<1> HIDE DEF Good
<1>3. len \in Good
  BY <1>1, <1>2, CountUp
<1> QED
  BY <1>3 DEF Good

\* write_file is the last value of that function.
LEMMA WriteFileLoop ==
    ASSUME NEW lines, Len(lines) \in Nat
    PROVE  \E f : /\ write_file(lines) = f[Len(lines)] /\ f[0] = <<>>
                  /\ \A k \in 1 .. Len(lines) : f[k] = Written(f[k - 1], lines[k])
<1>1. PICK f : f = CHOOSE g : WriteLoop(g, lines, Len(lines))
  OBVIOUS
<1>2. WriteLoop(f, lines, Len(lines))
  <2>1. \E g : WriteLoop(g, lines, Len(lines))
    BY WriteLoopExists
  <2> QED
    BY <1>1, <2>1, Zenon
<1>3. write_file(lines) = f[Len(lines)]
  BY <1>1 DEF write_file, WriteLoop, Written
<1>4. f[0] = <<>> /\ \A k \in 1 .. Len(lines) : f[k] = Written(f[k - 1], lines[k])
  BY <1>2 DEF WriteLoop
<1> QED
  BY <1>3, <1>4

JoinLoop(f, texts, n) ==
    f = [k \in 1 .. n |-> IF k = 1 THEN texts[k] ELSE f[k - 1] \o texts[k]]

\* FlattenSeq is the last value of such a function.
LEMMA FlattenLoop ==
    ASSUME NEW texts, Len(texts) \in Nat \ {0}, NEW f, JoinLoop(f, texts, Len(texts))
    PROVE  FlattenSeq(texts) = f[Len(texts)]
<1>1. PICK g : g = CHOOSE h : JoinLoop(h, texts, Len(texts))
  OBVIOUS
<1>2. JoinLoop(g, texts, Len(texts))
  BY <1>1, Zenon
<1>3. FlattenSeq(texts) = g[Len(texts)]
  BY <1>1 DEF FlattenSeq, JoinLoop
<1> DEFINE Good == {n \in 1 .. Len(texts) : g[n] = f[n]}
<1>4. \A k \in 1 .. Len(texts) :
          /\ f[k] = IF k = 1 THEN texts[k] ELSE f[k - 1] \o texts[k]
          /\ g[k] = IF k = 1 THEN texts[k] ELSE g[k - 1] \o texts[k]
  BY <1>2 DEF JoinLoop
<1>5. 0 + 1 \in Good
  BY <1>4
<1>6. ASSUME NEW n \in 0 .. (Len(texts) - 1) - 1, n + 1 \in Good PROVE (n + 1) + 1 \in Good
  <2>1. (n + 1) + 1 \in 1 .. Len(texts) /\ (n + 1) + 1 # 1 /\ ((n + 1) + 1) - 1 = n + 1
    OBVIOUS
  <2> QED
    BY <1>4, <1>6, <2>1
<1> DEFINE Less == {n \in Nat : n + 1 \in Good}
<1>7. 0 \in Less /\ \A n \in 0 .. (Len(texts) - 1) - 1 : n \in Less => n + 1 \in Less
  BY <1>5, <1>6
<1> HIDE DEF Good
<1>8. Len(texts) - 1 \in Less
  <2>1. Len(texts) - 1 \in Nat
    OBVIOUS
  <2> HIDE DEF Less
  <2>2. \A n \in 0 .. Len(texts) - 1 : n \in Less
    BY <1>7, <2>1, CountUp
  <2> QED
    BY <2>1, <2>2
<1>9. Len(texts) \in Good
  BY <1>8
<1> QED
  BY <1>3, <1>9 DEF Good

\* write_file writes the lines one behind the other.
LEMMA WriteAll ==
    ASSUME NEW lines, NEW texts \in Seq(Seq(Char)), Len(lines) = Len(texts),
           \A l \in 1 .. Len(lines) : FlatLine(lines[l]) = texts[l]
    PROVE  write_file(lines) = FlattenSeq(texts)
<1>1. Len(lines) \in Nat
  OBVIOUS
<1>2. PICK f : /\ write_file(lines) = f[Len(lines)] /\ f[0] = <<>>
               /\ \A k \in 1 .. Len(lines) : f[k] = Written(f[k - 1], lines[k])
  BY <1>1, WriteFileLoop
<1>3. CASE Len(texts) = 0
  <2>1. texts = <<>>
    BY <1>3
  <2>2. FlattenSeq(texts) = texts
    BY <1>3 DEF FlattenSeq
  <2> QED
    BY <1>2, <1>3, <2>1, <2>2
<1>4. CASE Len(texts) # 0
  <2>1. PICK g : g = [k \in 1 .. Len(texts) |-> f[k]]
    OBVIOUS
  <2>2. ASSUME NEW k \in 1 .. Len(texts)
        PROVE  g[k] = IF k = 1 THEN texts[k] ELSE g[k - 1] \o texts[k]
    <3>1. texts[k] \in Seq(Char) /\ FlatLine(lines[k]) = texts[k] /\ f[k] = Written(f[k - 1], lines[k])
      BY <1>2
    <3>2. g[k] = f[k] /\ f[k] = f[k - 1] \o texts[k]
      BY <2>1, <3>1 DEF Written
    <3>3. CASE k = 1
      <4>1. f[k - 1] = <<>> /\ <<>> \o texts[k] = texts[k]
        BY <1>2, <3>1, <3>3
      <4> QED
        BY <3>2, <3>3, <4>1
    <3>4. CASE k # 1
      <4>1. k - 1 \in 1 .. Len(texts)
        BY <3>4
      <4>2. g[k - 1] = f[k - 1]
        BY <2>1, <4>1
      <4> QED
        BY <3>2, <3>4, <4>2
    <3> QED
      BY <3>3, <3>4
  <2>3. JoinLoop(g, texts, Len(texts))
    BY <2>1, <2>2 DEF JoinLoop
  <2>4. FlattenSeq(texts) = g[Len(texts)]
    BY <1>1, <1>4, <2>3, FlattenLoop
  <2> QED
    BY <1>1, <1>2, <1>4, <2>1, <2>4
<1> QED
  BY <1>3, <1>4
-----------------------------------------------------------------------------
(***************************************************************************)
(* Characters in the middle of a line                                      *)
(***************************************************************************)
\* Places are ordered by region, then by position.
LEMMA PlaceOrder ==
    ASSUME NEW r \in Nat \ {0}, NEW q \in Nat \ {0}, NEW i \in Cell, NEW at \in Cell
    PROVE  /\ Start(r) + i \in Nat
           /\ Start(r) + i < Start(q) + at <=> r < q \/ (r = q /\ i < at)
<1>1. i \in Nat /\ at \in Nat /\ i < RegionSize /\ at < RegionSize /\ RegionSize \in Nat
  BY CellFacts
<1>2. Start(r) \in Nat
  BY StartNat
<1>3. Start(q) \in Nat
  BY StartNat
<1>4. CASE r < q
  <2>1. Start(r) + RegionSize <= Start(q)
    BY <1>4, StartOrder
  <2> QED
    BY <1>1, <1>2, <1>3, <1>4, <2>1
<1>5. CASE q < r
  <2>1. Start(q) + RegionSize <= Start(r)
    BY <1>5, StartOrder
  <2> QED
    BY <1>1, <1>2, <1>3, <1>5, <2>1
<1>6. CASE r = q
  BY <1>1, <1>2, <1>6
<1> QED
  BY <1>4, <1>5, <1>6

\* A place lies in one region only.
LEMMA PlaceSame ==
    ASSUME NEW r \in Nat \ {0}, NEW q \in Nat \ {0}, NEW i \in Cell, NEW at \in Cell
    PROVE  Start(r) + i = Start(q) + at => r = q /\ i = at
<1>1. i \in Nat /\ at \in Nat /\ i < RegionSize /\ at < RegionSize /\ RegionSize \in Nat
  BY CellFacts
<1>2. Start(r) \in Nat
  BY StartNat
<1>3. Start(q) \in Nat
  BY StartNat
<1>4. CASE r < q
  <2>1. Start(r) + RegionSize <= Start(q)
    BY <1>4, StartOrder
  <2> QED
    BY <1>1, <1>2, <1>3, <1>4, <2>1
<1>5. CASE q < r
  <2>1. Start(q) + RegionSize <= Start(r)
    BY <1>5, StartOrder
  <2> QED
    BY <1>1, <1>2, <1>3, <1>5, <2>1
<1>6. CASE r = q
  BY <1>1, <1>2, <1>6
<1> QED
  BY <1>4, <1>5, <1>6

\* A place in front of the line's end is one of its region's characters.
LEMMA HoldsAt ==
    ASSUME NEW line, IsLine(line), NEW text, Holds(line, text),
           NEW r \in 1 .. Len(line), NEW i \in Cell, Start(r) + i < Extent(line)
    PROVE  /\ i \in 0 .. line[r].pos - 1
           /\ text[Start(r) + i + 1] = line[r].buffer[i]
<1>1. i \in Nat /\ i < RegionSize /\ RegionSize \in Nat
  BY CellFacts
<1>2. Len(line) \in Nat \ {0} /\ line[r].pos \in 0 .. RegionSize
  BY LineFacts
<1>3. Start(r) \in Nat
  BY <1>2, StartNat
<1>4. i < line[r].pos
  <2>1. CASE r = Len(line)
    BY <1>1, <1>2, <1>3, <2>1 DEF Extent
  <2>2. CASE r # Len(line)
    <3>1. line[r].pos = RegionSize
      BY <1>2, <2>2 DEF IsLine
    <3> QED
      BY <1>1, <3>1
  <2> QED
    BY <2>1, <2>2
<1>5. i \in 0 .. line[r].pos - 1
  BY <1>1, <1>2, <1>4
<1> QED
  BY <1>5 DEF Holds

\* The other way: a character of a region is in front of the line's end.
LEMMA PlaceOf ==
    ASSUME NEW line, IsLine(line), NEW r \in 1 .. Len(line), NEW i \in 0 .. line[r].pos - 1
    PROVE  i \in Cell /\ r \in Nat \ {0} /\ Start(r) \in Nat /\ Start(r) + i < Extent(line)
<1>1. /\ line[r].pos \in 0 .. RegionSize /\ Extent(line) \in Nat /\ Len(line) \in Nat
      /\ Start(r) \in Nat /\ Start(r) + line[r].pos <= Extent(line)
  BY LineFacts
<1>2. RegionSize \in Nat
  BY CellFacts
<1>3. i \in Nat /\ i < RegionSize
  BY <1>1, <1>2
<1>4. i \in Cell
  BY <1>3, CellFacts
<1>5. Start(r) + i < Extent(line)
  BY <1>1, <1>3
<1> QED
  BY <1>1, <1>4, <1>5

\* The last region's count changes, its characters do not.
LEMMA GrowFacts ==
    ASSUME NEW line, IsLine(line), NEW by \in Int, line[Len(line)].pos + by \in 0 .. RegionSize
    PROVE  /\ IsLine(GrowLast(line, by)) /\ Len(GrowLast(line, by)) = Len(line)
           /\ Extent(GrowLast(line, by)) = Extent(line) + by
           /\ GrowLast(line, by)[Len(line)].pos = line[Len(line)].pos + by
           /\ \A r \in 1 .. Len(line) : GrowLast(line, by)[r].buffer = line[r].buffer
<1>1. PICK n : n = Len(line)
  OBVIOUS
<1>2. n \in Nat \ {0} /\ line \in Seq(Region) /\ line[n] \in Region /\ line[n].pos \in 0 .. RegionSize
  <2>1. n \in Nat \ {0}
    BY <1>1, LineFacts
  <2> QED
    BY <1>1, <2>1, LineFacts DEF IsLine
<1>3. PICK last : last = [line[n] EXCEPT !.pos = @ + by]
  OBVIOUS
<1>4. last \in Region /\ last.pos = line[n].pos + by /\ last.buffer = line[n].buffer
  BY <1>1, <1>2, <1>3 DEF Region
<1>5. GrowLast(line, by) = [line EXCEPT ![n] = last]
  <2>1. GrowLast(line, by) = Append(SubSeq(line, 1, n - 1), last)
    BY <1>1, <1>3 DEF GrowLast, Front, Last
  <2>2. line \in Seq(Region) /\ n = Len(line) /\ n > 0
    BY <1>1, <1>2
  <2>3. Append(SubSeq(line, 1, n - 1), last) = [line EXCEPT ![n] = last]
    BY <1>4, <2>2
  <2> QED
    BY <2>1, <2>3
<1>6. PICK new : new = GrowLast(line, by)
  OBVIOUS
<1>7. /\ IsLine(new) /\ Len(new) = Len(line)
      /\ \A r \in 1 .. Len(line) : new[r] = IF r = Len(line) THEN last ELSE line[r]
  <2>1. new = [line EXCEPT ![Len(line)] = last]
    BY <1>1, <1>5, <1>6
  <2> QED
    BY <1>4, <2>1, LastChanged, Zenon
<1>8. new[n].pos = line[n].pos + by /\ \A r \in 1 .. Len(line) : new[r].buffer = line[r].buffer
  <2>1. n \in 1 .. Len(line) /\ new[n] = last
    BY <1>1, <1>2, <1>7
  <2>2. ASSUME NEW r \in 1 .. Len(line) PROVE new[r].buffer = line[r].buffer
    <3>1. CASE r = n
      BY <1>4, <2>1, <3>1
    <3>2. CASE r # n
      BY <1>1, <1>7, <3>2
    <3> QED
      BY <3>1, <3>2
  <2> QED
    BY <1>4, <2>1, <2>2
<1>9. Start(n) \in Nat
  BY <1>2, StartNat
<1>10. Extent(new) = Extent(line) + by
  BY <1>1, <1>2, <1>7, <1>8, <1>9 DEF Extent
<1> QED
  BY <1>1, <1>6, <1>7, <1>8, <1>10

\* The regions of a line with other characters.
Rewritten(line, B) == [r \in DOMAIN line |-> [line[r] EXCEPT !.buffer = B[r]]]

\* A line whose buffers are replaced and whose positions stay is still a line of the same extent.
LEMMA NewBuffers ==
    ASSUME NEW line, IsLine(line), NEW B, \A r \in 1 .. Len(line) : B[r] \in [Cell -> Char],
           NEW new, new = Rewritten(line, B)
    PROVE  /\ IsLine(new) /\ Len(new) = Len(line) /\ Extent(new) = Extent(line)
           /\ \A r \in 1 .. Len(line) : new[r].pos = line[r].pos /\ new[r].buffer = B[r]
<1>1. PICK n : n = Len(line)
  OBVIOUS
<1>2. n \in Nat \ {0} /\ DOMAIN line = 1 .. n /\ \A r \in 1 .. n : line[r] \in Region
  <2>1. line \in Seq(Region)
    BY DEF IsLine
  <2> QED
    BY <1>1, <2>1, LineFacts
<1>3. ASSUME NEW r \in 1 .. n
      PROVE  new[r] \in Region /\ new[r].pos = line[r].pos /\ new[r].buffer = B[r]
  <2>1. new[r] = [line[r] EXCEPT !.buffer = B[r]]
    BY <1>2 DEF Rewritten
  <2>2. line[r] \in Region /\ B[r] \in [Cell -> Char]
    BY <1>1, <1>2
  <2> QED
    BY <2>1, <2>2 DEF Region
<1>4. new \in Seq(Region) /\ Len(new) = n
  <2>1. new = [r \in 1 .. n |-> new[r]]
    BY <1>2 DEF Rewritten
  <2> QED
    BY <1>2, <1>3, <2>1
<1>5. \A r \in 1 .. n - 1 : new[r].pos = RegionSize
  <2>1. \A r \in 1 .. n - 1 : r \in 1 .. n /\ line[r].pos = RegionSize
    BY <1>1, <1>2 DEF IsLine
  <2> QED
    BY <1>3, <2>1
<1>6. IsLine(new)
  BY <1>2, <1>4, <1>5 DEF IsLine
<1>7. Extent(new) = Extent(line)
  BY <1>1, <1>2, <1>3, <1>4 DEF Extent
<1> QED
  BY <1>1, <1>3, <1>4, <1>6, <1>7

\* A character put into a text.
With(text, col, c) == SubSeq(text, 1, col) \o <<c>> \o SubSeq(text, col + 1, Len(text))

\* The characters of a text with one more character in it.
LEMMA WithFacts ==
    ASSUME NEW text \in Seq(Char), NEW col \in 0 .. Len(text), NEW c \in Char
    PROVE  /\ With(text, col, c) \in Seq(Char) /\ Len(With(text, col, c)) = Len(text) + 1
           /\ \A k \in 1 .. col : With(text, col, c)[k] = text[k]
           /\ With(text, col, c)[col + 1] = c
           /\ \A k \in col + 1 .. Len(text) : With(text, col, c)[k + 1] = text[k]
<1>1. PICK left : left = SubSeq(text, 1, col)
  OBVIOUS
<1>2. PICK right : right = SubSeq(text, col + 1, Len(text))
  OBVIOUS
<1>3. Len(text) \in Nat /\ col \in Nat /\ col <= Len(text)
  OBVIOUS
<1>4. /\ left \in Seq(Char) /\ Len(left) = col
      /\ \A k \in 1 .. col : left[k] = text[k]
  BY <1>1, <1>3
<1>5. /\ right \in Seq(Char) /\ Len(right) = Len(text) - col
      /\ \A k \in 1 .. Len(text) - col : right[k] = text[col + k]
  BY <1>2, <1>3
<1>6. PICK one : one = <<c>>
  OBVIOUS
<1>7. one \in Seq(Char) /\ Len(one) = 1 /\ one[1] = c
  BY <1>6
<1>8. PICK begun : begun = left \o one
  OBVIOUS
<1>9. /\ begun \in Seq(Char) /\ Len(begun) = col + 1
      /\ \A k \in 1 .. col : begun[k] = text[k]
      /\ begun[col + 1] = c
  <2>1. /\ begun \in Seq(Char) /\ Len(begun) = Len(left) + Len(one)
        /\ \A k \in 1 .. Len(left) : begun[k] = left[k]
        /\ \A k \in 1 .. Len(one) : begun[Len(left) + k] = one[k]
    BY <1>4, <1>7, <1>8, Concat
  <2> QED
    BY <1>3, <1>4, <1>7, <2>1
<1>10. PICK all : all = begun \o right
  OBVIOUS
<1>11. /\ all \in Seq(Char) /\ Len(all) = Len(begun) + Len(right)
       /\ \A k \in 1 .. Len(begun) : all[k] = begun[k]
       /\ \A k \in 1 .. Len(right) : all[Len(begun) + k] = right[k]
  BY <1>5, <1>9, <1>10, Concat
<1>12. With(text, col, c) = all
  BY <1>1, <1>2, <1>6, <1>8, <1>10 DEF With
<1>13. all \in Seq(Char) /\ Len(all) = Len(text) + 1
  BY <1>3, <1>5, <1>9, <1>11
<1>14. /\ \A k \in 1 .. col : all[k] = text[k]
       /\ all[col + 1] = c
  BY <1>3, <1>9, <1>11
<1>15. ASSUME NEW k \in col + 1 .. Len(text) PROVE all[k + 1] = text[k]
  <2>1. k - col \in 1 .. Len(right) /\ (col + 1) + (k - col) = k + 1 /\ col + (k - col) = k
    BY <1>3, <1>5
  <2>2. all[(col + 1) + (k - col)] = right[k - col] /\ right[k - col] = text[col + (k - col)]
    BY <1>5, <1>9, <1>11, <2>1
  <2> QED
    BY <2>1, <2>2
<1> QED
  BY <1>12, <1>13, <1>14, <1>15

\* ShiftUp and the longer last region put the character in at its place.
LEMMA InsertHolds ==
    ASSUME NEW line, IsLine(line), HasRoom(line), NEW text, Holds(line, text),
           NEW q \in 1 .. Len(line), NEW at \in Cell, Start(q) + at <= Len(text), NEW c \in Char
    PROVE  /\ IsLine(GrowLast(ShiftUp(line, q, at, c), 1))
           /\ Holds(GrowLast(ShiftUp(line, q, at, c), 1), With(text, Start(q) + at, c))
<1>1. /\ Len(line) \in Nat \ {0} /\ RegionSize \in Nat /\ RegionSize > 2 /\ q \in Nat \ {0}
      /\ \A i : i \in Cell <=> i \in Nat /\ i < RegionSize
  BY LineFacts, CellFacts
<1>2. PICK B : B = [r \in 1 .. Len(line) |->
                       IF r < q THEN line[r].buffer
                       ELSE [i \in Cell |-> IF r = q /\ i < at THEN line[r].buffer[i]
                                            ELSE IF r = q /\ i = at THEN c
                                            ELSE IF i > 0 THEN line[r].buffer[i - 1]
                                            ELSE line[r - 1].buffer[RegionSize - 1]]]
  OBVIOUS
<1>3. \A r \in 1 .. Len(line) : line[r].buffer \in [Cell -> Char]
  BY LineFacts
<1>4. ASSUME NEW r \in 1 .. Len(line) PROVE B[r] \in [Cell -> Char]
  <2>1. CASE r < q
    BY <1>2, <1>3, <2>1
  <2>2. CASE ~(r < q)
    <3>1. ASSUME NEW i \in Cell
          PROVE  (IF r = q /\ i < at THEN line[r].buffer[i]
                  ELSE IF r = q /\ i = at THEN c
                  ELSE IF i > 0 THEN line[r].buffer[i - 1]
                  ELSE line[r - 1].buffer[RegionSize - 1]) \in Char
      <4>1. CASE (r = q /\ i < at) \/ (r = q /\ i = at)
        BY <1>3, <4>1
      <4>2. CASE ~(r = q /\ i < at) /\ ~(r = q /\ i = at) /\ i > 0
        <5>1. i - 1 \in Cell
          BY <1>1, <4>2
        <5> QED
          BY <1>3, <4>2, <5>1
      <4>3. CASE ~(r = q /\ i < at) /\ ~(r = q /\ i = at) /\ ~(i > 0)
        <5>1. RegionSize - 1 \in Cell /\ r - 1 \in 1 .. Len(line)
          BY <1>1, <2>2, <4>3
        <5> QED
          BY <1>3, <4>3, <5>1
      <4> QED
        BY <4>1, <4>2, <4>3
    <3> QED
      BY <1>2, <2>2, <3>1
  <2> QED
    BY <2>1, <2>2
<1>5. PICK up : up = ShiftUp(line, q, at, c)
  OBVIOUS
<1>6. up = Rewritten(line, B)
  <2>1. DOMAIN line = 1 .. Len(line)
    BY DEF IsLine
  <2>2. ASSUME NEW r \in 1 .. Len(line)
        PROVE  up[r] = [line[r] EXCEPT !.buffer = B[r]]
    <3>1. CASE r < q
      <4>1. up[r] = line[r] /\ B[r] = line[r].buffer
        BY <1>2, <1>5, <2>1, <3>1 DEF ShiftUp
      <4>2. line[r] \in Region
        BY LineFacts
      <4> QED
        BY <4>1, <4>2 DEF Region
    <3>2. CASE ~(r < q)
      BY <1>2, <1>5, <2>1, <3>2 DEF ShiftUp
    <3> QED
      BY <3>1, <3>2
  <2>3. up = [r \in 1 .. Len(line) |-> up[r]]
    BY <1>5, <2>1 DEF ShiftUp
  <2> QED
    BY <2>1, <2>2, <2>3 DEF Rewritten
<1>7. /\ IsLine(up) /\ Len(up) = Len(line) /\ Extent(up) = Extent(line)
      /\ \A r \in 1 .. Len(line) : up[r].pos = line[r].pos /\ up[r].buffer = B[r]
  BY <1>4, <1>6, NewBuffers
<1>8. PICK new : new = GrowLast(up, 1)
  OBVIOUS
<1>9. /\ IsLine(new) /\ Len(new) = Len(line) /\ Extent(new) = Extent(line) + 1
      /\ \A r \in 1 .. Len(line) : new[r].buffer = B[r]
  <2>1. up[Len(up)].pos + 1 \in 0 .. RegionSize
    <3>1. up[Len(line)].pos = line[Len(line)].pos /\ line[Len(line)].pos \in 0 .. RegionSize
      BY <1>1, <1>7, LineFacts
    <3> QED
      BY <1>1, <1>7, <3>1 DEF HasRoom
  <2>2. /\ IsLine(new) /\ Len(new) = Len(up) /\ Extent(new) = Extent(up) + 1
        /\ \A r \in 1 .. Len(up) : new[r].buffer = up[r].buffer
    BY <1>7, <1>8, <2>1, GrowFacts
  <2> QED
    BY <1>7, <2>2
<1>10. PICK col : col = Start(q) + at
  OBVIOUS
<1>11. PICK longer : longer = With(text, col, c)
  OBVIOUS
<1>12. text \in Seq(Char) /\ Len(text) = Extent(line) /\ Len(text) \in Nat /\ col \in 0 .. Len(text)
  <2>1. Start(q) \in Nat
    BY <1>1, StartNat
  <2>2. text \in Seq(Char) /\ Len(text) = Extent(line) /\ Len(text) \in Nat
    BY DEF Holds
  <2> QED
    BY <1>1, <1>10, <2>1, <2>2
<1>13. /\ longer \in Seq(Char) /\ Len(longer) = Len(text) + 1
       /\ \A k \in 1 .. col : longer[k] = text[k]
       /\ longer[col + 1] = c
       /\ \A k \in col + 1 .. Len(text) : longer[k + 1] = text[k]
  BY <1>11, <1>12, WithFacts
<1>14. ASSUME NEW r \in 1 .. Len(new), NEW i \in 0 .. new[r].pos - 1
       PROVE  longer[Start(r) + i + 1] = new[r].buffer[i]
  <2>1. i \in Cell /\ r \in Nat \ {0} /\ Start(r) \in Nat /\ Start(r) + i < Extent(line) + 1
    BY <1>9, PlaceOf
  <2>2. r \in 1 .. Len(line) /\ new[r].buffer[i] = B[r][i] /\ i \in Nat /\ i < RegionSize
    BY <1>1, <1>9, <2>1
  <2>3. /\ Start(r) + i < col <=> r < q \/ (r = q /\ i < at)
        /\ Start(r) + i = col <=> r = q /\ i = at
    <3>1. /\ Start(r) + i < Start(q) + at <=> r < q \/ (r = q /\ i < at)
          /\ Start(r) + i = Start(q) + at => r = q /\ i = at
      <4>1. q \in Nat \ {0} /\ r \in Nat \ {0} /\ i \in Cell
        BY <1>1, <2>1
      <4>2. Start(r) + i < Start(q) + at <=> r < q \/ (r = q /\ i < at)
        BY <4>1, PlaceOrder, Zenon
      <4>3. Start(r) + i = Start(q) + at => r = q /\ i = at
        BY <4>1, PlaceSame, ZenonT(30)
      <4> QED
        BY <4>2, <4>3
    <3> QED
      BY <1>10, <3>1
  <2>4. CASE r < q \/ (r = q /\ i < at)
    <3>1. B[r][i] = line[r].buffer[i]
      BY <1>2, <2>1, <2>2, <2>4
    <3>2. Start(r) + i < col /\ Start(r) + i < Extent(line) /\ Start(r) + i + 1 \in 1 .. col
      BY <1>12, <2>1, <2>2, <2>3, <2>4
    <3>3. text[Start(r) + i + 1] = line[r].buffer[i]
      BY <2>1, <2>2, <3>2, HoldsAt
    <3> QED
      BY <1>13, <2>2, <3>1, <3>2, <3>3
  <2>5. CASE r = q /\ i = at
    <3>1. B[r][i] = c
      BY <1>1, <1>2, <2>1, <2>2, <2>5
    <3> QED
      BY <1>13, <2>2, <2>3, <2>5, <3>1
  <2>6. CASE ~(r < q \/ (r = q /\ i < at)) /\ ~(r = q /\ i = at)
    <3>1. B[r][i] = IF i > 0 THEN line[r].buffer[i - 1] ELSE line[r - 1].buffer[RegionSize - 1]
      BY <1>2, <2>1, <2>2, <2>6
    <3>2. PICK k : k = Start(r) + i
      OBVIOUS
    <3>3. k \in col + 1 .. Len(text) /\ k - 1 \in Nat /\ k - 1 < Extent(line)
      BY <1>12, <2>1, <2>2, <2>3, <2>6, <3>2, SMTT(30)
    <3>4. longer[k + 1] = text[k]
      BY <1>13, <3>3
    <3>5. text[k] = B[r][i]
      <4>1. CASE i > 0
        <5>1. i - 1 \in Cell /\ Start(r) + (i - 1) = k - 1 /\ Start(r) + (i - 1) + 1 = k
          <6>1. i - 1 \in Nat /\ i - 1 < RegionSize
            BY <1>1, <2>2, <4>1
          <6>2. i - 1 \in Cell
            BY <1>1, <6>1
          <6>3. Start(r) + (i - 1) = k - 1 /\ Start(r) + (i - 1) + 1 = k
            BY <2>1, <2>2, <3>2
          <6> QED
            BY <6>2, <6>3
        <5>2. text[Start(r) + (i - 1) + 1] = line[r].buffer[i - 1]
          BY <2>2, <3>3, <5>1, HoldsAt
        <5> QED
          BY <3>1, <4>1, <5>1, <5>2
      <4>2. CASE ~(i > 0)
        <5>1. i = 0 /\ r > q
          BY <1>1, <2>1, <2>2, <2>6, <4>2
        <5>2. r - 1 \in Nat \ {0} /\ r - 1 \in 1 .. Len(line) /\ RegionSize - 1 \in Cell /\ (r - 1) + 1 = r
          BY <1>1, <2>2, <5>1
        <5>3. Start(r) = Start(r - 1) + RegionSize /\ Start(r - 1) \in Nat
          <6>1. Start((r - 1) + 1) = Start(r - 1) + RegionSize
            BY <5>2, StartNext
          <6>2. Start(r - 1) \in Nat
            BY <5>2, StartNat
          <6> QED
            BY <5>2, <6>1, <6>2
        <5>4. /\ Start(r - 1) + (RegionSize - 1) = k - 1
              /\ Start(r - 1) + (RegionSize - 1) + 1 = k
          BY <1>1, <3>2, <5>1, <5>3
        <5>5. text[Start(r - 1) + (RegionSize - 1) + 1] = line[r - 1].buffer[RegionSize - 1]
          BY <3>3, <5>2, <5>4, HoldsAt
        <5> QED
          BY <3>1, <4>2, <5>4, <5>5
      <4> QED
        BY <4>1, <4>2
    <3> QED
      BY <2>2, <3>2, <3>4, <3>5
  <2> QED
    BY <2>4, <2>5, <2>6
<1>15. Holds(new, longer)
  BY <1>9, <1>12, <1>13, <1>14 DEF Holds
<1> QED
  BY <1>5, <1>8, <1>9, <1>10, <1>11, <1>15

\* A character taken from a text: the one behind col others.
Without(text, col) == SubSeq(text, 1, col) \o SubSeq(text, col + 2, Len(text))

\* The characters of a text with one character taken out.
LEMMA WithoutFacts ==
    ASSUME NEW text \in Seq(Char), NEW col \in 0 .. Len(text) - 1
    PROVE  /\ Without(text, col) \in Seq(Char) /\ Len(Without(text, col)) = Len(text) - 1
           /\ \A k \in 1 .. col : Without(text, col)[k] = text[k]
           /\ \A k \in col + 1 .. Len(text) - 1 : Without(text, col)[k] = text[k + 1]
<1>1. PICK left : left = SubSeq(text, 1, col)
  OBVIOUS
<1>2. PICK right : right = SubSeq(text, col + 2, Len(text))
  OBVIOUS
<1>3. Len(text) \in Nat /\ col \in Nat /\ col < Len(text)
  OBVIOUS
<1>4. /\ left \in Seq(Char) /\ Len(left) = col
      /\ \A k \in 1 .. col : left[k] = text[k]
  BY <1>1, <1>3
<1>5. /\ right \in Seq(Char) /\ Len(right) = Len(text) - col - 1
      /\ \A k \in 1 .. Len(text) - col - 1 : right[k] = text[col + 1 + k]
  BY <1>2, <1>3
<1>6. PICK all : all = left \o right
  OBVIOUS
<1>7. /\ all \in Seq(Char) /\ Len(all) = Len(left) + Len(right)
      /\ \A k \in 1 .. Len(left) : all[k] = left[k]
      /\ \A k \in 1 .. Len(right) : all[Len(left) + k] = right[k]
  BY <1>4, <1>5, <1>6, Concat
<1>8. Without(text, col) = all
  BY <1>1, <1>2, <1>6 DEF Without
<1>9. all \in Seq(Char) /\ Len(all) = Len(text) - 1
  BY <1>3, <1>4, <1>5, <1>7
<1>10. \A k \in 1 .. col : all[k] = text[k]
  BY <1>4, <1>7
<1>11. ASSUME NEW k \in col + 1 .. Len(text) - 1 PROVE all[k] = text[k + 1]
  <2>1. k - col \in 1 .. Len(right) /\ col + (k - col) = k /\ col + 1 + (k - col) = k + 1
    BY <1>3, <1>5
  <2>2. all[col + (k - col)] = right[k - col] /\ right[k - col] = text[col + 1 + (k - col)]
    BY <1>4, <1>5, <1>7, <2>1
  <2> QED
    BY <2>1, <2>2
<1> QED
  BY <1>8, <1>9, <1>10, <1>11

\* ShiftDown and the shorter last region take the character away.
LEMMA DeleteHolds ==
    ASSUME NEW line, IsLine(line), line[Len(line)].pos > 0, NEW text, Holds(line, text),
           NEW q \in 1 .. Len(line), NEW at \in Cell, Start(q) + at < Len(text)
    PROVE  /\ IsLine(GrowLast(ShiftDown(line, q, at), -1))
           /\ Holds(GrowLast(ShiftDown(line, q, at), -1), Without(text, Start(q) + at))
           /\ ShiftDown(line, q, at)[Len(ShiftDown(line, q, at))].pos > 0
<1>1. /\ Len(line) \in Nat \ {0} /\ RegionSize \in Nat /\ RegionSize > 2 /\ q \in Nat \ {0}
      /\ \A i : i \in Cell <=> i \in Nat /\ i < RegionSize
  BY LineFacts, CellFacts
<1>2. PICK B : B = [r \in 1 .. Len(line) |->
                       IF r < q THEN line[r].buffer
                       ELSE [i \in Cell |-> IF r = q /\ i < at THEN line[r].buffer[i]
                                            ELSE IF i + 1 < RegionSize THEN line[r].buffer[i + 1]
                                            ELSE IF r < Len(line) THEN line[r + 1].buffer[0]
                                            ELSE line[r].buffer[i]]]
  OBVIOUS
<1>3. \A r \in 1 .. Len(line) : line[r].buffer \in [Cell -> Char]
  BY LineFacts
<1>4. ASSUME NEW r \in 1 .. Len(line) PROVE B[r] \in [Cell -> Char]
  <2>1. CASE r < q
    BY <1>2, <1>3, <2>1
  <2>2. CASE ~(r < q)
    <3>1. ASSUME NEW i \in Cell
          PROVE  (IF r = q /\ i < at THEN line[r].buffer[i]
                  ELSE IF i + 1 < RegionSize THEN line[r].buffer[i + 1]
                  ELSE IF r < Len(line) THEN line[r + 1].buffer[0]
                  ELSE line[r].buffer[i]) \in Char
      <4>1. line[r].buffer[i] \in Char
        BY <1>3
      <4>2. ASSUME i + 1 < RegionSize PROVE line[r].buffer[i + 1] \in Char
        <5>1. i + 1 \in Cell
          BY <1>1, <4>2
        <5> QED
          BY <1>3, <5>1
      <4>3. ASSUME r < Len(line) PROVE line[r + 1].buffer[0] \in Char
        <5>1. 0 \in Cell /\ r + 1 \in 1 .. Len(line)
          BY <1>1, <4>3
        <5> QED
          BY <1>3, <5>1
      <4> QED
        BY <4>1, <4>2, <4>3
    <3> QED
      BY <1>2, <2>2, <3>1
  <2> QED
    BY <2>1, <2>2
<1>5. PICK down : down = ShiftDown(line, q, at)
  OBVIOUS
<1>6. down = Rewritten(line, B)
  <2>1. DOMAIN line = 1 .. Len(line)
    BY DEF IsLine
  <2>2. ASSUME NEW r \in 1 .. Len(line)
        PROVE  down[r] = [line[r] EXCEPT !.buffer = B[r]]
    <3>1. CASE r < q
      <4>1. down[r] = line[r] /\ B[r] = line[r].buffer
        BY <1>2, <1>5, <2>1, <3>1 DEF ShiftDown
      <4>2. line[r] \in Region
        BY LineFacts
      <4> QED
        BY <4>1, <4>2 DEF Region
    <3>2. CASE ~(r < q)
      BY <1>2, <1>5, <2>1, <3>2 DEF ShiftDown
    <3> QED
      BY <3>1, <3>2
  <2>3. down = [r \in 1 .. Len(line) |-> down[r]]
    BY <1>5, <2>1 DEF ShiftDown
  <2> QED
    BY <2>1, <2>2, <2>3 DEF Rewritten
<1>7. /\ IsLine(down) /\ Len(down) = Len(line) /\ Extent(down) = Extent(line)
      /\ \A r \in 1 .. Len(line) : down[r].pos = line[r].pos /\ down[r].buffer = B[r]
  BY <1>4, <1>6, NewBuffers
<1>8. PICK new : new = GrowLast(down, -1)
  OBVIOUS
<1>9. /\ IsLine(new) /\ Len(new) = Len(line) /\ Extent(new) = Extent(line) - 1
      /\ \A r \in 1 .. Len(line) : new[r].buffer = B[r]
      /\ down[Len(down)].pos > 0
  <2>1. down[Len(down)].pos + (-1) \in 0 .. RegionSize /\ down[Len(down)].pos > 0
    <3>1. down[Len(line)].pos = line[Len(line)].pos /\ line[Len(line)].pos \in 0 .. RegionSize
      BY <1>1, <1>7, LineFacts
    <3> QED
      BY <1>1, <1>7, <3>1
  <2>2. /\ IsLine(new) /\ Len(new) = Len(down) /\ Extent(new) = Extent(down) + (-1)
        /\ \A r \in 1 .. Len(down) : new[r].buffer = down[r].buffer
    BY <1>7, <1>8, <2>1, GrowFacts
  <2>3. Extent(line) \in Nat
    BY LineFacts
  <2> QED
    BY <1>7, <2>1, <2>2, <2>3
<1>10. PICK col : col = Start(q) + at
  OBVIOUS
<1>11. PICK shorter : shorter = Without(text, col)
  OBVIOUS
<1>12. text \in Seq(Char) /\ Len(text) = Extent(line) /\ Len(text) \in Nat /\ col \in 0 .. Len(text) - 1
  <2>1. Start(q) \in Nat
    BY <1>1, StartNat
  <2>2. text \in Seq(Char) /\ Len(text) = Extent(line) /\ Len(text) \in Nat
    BY DEF Holds
  <2> QED
    BY <1>1, <1>10, <2>1, <2>2
<1>13. /\ shorter \in Seq(Char) /\ Len(shorter) = Len(text) - 1
       /\ \A k \in 1 .. col : shorter[k] = text[k]
       /\ \A k \in col + 1 .. Len(text) - 1 : shorter[k] = text[k + 1]
  BY <1>11, <1>12, WithoutFacts
<1>14. ASSUME NEW r \in 1 .. Len(new), NEW i \in 0 .. new[r].pos - 1
       PROVE  shorter[Start(r) + i + 1] = new[r].buffer[i]
  <2>1. i \in Cell /\ r \in Nat \ {0} /\ Start(r) \in Nat /\ Start(r) + i < Extent(line) - 1
    BY <1>9, PlaceOf
  <2>2. r \in 1 .. Len(line) /\ new[r].buffer[i] = B[r][i] /\ i \in Nat /\ i < RegionSize
    BY <1>1, <1>9, <2>1
  <2>3. Start(r) + i < col <=> r < q \/ (r = q /\ i < at)
    <3>1. Start(r) + i < Start(q) + at <=> r < q \/ (r = q /\ i < at)
      <4>1. q \in Nat \ {0} /\ r \in Nat \ {0} /\ i \in Cell
        BY <1>1, <2>1
      <4> QED
        BY <4>1, PlaceOrder, Zenon
    <3> QED
      BY <1>10, <3>1
  <2>4. CASE r < q \/ (r = q /\ i < at)
    <3>1. B[r][i] = line[r].buffer[i]
      BY <1>2, <2>1, <2>2, <2>4
    <3>2. Start(r) + i < col /\ Start(r) + i < Extent(line) /\ Start(r) + i + 1 \in 1 .. col
      BY <1>12, <2>1, <2>2, <2>3, <2>4
    <3>3. text[Start(r) + i + 1] = line[r].buffer[i]
      BY <2>1, <2>2, <3>2, HoldsAt
    <3> QED
      BY <1>13, <2>2, <3>1, <3>2, <3>3
  <2>5. CASE ~(r < q \/ (r = q /\ i < at))
    <3>1. B[r][i] = IF i + 1 < RegionSize THEN line[r].buffer[i + 1]
                    ELSE IF r < Len(line) THEN line[r + 1].buffer[0] ELSE line[r].buffer[i]
      BY <1>2, <2>1, <2>2, <2>5
    <3>2. PICK k : k = Start(r) + i + 1
      OBVIOUS
    <3>3. k \in col + 1 .. Len(text) - 1 /\ k \in Nat /\ k < Extent(line)
      BY <1>12, <2>1, <2>2, <2>3, <2>5, <3>2
    <3>4. shorter[k] = text[k + 1]
      BY <1>13, <3>3
    <3>5. text[k + 1] = B[r][i]
      <4>1. CASE i + 1 < RegionSize
        <5>1. i + 1 \in Cell
          BY <1>1, <2>2, <4>1
        <5>2. Start(r) + (i + 1) = k /\ Start(r) + (i + 1) + 1 = k + 1
          BY <2>1, <2>2, <3>2
        <5>3. text[Start(r) + (i + 1) + 1] = line[r].buffer[i + 1]
          BY <2>2, <3>3, <5>1, <5>2, HoldsAt
        <5> QED
          BY <3>1, <4>1, <5>2, <5>3
      <4>2. CASE ~(i + 1 < RegionSize)
        <5>1. i + 1 = RegionSize /\ Start(r + 1) = Start(r) + RegionSize
          <6>1. Start(r + 1) = Start(r) + RegionSize
            BY <2>1, StartNext
          <6> QED
            BY <1>1, <2>2, <4>2, <6>1
        <5>2. r < Len(line)
          <6>1. SUFFICES ASSUME r = Len(line) PROVE FALSE
            BY <1>1, <2>2
          <6>2. line[Len(line)].pos \in 0 .. RegionSize
            BY <1>1, LineFacts
          <6>3. RegionSize \in Nat /\ Start(r) \in Nat
            BY <1>1, <2>1
          <6>4. Extent(line) = Start(r) + line[r].pos
            BY <6>1 DEF Extent
          <6>5. k = Start(r) + RegionSize
            <7>1. i \in Nat
              BY <2>2
            <7>2. k = Start(r) + (i + 1)
              BY <3>2, <6>3, <7>1
            <7> QED
              BY <5>1, <7>2
          <6> QED
            BY <3>3, <6>1, <6>2, <6>3, <6>4, <6>5
        <5>3. r + 1 \in 1 .. Len(line) /\ 0 \in Cell
          BY <1>1, <2>2, <5>2
        <5>4. Start(r + 1) + 0 = k /\ Start(r + 1) + 0 + 1 = k + 1
          <6>1. RegionSize \in Nat
            BY <1>1
          <6>2. Start(r) \in Nat
            BY <2>1
          <6>3. Start(r + 1) = k /\ k \in Nat
            BY <2>2, <3>2, <5>1, <6>1, <6>2, SMTT(30)
          <6> QED
            BY <6>3
        <5>5. text[Start(r + 1) + 0 + 1] = line[r + 1].buffer[0]
          BY <3>3, <5>3, <5>4, HoldsAt
        <5> QED
          BY <3>1, <4>2, <5>2, <5>4, <5>5
      <4> QED
        BY <4>1, <4>2
    <3> QED
      BY <2>2, <3>2, <3>4, <3>5
  <2> QED
    BY <2>4, <2>5
<1>15. Holds(new, shorter)
  <2>1. Len(shorter) = Extent(new)
    BY <1>9, <1>12, <1>13
  <2> QED
    BY <1>13, <1>14, <2>1 DEF Holds
<1> QED
  BY <1>5, <1>8, <1>9, <1>10, <1>11, <1>15

\* One character of one region written over.
LEMMA WriteOverHolds ==
    ASSUME NEW line, IsLine(line), NEW text, Holds(line, text),
           NEW q \in 1 .. Len(line), NEW at \in Cell, Start(q) + at < Len(text), NEW c \in Char
    PROVE  /\ IsLine([line EXCEPT ![q].buffer[at] = c])
           /\ Holds([line EXCEPT ![q].buffer[at] = c], [text EXCEPT ![Start(q) + at + 1] = c])
<1>1. /\ Len(line) \in Nat \ {0} /\ q \in Nat \ {0} /\ line \in Seq(Region)
      /\ \A r \in 1 .. Len(line) : line[r] \in Region /\ line[r].buffer \in [Cell -> Char]
  BY LineFacts DEF IsLine
<1>2. PICK B : B = [r \in 1 .. Len(line) |->
                       IF r = q THEN [line[q].buffer EXCEPT ![at] = c] ELSE line[r].buffer]
  OBVIOUS
<1>3. \A r \in 1 .. Len(line) : B[r] \in [Cell -> Char]
  BY <1>1, <1>2
<1>4. PICK new : new = [line EXCEPT ![q].buffer[at] = c]
  OBVIOUS
<1>5. new = Rewritten(line, B)
  <2>1. DOMAIN line = 1 .. Len(line)
    BY <1>1
  <2>2. ASSUME NEW r \in 1 .. Len(line)
        PROVE  new[r] = [line[r] EXCEPT !.buffer = B[r]]
    <3>1. line[r] \in Region
      BY <1>1
    <3>2. CASE r = q
      BY <1>2, <1>4, <2>1, <3>1, <3>2 DEF Region
    <3>3. CASE r # q
      BY <1>2, <1>4, <2>1, <3>1, <3>3 DEF Region
    <3> QED
      BY <3>2, <3>3
  <2>3. new = [r \in 1 .. Len(line) |-> new[r]]
    BY <1>4, <2>1
  <2> QED
    BY <2>1, <2>2, <2>3 DEF Rewritten
<1>6. /\ IsLine(new) /\ Len(new) = Len(line) /\ Extent(new) = Extent(line)
      /\ \A r \in 1 .. Len(line) : new[r].pos = line[r].pos /\ new[r].buffer = B[r]
  BY <1>3, <1>5, NewBuffers
<1>7. PICK col : col = Start(q) + at
  OBVIOUS
<1>8. PICK other : other = [text EXCEPT ![col + 1] = c]
  OBVIOUS
<1>9. text \in Seq(Char) /\ Len(text) = Extent(line) /\ Len(text) \in Nat /\ col \in 0 .. Len(text) - 1
  <2>1. Start(q) \in Nat
    BY <1>1, StartNat
  <2>2. text \in Seq(Char) /\ Len(text) = Extent(line) /\ Len(text) \in Nat
    BY DEF Holds
  <2>3. at \in Nat
    BY CellFacts
  <2> QED
    BY <1>7, <2>1, <2>2, <2>3
<1>10. /\ other \in Seq(Char) /\ Len(other) = Len(text)
       /\ \A k \in 1 .. Len(text) : other[k] = IF k = col + 1 THEN c ELSE text[k]
  BY <1>8, <1>9
<1>11. ASSUME NEW r \in 1 .. Len(new), NEW i \in 0 .. new[r].pos - 1
       PROVE  other[Start(r) + i + 1] = new[r].buffer[i]
  <2>1. i \in Cell /\ r \in Nat \ {0} /\ Start(r) \in Nat /\ Start(r) + i < Extent(line)
    BY <1>6, PlaceOf
  <2>2. r \in 1 .. Len(line) /\ new[r].buffer[i] = B[r][i] /\ i \in Nat
    BY <1>6, <2>1, CellFacts
  <2>3. Start(r) + i = col <=> r = q /\ i = at
    <3>1. Start(r) + i = Start(q) + at => r = q /\ i = at
      <4>1. q \in Nat \ {0} /\ r \in Nat \ {0} /\ i \in Cell
        BY <1>1, <2>1
      <4> QED
        BY <4>1, PlaceSame, ZenonT(30)
    <3> QED
      BY <1>7, <3>1
  <2>4. Start(r) + i + 1 \in 1 .. Len(text)
    BY <1>9, <2>1, <2>2
  <2>5. CASE r = q /\ i = at
    <3>1. B[r][i] = c
      BY <1>1, <1>2, <2>1, <2>2, <2>5
    <3> QED
      BY <1>10, <2>2, <2>3, <2>4, <2>5, <3>1
  <2>6. CASE ~(r = q /\ i = at)
    <3>1. B[r][i] = line[r].buffer[i]
      BY <1>1, <1>2, <2>1, <2>2, <2>6
    <3>2. Start(r) + i + 1 # col + 1
      BY <1>9, <2>1, <2>2, <2>3, <2>6
    <3>3. text[Start(r) + i + 1] = line[r].buffer[i]
      BY <2>1, <2>2, HoldsAt
    <3> QED
      BY <1>10, <2>2, <2>4, <3>1, <3>2, <3>3
  <2> QED
    BY <2>5, <2>6
<1>12. Holds(new, other)
  BY <1>6, <1>9, <1>10, <1>11 DEF Holds
<1> QED
  BY <1>4, <1>6, <1>7, <1>8, <1>12
-----------------------------------------------------------------------------
(***************************************************************************)
(* A line cut in two, two lines joined                                     *)
(***************************************************************************)
\* A part of a text.
LEMMA Part ==
    ASSUME NEW text \in Seq(Char), NEW a \in 0 .. Len(text), NEW b \in a .. Len(text)
    PROVE  /\ SubSeq(text, a + 1, b) \in Seq(Char) /\ Len(SubSeq(text, a + 1, b)) = b - a
           /\ \A k \in 1 .. b - a : SubSeq(text, a + 1, b)[k] = text[a + k]
<1>1. PICK n \in Nat : n = b - a
  OBVIOUS
<1>2. SubSeq(text, a + 1, b) = [k \in 1 .. n |-> text[a + k]]
  BY <1>1
<1>3. \A k \in 1 .. n : text[a + k] \in Char
  BY <1>1
<1> QED
  BY <1>1, <1>2, <1>3

\* Two adjacent parts of a text are one part of it.
LEMMA PartsJoined ==
    ASSUME NEW text \in Seq(Char), NEW a \in 0 .. Len(text), NEW b \in a .. Len(text)
    PROVE  SubSeq(text, a + 1, b) \o SubSeq(text, b + 1, Len(text)) = SubSeq(text, a + 1, Len(text))
<1>1. PICK n : n = Len(text)
  OBVIOUS
<1>2. n \in Nat /\ a \in Nat /\ b \in Nat /\ a <= b /\ b <= n /\ b \in 0 .. n /\ n \in b .. n /\ n \in a .. n
  BY <1>1
<1>3. PICK s : s = SubSeq(text, a + 1, b)
  OBVIOUS
<1>4. PICK t : t = SubSeq(text, b + 1, n)
  OBVIOUS
<1>5. PICK u : u = SubSeq(text, a + 1, n)
  OBVIOUS
<1>6. s \in Seq(Char) /\ Len(s) = b - a /\ \A k \in 1 .. b - a : s[k] = text[a + k]
  BY <1>3, Part
<1>7. t \in Seq(Char) /\ Len(t) = n - b /\ \A k \in 1 .. n - b : t[k] = text[b + k]
  <2>1. b \in 0 .. Len(text) /\ n \in b .. Len(text)
    BY <1>1, <1>2
  <2> QED
    BY <1>4, <2>1, Part
<1>8. u \in Seq(Char) /\ Len(u) = n - a /\ \A k \in 1 .. n - a : u[k] = text[a + k]
  <2>1. n \in a .. Len(text)
    BY <1>1, <1>2
  <2> QED
    BY <1>5, <2>1, Part
<1>9. PICK all : all = s \o t
  OBVIOUS
<1>10. /\ all \in Seq(Char) /\ Len(all) = Len(s) + Len(t)
       /\ \A k \in 1 .. Len(s) : all[k] = s[k]
       /\ \A k \in 1 .. Len(t) : all[Len(s) + k] = t[k]
  BY <1>6, <1>7, <1>9, Concat
<1>11. Len(all) = Len(u)
  BY <1>2, <1>6, <1>7, <1>8, <1>10
<1>12. ASSUME NEW k \in 1 .. Len(all) PROVE all[k] = u[k]
  <2>1. k \in 1 .. n - a /\ u[k] = text[a + k]
    BY <1>2, <1>8, <1>11
  <2>2. CASE k <= b - a
    <3>1. k \in 1 .. b - a
      BY <1>2, <2>1, <2>2
    <3> QED
      BY <1>6, <1>10, <2>1, <3>1
  <2>3. CASE ~(k <= b - a)
    <3>1. PICK j : j = k - (b - a)
      OBVIOUS
    <3>2. j \in 1 .. n - b /\ (b - a) + j = k /\ b + j = a + k
      BY <1>2, <2>1, <2>3, <3>1
    <3>3. all[(b - a) + j] = t[j] /\ t[j] = text[b + j]
      BY <1>6, <1>7, <1>10, <3>2
    <3> QED
      BY <2>1, <3>2, <3>3
  <2> QED
    BY <2>2, <2>3
<1>13. all = u
  BY <1>8, <1>10, <1>11, <1>12, SameText
<1> QED
  BY <1>1, <1>3, <1>4, <1>5, <1>9, <1>13

\* The regions behind region q hold the rest of the text.
LEMMA TailHolds ==
    ASSUME NEW line, IsLine(line), NEW text, Holds(line, text), NEW q \in 1 .. Len(line) - 1
    PROVE  /\ IsLine(SubSeq(line, q + 1, Len(line)))
           /\ Holds(SubSeq(line, q + 1, Len(line)), SubSeq(text, Start(q + 1) + 1, Len(text)))
           /\ Start(q + 1) <= Len(text)
<1>1. PICK n : n = Len(line)
  OBVIOUS
<1>2. n \in Nat \ {0} /\ q \in Nat \ {0} /\ q < n /\ n - q \in Nat \ {0} /\ line \in Seq(Region)
  <2>1. n \in Nat \ {0} /\ line \in Seq(Region)
    BY <1>1, LineFacts DEF IsLine
  <2> QED
    BY <1>1, <2>1
<1>3. PICK tail : tail = SubSeq(line, q + 1, n)
  OBVIOUS
<1>4. /\ tail \in Seq(Region) /\ Len(tail) = n - q /\ tail # <<>>
      /\ \A r \in 1 .. n - q : tail[r] = line[q + r]
  <2>1. PICK m \in Nat \ {0} : m = n - q
    BY <1>2
  <2>2. tail = [r \in 1 .. m |-> line[q + r]]
    BY <1>1, <1>2, <1>3, <2>1
  <2>3. \A r \in 1 .. m : line[q + r] \in Region
    BY <1>1, <1>2, <2>1
  <2>4. tail \in Seq(Region) /\ Len(tail) = m
    BY <2>1, <2>2, <2>3
  <2> QED
    BY <2>1, <2>2, <2>4
<1>5. IsLine(tail)
  <2>1. ASSUME NEW r \in 1 .. Len(tail) - 1 PROVE tail[r].pos = RegionSize
    <3>1. r \in 1 .. n - q /\ q + r \in 1 .. Len(line) - 1
      BY <1>1, <1>2, <1>4
    <3> QED
      BY <1>4, <3>1 DEF IsLine
  <2> QED
    BY <1>4, <2>1 DEF IsLine
<1>6. \A r \in Nat : Start(q + 1 + r) = Start(q + 1) + r * RegionSize
  <2>1. RegionSize \in Nat
    BY CellFacts
  <2> QED
    BY <1>2, <2>1 DEF Start
<1>7. \A r \in Nat \ {0} : Start(q + r) = Start(q + 1) + Start(r)
  <2> TAKE r \in Nat \ {0}
  <2>1. r - 1 \in Nat /\ q + 1 + (r - 1) = q + r
    BY <1>2
  <2>2. Start(q + 1 + (r - 1)) = Start(q + 1) + (r - 1) * RegionSize
    BY <1>6, <2>1
  <2> QED
    BY <2>1, <2>2 DEF Start
<1>8. PICK a : a = Start(q + 1)
  OBVIOUS
<1>9. a \in Nat
  <2>1. q + 1 \in Nat \ {0}
    BY <1>2
  <2> QED
    BY <1>8, <2>1, StartNat
<1>10. text \in Seq(Char) /\ Len(text) = Extent(line) /\ Len(text) \in Nat
  BY DEF Holds
<1>11. Extent(line) = a + Extent(tail)
  <2>1. Extent(line) = Start(n) + line[n].pos
    BY <1>1 DEF Extent
  <2>2. Start(n) = a + Start(n - q)
    <3>1. q + (n - q) = n
      BY <1>2
    <3> QED
      BY <1>2, <1>7, <1>8, <3>1
  <2>3. Extent(tail) = Start(n - q) + line[n].pos
    <3>1. n - q \in 1 .. n - q /\ q + (n - q) = n
      BY <1>2
    <3>2. tail[n - q] = line[n]
      BY <1>4, <3>1
    <3> QED
      BY <1>4, <3>2 DEF Extent
  <2>4. Start(n - q) \in Nat
    BY <1>2, StartNat
  <2>5. line[n].pos \in Nat
    <3>1. n \in 1 .. Len(line)
      BY <1>1, <1>2
    <3>2. line[n].pos \in 0 .. RegionSize
      BY <3>1, LineFacts
    <3> QED
      BY <3>2, CellFacts
  <2> QED
    BY <1>9, <2>1, <2>2, <2>3, <2>4, <2>5
<1>12. Extent(tail) \in Nat
  BY <1>5, LineFacts
<1>13. PICK more : more = SubSeq(text, a + 1, Len(text))
  OBVIOUS
<1>14. /\ more \in Seq(Char) /\ Len(more) = Len(text) - a
       /\ \A k \in 1 .. Len(text) - a : more[k] = text[a + k]
  <2>1. a \in 0 .. Len(text) /\ Len(text) \in a .. Len(text)
    BY <1>9, <1>10, <1>11, <1>12
  <2> QED
    BY <1>10, <1>13, <2>1, Part
<1>15. ASSUME NEW r \in 1 .. Len(tail), NEW i \in 0 .. tail[r].pos - 1
       PROVE  more[Start(r) + i + 1] = tail[r].buffer[i]
  <2>1. i \in Cell /\ r \in Nat \ {0} /\ Start(r) \in Nat /\ Start(r) + i < Extent(tail)
    BY <1>5, PlaceOf
  <2>2. i \in Nat
    BY <2>1, CellFacts
  <2>3. q + r \in 1 .. Len(line) /\ tail[r] = line[q + r]
    BY <1>1, <1>2, <1>4
  <2>4. Start(q + r) = a + Start(r)
    BY <1>7, <1>8, <2>1
  <2>5. Start(q + r) + i < Extent(line)
    BY <1>9, <1>11, <1>12, <2>1, <2>2, <2>4
  <2>6. text[Start(q + r) + i + 1] = line[q + r].buffer[i]
    BY <2>1, <2>3, <2>5, HoldsAt
  <2>7. PICK k : k = Start(r) + i + 1
    OBVIOUS
  <2>8. k \in 1 .. Len(text) - a /\ a + k = Start(q + r) + i + 1
    BY <1>9, <1>10, <1>11, <1>12, <2>1, <2>2, <2>4, <2>7, SMTT(30)
  <2>9. more[k] = text[a + k]
    BY <1>14, <2>8
  <2> QED
    BY <2>3, <2>6, <2>7, <2>8, <2>9
<1>16. Len(more) = Extent(tail)
  BY <1>9, <1>10, <1>11, <1>12, <1>14
<1>17. Holds(tail, more)
  BY <1>14, <1>15, <1>16 DEF Holds
<1>18. a <= Len(text)
  BY <1>9, <1>10, <1>11, <1>12
<1> QED
  BY <1>1, <1>3, <1>5, <1>8, <1>13, <1>17, <1>18

\* What Split makes of the rest of a region, and of the region itself.
RestOf(region, at) ==
    [buffer |-> [k \in Cell |-> IF at + k < region.pos THEN region.buffer[at + k] ELSE NUL],
     pos |-> region.pos - at]

CutAt(region, at) == [buffer |-> [region.buffer EXCEPT ![at] = CR, ![at + 1] = LF], pos |-> at + 2]

\* The rest of a region as a line.
LEMMA RestHolds ==
    ASSUME NEW line, IsLine(line), NEW text, Holds(line, text),
           NEW q \in 1 .. Len(line), NEW at \in Cell, at <= line[q].pos
    PROVE  /\ IsLine(<<RestOf(line[q], at)>>)
           /\ Holds(<<RestOf(line[q], at)>>, SubSeq(text, Start(q) + at + 1, Start(q) + line[q].pos))
           /\ at > 0 \/ line[q].pos < RegionSize => HasRoom(<<RestOf(line[q], at)>>)
<1>1. PICK rest : rest = RestOf(line[q], at)
  OBVIOUS
<1>2. PICK p : p = line[q].pos
  OBVIOUS
<1>3. /\ p \in Nat /\ p <= RegionSize /\ RegionSize \in Nat
      /\ at \in Nat /\ at < RegionSize /\ at <= p /\ p - at \in Nat
      /\ line[q].buffer \in [Cell -> Char]
  <2>1. p \in 0 .. RegionSize /\ line[q].buffer \in [Cell -> Char]
    BY <1>2, LineFacts
  <2>2. RegionSize \in Nat /\ at \in Nat /\ at < RegionSize
    BY CellFacts
  <2> QED
    BY <1>2, <2>1, <2>2
<1>4. /\ rest = [buffer |-> [k \in Cell |-> IF at + k < p THEN line[q].buffer[at + k] ELSE NUL],
                 pos |-> p - at]
  BY <1>1, <1>2 DEF RestOf
<1>5. rest \in Region
  <2>1. ASSUME NEW k \in Cell PROVE (IF at + k < p THEN line[q].buffer[at + k] ELSE NUL) \in Char
    <3>1. NUL \in Char
      BY DEF Char
    <3>2. ASSUME at + k < p PROVE line[q].buffer[at + k] \in Char
      <4>1. k \in Nat
        BY CellFacts
      <4>2. at + k \in Nat /\ at + k < RegionSize
        BY <1>3, <3>2, <4>1
      <4>3. at + k \in Cell
        BY <4>2, CellFacts
      <4> QED
        BY <1>3, <4>3
    <3> QED
      BY <3>1, <3>2
  <2>2. p - at \in 0 .. RegionSize
    BY <1>3
  <2> QED
    BY <1>4, <2>1, <2>2 DEF Region
<1>6. rest.pos = p - at /\ \A k \in 0 .. p - at - 1 : rest.buffer[k] = line[q].buffer[at + k]
  <2>1. ASSUME NEW k \in 0 .. p - at - 1 PROVE k \in Cell /\ at + k < p
    <3>1. k \in Nat /\ k < RegionSize /\ at + k < p
      BY <1>3
    <3> QED
      BY <3>1, CellFacts
  <2> QED
    BY <1>4, <2>1
<1>7. PICK new : new = <<rest>>
  OBVIOUS
<1>8. new \in Seq(Region) /\ new # <<>> /\ Len(new) = 1 /\ new[1] = rest
  BY <1>5, <1>7
<1>9. IsLine(new)
  BY <1>8 DEF IsLine
<1>10. Extent(new) = p - at
  <2>1. Start(1) = 0
    BY StartFirst
  <2> QED
    BY <1>3, <1>6, <1>8, <2>1 DEF Extent
<1>11. PICK a : a = Start(q) + at
  OBVIOUS
<1>12. PICK b : b = Start(q) + p
  OBVIOUS
<1>13. /\ text \in Seq(Char) /\ Len(text) = Extent(line) /\ Start(q) \in Nat
       /\ a \in 0 .. Len(text) /\ b \in a .. Len(text) /\ b - a = p - at
  <2>1. text \in Seq(Char) /\ Len(text) = Extent(line)
    BY DEF Holds
  <2>2. Start(q) \in Nat /\ b <= Extent(line) /\ Extent(line) \in Nat
    BY <1>2, <1>12, LineFacts
  <2> QED
    BY <1>3, <1>11, <1>12, <2>1, <2>2
<1>14. PICK more : more = SubSeq(text, a + 1, b)
  OBVIOUS
<1>15. more \in Seq(Char) /\ Len(more) = b - a /\ \A k \in 1 .. b - a : more[k] = text[a + k]
  BY <1>13, <1>14, Part
<1>16. ASSUME NEW i \in 0 .. p - at - 1
       PROVE  more[i + 1] = rest.buffer[i]
  <2>1. i \in Nat /\ at + i \in 0 .. line[q].pos - 1 /\ i + 1 \in 1 .. b - a
    <3>1. p \in Nat /\ at \in Nat /\ at <= p /\ b - a = p - at
      BY <1>3, <1>13
    <3>2. i \in Nat /\ at + i \in 0 .. p - 1 /\ i + 1 \in 1 .. p - at
      BY <3>1
    <3> QED
      BY <1>2, <3>1, <3>2
  <2>2. text[Start(q) + (at + i) + 1] = line[q].buffer[at + i]
    BY <2>1 DEF Holds
  <2>3. Start(q) + (at + i) + 1 = a + (i + 1)
    BY <1>3, <1>11, <1>13, <2>1
  <2>4. more[i + 1] = text[a + (i + 1)]
    BY <1>15, <2>1
  <2> QED
    BY <1>6, <2>2, <2>3, <2>4
<1>19. ASSUME NEW r \in 1 .. Len(new), NEW i \in 0 .. new[r].pos - 1
       PROVE  more[Start(r) + i + 1] = new[r].buffer[i]
  <2>1. r = 1 /\ Start(r) = 0 /\ i \in 0 .. p - at - 1
    BY <1>6, <1>8, StartFirst
  <2>2. i \in Nat
    BY <1>3, <2>1
  <2>3. Start(r) + i + 1 = i + 1
    BY <2>1, <2>2
  <2> QED
    BY <1>8, <1>16, <2>1, <2>3
<1>17. Holds(new, more)
  BY <1>10, <1>13, <1>15, <1>19 DEF Holds
<1>18. at > 0 \/ p < RegionSize => HasRoom(new)
  BY <1>3, <1>6, <1>8 DEF HasRoom
<1> QED
  BY <1>1, <1>2, <1>7, <1>9, <1>11, <1>12, <1>14, <1>17, <1>18

\* The line up to the cut, with its ending.
LEMMA HeadHolds ==
    ASSUME NEW line, IsLine(line), NEW text, Holds(line, text),
           NEW q \in 1 .. Len(line), NEW at \in Cell, at <= line[q].pos, at # RegionSize - 1
    PROVE  /\ IsLine(Append(SubSeq(line, 1, q - 1), CutAt(line[q], at)))
           /\ Holds(Append(SubSeq(line, 1, q - 1), CutAt(line[q], at)),
                    SubSeq(text, 1, Start(q) + at) \o <<CR, LF>>)
<1>1. PICK cut : cut = CutAt(line[q], at)
  OBVIOUS
<1>2. PICK p : p = line[q].pos
  OBVIOUS
<1>3. /\ p \in Nat /\ p <= RegionSize /\ RegionSize \in Nat
      /\ at \in Nat /\ at + 1 < RegionSize /\ at <= p
      /\ line[q].buffer \in [Cell -> Char] /\ at \in Cell /\ at + 1 \in Cell
  <2>1. p \in 0 .. RegionSize /\ line[q].buffer \in [Cell -> Char]
    BY <1>2, LineFacts
  <2>2. RegionSize \in Nat /\ at \in Nat /\ at < RegionSize
    BY CellFacts
  <2>3. at + 1 \in Nat /\ at + 1 < RegionSize
    BY <2>2
  <2>4. at + 1 \in Cell
    BY <2>3, CellFacts
  <2> QED
    BY <1>2, <2>1, <2>2, <2>3, <2>4
<1>4. /\ cut \in Region /\ cut.pos = at + 2
      /\ cut.buffer[at] = CR /\ cut.buffer[at + 1] = LF
      /\ \A i \in Cell : i < at => cut.buffer[i] = line[q].buffer[i]
  <2>1. PICK full : full = [line[q].buffer EXCEPT ![at] = CR, ![at + 1] = LF]
    OBVIOUS
  <2>2. CR \in Char /\ LF \in Char
    BY DEF Char
  <2>3. full \in [Cell -> Char]
    BY <1>3, <2>1, <2>2
  <2>4. full[at] = CR /\ full[at + 1] = LF /\ \A i \in Cell : i < at => full[i] = line[q].buffer[i]
    BY <1>3, <2>1
  <2>5. cut = [buffer |-> full, pos |-> at + 2]
    BY <1>1, <2>1 DEF CutAt
  <2>6. at + 2 \in 0 .. RegionSize
    BY <1>3
  <2>7. cut \in Region /\ cut.pos = at + 2 /\ cut.buffer = full
    BY <2>3, <2>5, <2>6 DEF Region
  <2> QED
    BY <2>4, <2>7
<1>5. PICK new : new = Append(SubSeq(line, 1, q - 1), cut)
  OBVIOUS
<1>6. line \in Seq(Region) /\ Len(line) \in Nat \ {0} /\ q \in Nat \ {0} /\ q <= Len(line)
  BY LineFacts DEF IsLine
<1>7. /\ new \in Seq(Region) /\ Len(new) = q /\ new # <<>> /\ new[q] = cut
      /\ \A r \in 1 .. q - 1 : new[r] = line[r]
  <2>1. PICK front : front = SubSeq(line, 1, q - 1)
    OBVIOUS
  <2>2. front \in Seq(Region) /\ Len(front) = q - 1 /\ \A r \in 1 .. q - 1 : front[r] = line[r]
    BY <1>6, <2>1
  <2> QED
    BY <1>4, <1>5, <1>6, <2>1, <2>2, SMTT(30)
<1>8. \A r \in 1 .. q - 1 : new[r].pos = RegionSize /\ r \in 1 .. Len(line) /\ r < q
  BY <1>6, <1>7 DEF IsLine
<1>9. IsLine(new)
  BY <1>6, <1>7, <1>8 DEF IsLine
<1>10. PICK col : col = Start(q) + at
  OBVIOUS
<1>11. /\ text \in Seq(Char) /\ Len(text) = Extent(line) /\ Start(q) \in Nat
       /\ col \in 0 .. Len(text) /\ col \in Nat /\ col <= Extent(line) /\ Extent(line) \in Nat
  <2>1. text \in Seq(Char) /\ Len(text) = Extent(line)
    BY DEF Holds
  <2>2. Start(q) \in Nat /\ Start(q) + p <= Extent(line) /\ Extent(line) \in Nat
    BY <1>2, LineFacts
  <2> QED
    BY <1>3, <1>10, <2>1, <2>2
<1>12. Extent(new) = col + 2
  BY <1>3, <1>4, <1>7, <1>10, <1>11 DEF Extent
<1>13. PICK left : left = SubSeq(text, 1, col)
  OBVIOUS
<1>14. left \in Seq(Char) /\ Len(left) = col /\ \A k \in 1 .. col : left[k] = text[k]
  BY <1>11, <1>13
<1>15. PICK ends : ends = <<CR, LF>>
  OBVIOUS
<1>16. ends \in Seq(Char) /\ Len(ends) = 2 /\ ends[1] = CR /\ ends[2] = LF
  <2>1. CR \in Char /\ LF \in Char
    BY DEF Char
  <2> QED
    BY <1>15, <2>1
<1>17. PICK all : all = left \o ends
  OBVIOUS
<1>18. /\ all \in Seq(Char) /\ Len(all) = Len(left) + Len(ends)
       /\ \A k \in 1 .. Len(left) : all[k] = left[k]
       /\ \A k \in 1 .. Len(ends) : all[Len(left) + k] = ends[k]
  BY <1>14, <1>16, <1>17, Concat
<1>19. /\ Len(all) = col + 2 /\ all[col + 1] = CR /\ all[col + 2] = LF
       /\ \A k \in 1 .. col : all[k] = text[k]
  BY <1>11, <1>14, <1>16, <1>18
<1>20. ASSUME NEW r \in 1 .. Len(new), NEW i \in 0 .. new[r].pos - 1
       PROVE  all[Start(r) + i + 1] = new[r].buffer[i]
  <2>1. i \in Cell /\ r \in Nat \ {0} /\ Start(r) \in Nat /\ Start(r) + i < Extent(new)
    BY <1>9, PlaceOf
  <2>2. i \in Nat /\ r \in 1 .. Len(line)
    BY <1>6, <1>7, <2>1, CellFacts
  <2>3. CASE r = q /\ i = at
    BY <1>4, <1>7, <1>10, <1>11, <1>19, <2>3
  <2>4. CASE r = q /\ i = at + 1
    <3>1. Start(r) + i + 1 = col + 2
      BY <1>3, <1>10, <1>11, <2>4, SMTT(30)
    <3> QED
      BY <1>4, <1>7, <1>19, <2>4, <3>1
  <2>5. CASE ~(r = q /\ i = at) /\ ~(r = q /\ i = at + 1)
    <3>1. r < q \/ (r = q /\ i < at)
      BY <1>3, <1>4, <1>6, <1>7, <2>1, <2>2, <2>5
    <3>2. new[r].buffer[i] = line[r].buffer[i]
      BY <1>4, <1>7, <2>1, <3>1
    <3>3. Start(r) + i < col
      <4>1. q \in Nat \ {0} /\ r \in Nat \ {0} /\ i \in Cell
        BY <1>6, <2>1
      <4>2. Start(r) + i < Start(q) + at <=> r < q \/ (r = q /\ i < at)
        BY <4>1, PlaceOrder, Zenon
      <4> QED
        BY <1>10, <3>1, <4>2
    <3>4. Start(r) + i + 1 \in 1 .. col /\ Start(r) + i < Extent(line)
      BY <1>11, <2>1, <2>2, <3>3, SMTT(30)
    <3>5. text[Start(r) + i + 1] = line[r].buffer[i]
      BY <2>1, <2>2, <3>4, HoldsAt
    <3> QED
      BY <1>19, <3>2, <3>4, <3>5
  <2> QED
    BY <2>3, <2>4, <2>5
<1>21. Holds(new, all)
  BY <1>12, <1>18, <1>19, <1>20 DEF Holds
<1> QED
  BY <1>1, <1>5, <1>9, <1>10, <1>13, <1>15, <1>17, <1>21

\* The line below the cut.
LEMMA BelowHolds ==
    ASSUME NEW line, IsLine(line), NEW text, Holds(line, text),
           NEW q \in 1 .. Len(line), NEW at \in Cell, at <= line[q].pos,
           NEW more, more = FlatLine(SubSeq(line, q + 1, Len(line))),
           at > 0 \/ line[q].pos < RegionSize \/ more = <<>>
    PROVE  /\ IsLine(PutChars(<<RestOf(line[q], at)>>, more))
           /\ Holds(PutChars(<<RestOf(line[q], at)>>, more),
                    SubSeq(text, Start(q) + at + 1, Len(text)))
<1>1. PICK rest : rest = <<RestOf(line[q], at)>>
  OBVIOUS
<1>2. PICK a : a = Start(q) + at
  OBVIOUS
<1>3. PICK b : b = Start(q) + line[q].pos
  OBVIOUS
<1>4. /\ IsLine(rest) /\ Holds(rest, SubSeq(text, a + 1, b))
      /\ at > 0 \/ line[q].pos < RegionSize => HasRoom(rest)
  BY <1>1, <1>2, <1>3, RestHolds
<1>5. /\ text \in Seq(Char) /\ a \in 0 .. Len(text) /\ b \in a .. Len(text) /\ Len(text) = Extent(line)
      /\ Start(q) \in Nat /\ line[q].pos \in 0 .. RegionSize /\ RegionSize \in Nat
      /\ Len(line) \in Nat
  <2>1. text \in Seq(Char) /\ Len(text) = Extent(line)
    BY DEF Holds
  <2>2. /\ Start(q) \in Nat /\ b <= Extent(line) /\ Extent(line) \in Nat
        /\ line[q].pos \in 0 .. RegionSize /\ Len(line) \in Nat
    BY <1>3, LineFacts
  <2>3. RegionSize \in Nat /\ at \in Nat
    BY CellFacts
  <2>4. a \in 0 .. Len(text) /\ b \in a .. Len(text)
    BY <1>2, <1>3, <2>1, <2>2, <2>3, SMTT(30)
  <2> QED
    BY <2>1, <2>2, <2>3, <2>4
<1>6. more = SubSeq(text, b + 1, Len(text)) /\ more \in Seq(Char)
  <2>1. SubSeq(text, b + 1, Len(text)) \in Seq(Char)
    <3>1. b \in 0 .. Len(text) /\ Len(text) \in b .. Len(text)
      BY <1>5
    <3> QED
      BY <1>5, <3>1, Part
  <2>2. CASE q = Len(line)
    <3>1. SubSeq(line, q + 1, Len(line)) = <<>>
      BY <1>5, <2>2 DEF IsLine
    <3>2. more = <<>>
      BY <3>1, FlatNone
    <3>3. b = Len(text)
      BY <1>3, <1>5, <2>2 DEF Extent
    <3>4. SubSeq(text, b + 1, Len(text)) = <<>>
      BY <1>5, <3>3
    <3> QED
      BY <2>1, <3>2, <3>4
  <2>3. CASE q # Len(line)
    <3>1. q \in 1 .. Len(line) - 1 /\ q \in Nat \ {0}
      BY <1>5, <2>3
    <3>2. /\ IsLine(SubSeq(line, q + 1, Len(line)))
          /\ Holds(SubSeq(line, q + 1, Len(line)), SubSeq(text, Start(q + 1) + 1, Len(text)))
      BY <3>1, TailHolds
    <3>3. more = SubSeq(text, Start(q + 1) + 1, Len(text))
      BY <3>2, ReadsAs
    <3>4. line[q].pos = RegionSize
      BY <3>1 DEF IsLine
    <3>5. Start(q + 1) = Start(q) + RegionSize
      BY <3>1, StartNext
    <3>6. b = Start(q + 1)
      BY <1>3, <3>4, <3>5
    <3> QED
      BY <2>1, <3>3, <3>6
  <2> QED
    BY <2>2, <2>3
<1>7. SubSeq(text, a + 1, b) \o more = SubSeq(text, a + 1, Len(text))
  BY <1>5, <1>6, PartsJoined
<1>8. PICK new : new = PutChars(rest, more)
  OBVIOUS
<1>9. CASE HasRoom(rest)
  <2>1. IsLine(new) /\ Holds(new, SubSeq(text, a + 1, b) \o more)
    BY <1>4, <1>6, <1>8, <1>9, PutCharsHolds
  <2> QED
    BY <1>1, <1>2, <1>7, <1>8, <2>1
<1>10. CASE ~HasRoom(rest)
  <2>1. more = <<>>
    BY <1>4, <1>10
  <2>2. new = rest
    BY <1>8, <2>1, PutNone
  <2>3. SubSeq(text, a + 1, b) = SubSeq(text, a + 1, Len(text))
    <3>1. PICK s : s = SubSeq(text, a + 1, b)
      OBVIOUS
    <3>2. s \in Seq(Char)
      BY <1>5, <3>1, Part
    <3>3. s \o <<>> = s
      BY <3>2
    <3> QED
      BY <1>7, <2>1, <3>1, <3>3
  <2> QED
    BY <1>1, <1>2, <1>4, <1>8, <2>2, <2>3
<1> QED
  BY <1>9, <1>10

\* The end of a line goes, when its last region has it.
LEMMA ShortenHolds ==
    ASSUME NEW line, IsLine(line), NEW text, Holds(line, text), line[Len(line)].pos >= 2
    PROVE  /\ IsLine(GrowLast(line, -2)) /\ HasRoom(GrowLast(line, -2))
           /\ Holds(GrowLast(line, -2), SubSeq(text, 1, Len(text) - 2))
<1>1. PICK n : n = Len(line)
  OBVIOUS
<1>2. PICK new : new = GrowLast(line, -2)
  OBVIOUS
<1>3. /\ n \in Nat \ {0} /\ line[n].pos \in 0 .. RegionSize /\ RegionSize \in Nat /\ Start(n) \in Nat
      /\ line[n].pos >= 2
  <2>1. n \in Nat \ {0} /\ line[n].pos \in 0 .. RegionSize
    BY <1>1, LineFacts
  <2>2. Start(n) \in Nat
    BY <2>1, StartNat
  <2> QED
    BY <1>1, <2>1, <2>2, CellFacts
<1>4. /\ IsLine(new) /\ Len(new) = Len(line) /\ Extent(new) = Extent(line) + (-2)
      /\ new[Len(line)].pos = line[Len(line)].pos + (-2)
      /\ \A r \in 1 .. Len(line) : new[r].buffer = line[r].buffer
  <2>1. line[Len(line)].pos + (-2) \in 0 .. RegionSize
    BY <1>1, <1>3
  <2> QED
    BY <1>2, <2>1, GrowFacts
<1>5. HasRoom(new)
  BY <1>1, <1>3, <1>4 DEF HasRoom
<1>6. text \in Seq(Char) /\ Len(text) = Extent(line) /\ Extent(line) \in Nat /\ Extent(line) >= 2
  <2>1. text \in Seq(Char) /\ Len(text) = Extent(line)
    BY DEF Holds
  <2>2. Extent(line) = Start(n) + line[n].pos
    BY <1>1 DEF Extent
  <2> QED
    BY <1>3, <2>1, <2>2
<1>7. PICK less : less = SubSeq(text, 1, Len(text) - 2)
  OBVIOUS
<1>8. /\ less \in Seq(Char) /\ Len(less) = Extent(new)
      /\ \A k \in 1 .. Extent(new) : less[k] = text[k]
  <2>1. PICK m \in Nat : m = Len(text) - 2
    BY <1>6
  <2>2. Extent(new) = m /\ m <= Len(text)
    BY <1>4, <1>6, <2>1
  <2>3. less = SubSeq(text, 1, m)
    BY <1>7, <2>1
  <2> QED
    BY <1>6, <2>2, <2>3
<1>9. ASSUME NEW r \in 1 .. Len(new), NEW i \in 0 .. new[r].pos - 1
      PROVE  less[Start(r) + i + 1] = new[r].buffer[i]
  <2>1. i \in Cell /\ r \in Nat \ {0} /\ Start(r) \in Nat /\ Start(r) + i < Extent(new)
    BY <1>4, PlaceOf
  <2>2. i \in Nat /\ r \in 1 .. Len(line) /\ Extent(new) \in Nat
    BY <1>4, <2>1, CellFacts, LineFacts
  <2>3. Start(r) + i + 1 \in 1 .. Extent(new) /\ Start(r) + i < Extent(line)
    BY <1>4, <1>6, <2>1, <2>2
  <2>4. text[Start(r) + i + 1] = line[r].buffer[i]
    BY <2>1, <2>2, <2>3, HoldsAt
  <2> QED
    BY <1>4, <1>8, <2>2, <2>3, <2>4
<1>10. Holds(new, less)
  BY <1>8, <1>9 DEF Holds
<1> QED
  BY <1>2, <1>4, <1>5, <1>7, <1>10
-----------------------------------------------------------------------------
(***************************************************************************)
(* Lists of lines                                                          *)
(***************************************************************************)
LEMMA LinesOne ==
    ASSUME NEW line, IsLine(line), NEW text, Holds(line, text), IsText(text)
    PROVE  LinesHold(<<line>>, <<text>>)
<1>1. line \in Seq(Region) /\ text \in Seq(Char)
  BY DEF IsLine, Holds
<1>2. FlatLine(line) = text
  BY ReadsAs
<1>3. PICK lines : lines = <<line>>
  OBVIOUS
<1>4. PICK texts : texts = <<text>>
  OBVIOUS
<1>5. lines \in Seq(Seq(Region)) /\ Len(lines) = 1 /\ lines[1] = line
  BY <1>1, <1>3
<1>6. texts \in Seq(Seq(Char)) /\ Len(texts) = 1 /\ texts[1] = text
  BY <1>1, <1>4
<1>7. LinesHold(lines, texts)
  BY <1>2, <1>5, <1>6 DEF LinesHold
<1> QED
  BY <1>3, <1>4, <1>7

\* The entries of two lists that are put together.
LEMMA ListConcat ==
    ASSUME NEW S, NEW a \in Seq(S), NEW b \in Seq(S)
    PROVE  /\ a \o b \in Seq(S) /\ Len(a \o b) = Len(a) + Len(b) /\ Len(a) \in Nat /\ Len(b) \in Nat
           /\ \A k \in 1 .. Len(a) : (a \o b)[k] = a[k]
           /\ \A k \in 1 .. Len(b) : (a \o b)[Len(a) + k] = b[k]
OBVIOUS

\* Two lists of one entry each make a list of two.
LEMMA Pair ==
    ASSUME NEW S, NEW a \in S, NEW b \in S
    PROVE  <<a>> \o <<b>> = <<a, b>>
<1>1. PICK x, y, z : x = <<a>> /\ y = <<b>> /\ z = <<a, b>>
  OBVIOUS
<1>2. x \in Seq(S) /\ Len(x) = 1 /\ x[1] = a
  BY <1>1
<1>3. y \in Seq(S) /\ Len(y) = 1 /\ y[1] = b
  BY <1>1
<1>4. z \in Seq(S) /\ Len(z) = 2 /\ z[1] = a /\ z[2] = b
  <2>1. <<a, b>> \in Seq(S)
    OBVIOUS
  <2>2. Len(<<a, b>>) = 2
    OBVIOUS
  <2>3. <<a, b>>[1] = a /\ <<a, b>>[2] = b
    OBVIOUS
  <2> QED
    BY <1>1, <2>1, <2>2, <2>3
<1>5. PICK u : u = x \o y
  OBVIOUS
<1>6. /\ u \in Seq(S) /\ Len(u) = Len(x) + Len(y)
      /\ \A k \in 1 .. Len(x) : u[k] = x[k]
      /\ \A k \in 1 .. Len(y) : u[Len(x) + k] = y[k]
  <2>1. x \in Seq(S) /\ y \in Seq(S)
    BY <1>2, <1>3
  <2>2. /\ x \o y \in Seq(S) /\ Len(x \o y) = Len(x) + Len(y) /\ Len(x) \in Nat /\ Len(y) \in Nat
        /\ \A k \in 1 .. Len(x) : (x \o y)[k] = x[k]
        /\ \A k \in 1 .. Len(y) : (x \o y)[Len(x) + k] = y[k]
    BY <2>1, SMT
  <2> QED
    BY <1>5, <2>2, Zenon
<1>7. Len(u) = 2 /\ u[1] = a /\ u[2] = b
  BY <1>2, <1>3, <1>6
<1>8. u = z
  BY <1>4, <1>6, <1>7
<1> QED
  BY <1>1, <1>5, <1>8

\* Lines that hold their texts hold them when the two lists are put together.
LEMMA LinesConcat ==
    ASSUME NEW a, NEW x, LinesHold(a, x), NEW b, NEW y, LinesHold(b, y)
    PROVE  LinesHold(a \o b, x \o y)
<1>1. /\ a \in Seq(Seq(Region)) /\ b \in Seq(Seq(Region)) /\ Len(a) = Len(x)
      /\ x \in Seq(Seq(Char)) /\ y \in Seq(Seq(Char)) /\ Len(b) = Len(y)
  BY DEF LinesHold
<1>2. PICK lines : lines = a \o b
  OBVIOUS
<1>3. PICK texts : texts = x \o y
  OBVIOUS
<1>4. /\ lines \in Seq(Seq(Region)) /\ Len(lines) = Len(a) + Len(b) /\ Len(a) \in Nat /\ Len(b) \in Nat
      /\ \A k \in 1 .. Len(a) : lines[k] = a[k]
      /\ \A k \in 1 .. Len(b) : lines[Len(a) + k] = b[k]
  <2>1. /\ a \o b \in Seq(Seq(Region)) /\ Len(a \o b) = Len(a) + Len(b)
        /\ Len(a) \in Nat /\ Len(b) \in Nat
        /\ \A k \in 1 .. Len(a) : (a \o b)[k] = a[k]
        /\ \A k \in 1 .. Len(b) : (a \o b)[Len(a) + k] = b[k]
    <3>1. a \in Seq(Seq(Region)) /\ b \in Seq(Seq(Region))
      BY <1>1
    <3> QED
      BY <3>1, ListConcat
  <2> QED
    BY <1>2, <2>1
<1>5. /\ texts \in Seq(Seq(Char)) /\ Len(texts) = Len(x) + Len(y)
      /\ \A k \in 1 .. Len(x) : texts[k] = x[k]
      /\ \A k \in 1 .. Len(y) : texts[Len(x) + k] = y[k]
  BY <1>1, <1>3, ListConcat
<1>6. ASSUME NEW l \in 1 .. Len(lines)
      PROVE  IsLine(lines[l]) /\ FlatLine(lines[l]) = texts[l] /\ IsText(texts[l])
  <2>1. CASE l <= Len(a)
    <3>1. l \in 1 .. Len(a)
      BY <1>4, <2>1
    <3>2. lines[l] = a[l] /\ texts[l] = x[l]
      BY <1>1, <1>4, <1>5, <3>1
    <3> QED
      BY <3>1, <3>2 DEF LinesHold
  <2>2. CASE ~(l <= Len(a))
    <3>1. PICK k : k = l - Len(a)
      OBVIOUS
    <3>2. k \in 1 .. Len(b) /\ l = Len(a) + k
      BY <1>4, <2>2, <3>1
    <3>3. lines[l] = b[k] /\ texts[l] = y[k]
      BY <1>1, <1>4, <1>5, <3>2
    <3> QED
      BY <3>2, <3>3 DEF LinesHold
  <2> QED
    BY <2>1, <2>2
<1>7. LinesHold(lines, texts)
  BY <1>1, <1>4, <1>5, <1>6 DEF LinesHold
<1> QED
  BY <1>2, <1>3, <1>7

\* The entries of a part of a list.
LEMMA ListPart ==
    ASSUME NEW S, NEW list \in Seq(S), NEW a \in Nat \ {0}, NEW n \in Nat, a + n - 1 <= Len(list)
    PROVE  /\ SubSeq(list, a, a + n - 1) \in Seq(S) /\ Len(SubSeq(list, a, a + n - 1)) = n
           /\ \A k \in 1 .. n : SubSeq(list, a, a + n - 1)[k] = list[a + k - 1]
OBVIOUS

\* A part of the lines holds the same part of the texts.
LEMMA LinesPart ==
    ASSUME NEW lines, NEW texts, LinesHold(lines, texts),
           NEW a \in Nat \ {0}, NEW b \in a - 1 .. Len(lines)
    PROVE  LinesHold(SubSeq(lines, a, b), SubSeq(texts, a, b))
<1>1. lines \in Seq(Seq(Region)) /\ texts \in Seq(Seq(Char)) /\ Len(lines) = Len(texts)
  BY DEF LinesHold
<1>2. PICK n \in Nat : b = a + n - 1 /\ a + n - 1 <= Len(lines)
  <2>1. b - a + 1 \in Nat /\ b = a + (b - a + 1) - 1 /\ b <= Len(lines)
    BY <1>1
  <2> QED
    BY <2>1
<1>3. PICK l : l = SubSeq(lines, a, b)
  OBVIOUS
<1>4. PICK t : t = SubSeq(texts, a, b)
  OBVIOUS
<1>5. l \in Seq(Seq(Region)) /\ Len(l) = n /\ \A k \in 1 .. n : l[k] = lines[a + k - 1]
  BY <1>1, <1>2, <1>3, ListPart
<1>6. t \in Seq(Seq(Char)) /\ Len(t) = n /\ \A k \in 1 .. n : t[k] = texts[a + k - 1]
  BY <1>1, <1>2, <1>4, ListPart
<1>7. ASSUME NEW k \in 1 .. n PROVE IsLine(l[k]) /\ FlatLine(l[k]) = t[k] /\ IsText(t[k])
  <2>1. a + k - 1 \in 1 .. Len(lines)
    BY <1>1, <1>2
  <2> QED
    BY <1>5, <1>6, <2>1 DEF LinesHold
<1>8. LinesHold(l, t)
  BY <1>5, <1>6, <1>7 DEF LinesHold
<1> QED
  BY <1>3, <1>4, <1>8

\* Some of the elements of a list, from a + 1 to b - 1, give way to others.
Spliced(list, a, new, b) == SubSeq(list, 1, a) \o new \o SubSeq(list, b, Len(list))

\* Lines hold their texts after some are replaced by others that hold theirs.
LEMMA LinesSpliced ==
    ASSUME NEW lines, NEW texts, LinesHold(lines, texts), NEW ls, NEW ts, LinesHold(ls, ts),
           NEW a \in 0 .. Len(lines), NEW b \in a + 1 .. Len(lines) + 1
    PROVE  LinesHold(Spliced(lines, a, ls, b), Spliced(texts, a, ts, b))
<1>1. Len(lines) = Len(texts) /\ Len(lines) \in Nat
  BY DEF LinesHold
<1>2. LinesHold(SubSeq(lines, 1, a), SubSeq(texts, 1, a))
  <2>1. 1 \in Nat \ {0} /\ a \in 1 - 1 .. Len(lines)
    BY <1>1
  <2> QED
    BY <2>1, LinesPart, Zenon
<1>3. LinesHold(SubSeq(lines, b, Len(lines)), SubSeq(texts, b, Len(texts)))
  <2>1. b \in Nat \ {0} /\ Len(lines) \in b - 1 .. Len(lines)
    BY <1>1
  <2>2. LinesHold(SubSeq(lines, b, Len(lines)), SubSeq(texts, b, Len(lines)))
    BY <2>1, LinesPart, Zenon
  <2> QED
    BY <1>1, <2>2
<1>4. LinesHold(SubSeq(lines, 1, a) \o ls, SubSeq(texts, 1, a) \o ts)
  BY <1>2, LinesConcat, Zenon
<1>5. LinesHold((SubSeq(lines, 1, a) \o ls) \o SubSeq(lines, b, Len(lines)),
                (SubSeq(texts, 1, a) \o ts) \o SubSeq(texts, b, Len(texts)))
  BY <1>3, <1>4, LinesConcat, Zenon
<1> QED
  BY <1>5 DEF Spliced

\* How many there are.
LEMMA SplicedLen ==
    ASSUME NEW S, NEW list \in Seq(S), NEW new \in Seq(S),
           NEW a \in 0 .. Len(list), NEW b \in a + 1 .. Len(list) + 1
    PROVE  Len(Spliced(list, a, new, b)) = a + Len(new) + (Len(list) + 1 - b)
<1>1. Len(list) \in Nat /\ a \in Nat /\ a <= Len(list) /\ b \in Nat /\ b > 0 /\ b <= Len(list) + 1
  OBVIOUS
<1>2. PICK left : left = SubSeq(list, 1, a)
  OBVIOUS
<1>3. left \in Seq(S) /\ Len(left) = a
  BY <1>1, <1>2
<1>4. PICK right : right = SubSeq(list, b, Len(list))
  OBVIOUS
<1>5. right \in Seq(S) /\ Len(right) = Len(list) + 1 - b
  BY <1>1, <1>4
<1>6. PICK m : m = left \o new
  OBVIOUS
<1>7. m \in Seq(S) /\ Len(m) = a + Len(new) /\ Len(new) \in Nat
  <2>1. Len(left \o new) = Len(left) + Len(new) /\ left \o new \in Seq(S) /\ Len(new) \in Nat
    BY <1>3, ListConcat
  <2> QED
    BY <1>3, <1>6, <2>1
<1>8. Len(m \o right) = a + Len(new) + (Len(list) + 1 - b)
  <2>1. Len(m \o right) = Len(m) + Len(right)
    BY <1>5, <1>7, ListConcat
  <2> QED
    BY <1>5, <1>7, <2>1
<1> QED
  BY <1>2, <1>4, <1>6, <1>8 DEF Spliced

\* One element replaced.
LEMMA SplicedOne ==
    ASSUME NEW S, NEW list \in Seq(S), NEW x \in S, NEW l \in 1 .. Len(list)
    PROVE  [list EXCEPT ![l] = x] = Spliced(list, l - 1, <<x>>, l + 1)
<1>1. PICK n \in Nat : n = Len(list)
  OBVIOUS
<1>2. PICK a : a = SubSeq(list, 1, l - 1)
  OBVIOUS
<1>3. a \in Seq(S) /\ Len(a) = l - 1 /\ \A k \in 1 .. l - 1 : a[k] = list[k]
  BY <1>2
<1>4. PICK m : m = a \o <<x>>
  OBVIOUS
<1>5. m \in Seq(S) /\ Len(m) = l /\ m[l] = x /\ \A k \in 1 .. l - 1 : m[k] = list[k]
  <2>1. m = Append(a, x)
    BY <1>3, <1>4
  <2> QED
    BY <1>3, <2>1
<1>6. PICK b : b = SubSeq(list, l + 1, n)
  OBVIOUS
<1>7. b \in Seq(S) /\ Len(b) = n - l /\ \A k \in 1 .. n - l : b[k] = list[l + k]
  BY <1>1, <1>6
<1>8. PICK all : all = m \o b
  OBVIOUS
<1>9. /\ all \in Seq(S) /\ Len(all) = Len(m) + Len(b)
      /\ \A k \in 1 .. Len(m) : all[k] = m[k]
      /\ \A k \in 1 .. Len(b) : all[Len(m) + k] = b[k]
  BY <1>5, <1>7, <1>8, ListConcat
<1>10. PICK new : new = [list EXCEPT ![l] = x]
  OBVIOUS
<1>11. /\ new \in Seq(S) /\ Len(new) = n
       /\ \A k \in 1 .. n : new[k] = IF k = l THEN x ELSE list[k]
  BY <1>1, <1>10
<1>12. Len(all) = n
  BY <1>1, <1>5, <1>7, <1>9
<1>13. ASSUME NEW k \in 1 .. n PROVE all[k] = new[k]
  <2>1. CASE k < l
    BY <1>1, <1>5, <1>9, <1>11, <2>1
  <2>2. CASE k = l
    BY <1>1, <1>5, <1>9, <1>11, <2>2
  <2>3. CASE l < k
    <3>1. PICK j : j = k - l
      OBVIOUS
    <3>2. j \in 1 .. n - l /\ l + j = k /\ k # l
      BY <1>1, <2>3, <3>1
    <3>3. all[l + j] = b[j] /\ b[j] = list[l + j]
      BY <1>5, <1>7, <1>9, <3>2
    <3> QED
      BY <1>11, <3>2, <3>3
  <2> QED
    BY <1>1, <2>1, <2>2, <2>3
<1>14. all = new
  BY <1>9, <1>11, <1>12, <1>13
<1>15. all = Spliced(list, l - 1, <<x>>, l + 1)
  BY <1>1, <1>2, <1>4, <1>6, <1>8 DEF Spliced
<1> QED
  BY <1>10, <1>14, <1>15
-----------------------------------------------------------------------------
(***************************************************************************)
(* The cursor                                                              *)
(***************************************************************************)
\* The cursor of an editor that is not astray, l its line, t the text of it,
\* at the place in the cursor's region.
AtCursor(l, t, at) ==
    /\ l = edLines[edLine] /\ t = edText[edLine] /\ at = edCol % RegionSize
    /\ IsLine(l) /\ Holds(l, t) /\ IsText(t) /\ t \in Seq(Char)
    /\ edRegion \in 1 .. Len(l) /\ at \in Cell /\ edCol = Start(edRegion) + at
    /\ edCol \in 0 .. Len(t) /\ at <= l[edRegion].pos
    /\ ~(edCol > 0 /\ edCol = Len(t) /\ t[Len(t)] = LF)

\* While the cursor is not astray, its region and the place in it are those of its column in the text.
LEMMA CursorFacts ==
    ASSUME EdInv, ~edAstray
    PROVE  AtCursor(edLines[edLine], edText[edLine], edCol % RegionSize)
<1>1. PICK l : l = edLines[edLine]
  OBVIOUS
<1>2. PICK t : t = edText[edLine]
  OBVIOUS
<1>3. /\ IsLine(l) /\ FlatLine(l) = t /\ IsText(t) /\ t \in Seq(Char)
  <2>1. LinesHold(edLines, edText) /\ edLine \in 1 .. Len(edLines)
    BY DEF EdInv
  <2> QED
    BY <1>1, <1>2, <2>1 DEF LinesHold
<1>4. Holds(l, t)
  BY <1>3, FlatHolds
<1>5. ~Misplaced(Here)
  BY DEF EdInv
<1>6. /\ edCol \in 0 .. Len(t) /\ ~(edCol > 0 /\ edCol = Len(t) /\ t[Len(t)] = LF)
      /\ edRegion \in DOMAIN l /\ edRegion = (edCol \div RegionSize) + 1
  BY <1>1, <1>3, <1>5 DEF Misplaced, Here, Last
<1>7. edRegion \in 1 .. Len(l)
  BY <1>3, <1>6 DEF IsLine
<1>8. edCol \in Nat
  BY <1>3, <1>6
<1>9. PICK at : at = edCol % RegionSize
  OBVIOUS
<1>10. at \in Cell /\ edCol = Start(edRegion) + at
  BY <1>6, <1>8, <1>9, ColumnPlace
<1>11. at <= l[edRegion].pos
  <2>1. at \in Nat /\ at < RegionSize /\ RegionSize \in Nat
    BY <1>10, CellFacts
  <2>2. l[edRegion].pos \in 0 .. RegionSize /\ Start(edRegion) \in Nat /\ Len(l) \in Nat
    BY <1>3, <1>7, LineFacts
  <2>3. CASE edRegion = Len(l)
    <3>1. Len(t) = Start(edRegion) + l[edRegion].pos
      BY <1>4, <2>3 DEF Holds, Extent
    <3>2. Start(edRegion) + at <= Start(edRegion) + l[edRegion].pos
      <4>1. edCol <= Len(t)
        BY <1>3, <1>6
      <4> QED
        BY <1>10, <3>1, <4>1
    <3> QED
      BY <2>1, <2>2, <3>2
  <2>4. CASE edRegion # Len(l)
    <3>1. l[edRegion].pos = RegionSize
      BY <1>3, <1>7, <2>2, <2>4 DEF IsLine
    <3> QED
      BY <2>1, <3>1
  <2> QED
    BY <2>3, <2>4
<1> QED
  BY <1>1, <1>2, <1>3, <1>4, <1>6, <1>7, <1>9, <1>10, <1>11 DEF AtCursor

\* Up to the cursor there is no LF, and behind it only at the end.
LEMMA LineFeeds ==
    ASSUME NEW l, NEW t, NEW at, AtCursor(l, t, at)
    PROVE  /\ Len(t) \in Nat /\ edCol \in Nat /\ edCol <= Len(t)
           /\ \A k \in 1 .. edCol : t[k] # LF
           /\ \A k \in 1 .. Len(t) - 1 : t[k] # LF
<1>1. /\ t \in Seq(Char) /\ edCol \in 0 .. Len(t) /\ ~(edCol > 0 /\ edCol = Len(t) /\ t[Len(t)] = LF)
      /\ \A k \in 1 .. Len(t) - 1 : t[k] # LF
  BY DEF AtCursor, IsText
<1>2. Len(t) \in Nat /\ edCol \in Nat /\ edCol <= Len(t)
  BY <1>1
<1>3. ASSUME NEW k \in 1 .. edCol PROVE t[k] # LF
  <2>1. CASE k = Len(t)
    BY <1>1, <1>2, <2>1
  <2>2. CASE k # Len(t)
    BY <1>1, <1>2, <2>2
  <2> QED
    BY <2>1, <2>2
<1> QED
  BY <1>1, <1>2, <1>3

\* The one line that a key changes, and the text that goes with it.
LEMMA OneLine ==
    ASSUME EdInv, NEW line, IsLine(line), NEW text, Holds(line, text), IsText(text)
    PROVE  /\ LinesHold([edLines EXCEPT ![edLine] = line],
                        Spliced(edText, edLine - 1, <<text>>, edLine + 1))
           /\ Len([edLines EXCEPT ![edLine] = line]) = Len(edLines)
<1>1. LinesHold(edLines, edText) /\ edLine \in 1 .. Len(edLines)
  BY DEF EdInv
<1>2. LinesHold(<<line>>, <<text>>)
  BY LinesOne
<1>3. edLines \in Seq(Seq(Region)) /\ line \in Seq(Region) /\ Len(edLines) \in Nat
  BY <1>1 DEF LinesHold, IsLine
<1>4. [edLines EXCEPT ![edLine] = line] = Spliced(edLines, edLine - 1, <<line>>, edLine + 1)
  BY <1>1, <1>3, SplicedOne
<1>5. edLine - 1 \in 0 .. Len(edLines) /\ edLine + 1 \in (edLine - 1) + 1 .. Len(edLines) + 1
  BY <1>1, <1>3
<1>6. LinesHold(Spliced(edLines, edLine - 1, <<line>>, edLine + 1),
                Spliced(edText, edLine - 1, <<text>>, edLine + 1))
  BY <1>1, <1>2, <1>5, LinesSpliced
<1>7. Len([edLines EXCEPT ![edLine] = line]) = Len(edLines)
  BY <1>3
<1> QED
  BY <1>4, <1>6, <1>7
-----------------------------------------------------------------------------
(***************************************************************************)
(* What each key changes                                                   *)
(***************************************************************************)
\* The record of a state of the editor.
IsState(s) ==
    s = [lines |-> s.lines, line |-> s.line, region |-> s.region, col |-> s.col, ok |-> s.ok]

\* A character put in.
LEMMA InsertStep ==
    ASSUME EdInv, ~edAstray, NEW c \in Char, c # LF, NEW s, s = Insert(Here, c)
    PROVE  /\ LinesHold(s.lines, Spliced(edText, edLine - 1, <<With(edText[edLine], edCol, c)>>, edLine + 1))
           /\ Len(s.lines) = Len(edLines) /\ s.line = edLine /\ s.ok = TRUE /\ IsState(s)
<1>1. PICK l, t, at : l = edLines[edLine] /\ t = edText[edLine] /\ at = edCol % RegionSize
  OBVIOUS
<1>2. AtCursor(l, t, at)
  BY <1>1, CursorFacts
<1>3. PICK line : line = IF l[Len(l)].pos = RegionSize THEN Append(l, NewRegion) ELSE l
  OBVIOUS
<1>4. IsLine(l) /\ Holds(l, t) /\ edRegion \in 1 .. Len(l) /\ Len(l) \in Nat \ {0}
  BY <1>2, LineFacts DEF AtCursor
<1>5. IsLine(line) /\ HasRoom(line) /\ Holds(line, t) /\ edRegion \in 1 .. Len(line)
  <2>1. CASE l[Len(l)].pos = RegionSize
    <3>1. ~HasRoom(l)
      BY <2>1, CellFacts DEF HasRoom
    <3>2. /\ IsLine(Append(l, NewRegion)) /\ HasRoom(Append(l, NewRegion))
          /\ Len(Append(l, NewRegion)) = Len(l) + 1 /\ Holds(Append(l, NewRegion), t)
      BY <1>4, <3>1, RegionAdded
    <3> QED
      BY <1>3, <1>4, <2>1, <3>2
  <2>2. CASE l[Len(l)].pos # RegionSize
    <3>1. l[Len(l)].pos \in 0 .. RegionSize
      BY <1>4, LineFacts
    <3>2. HasRoom(l)
      BY <2>2, <3>1, CellFacts DEF HasRoom
    <3> QED
      BY <1>3, <1>4, <2>2, <3>2
  <2> QED
    BY <2>1, <2>2
<1>6. PICK new : new = GrowLast(ShiftUp(line, edRegion, at, c), 1)
  OBVIOUS
<1>7. PICK text : text = With(t, edCol, c)
  OBVIOUS
<1>8. IsLine(new) /\ Holds(new, text)
  <2>1. at \in Cell /\ edCol = Start(edRegion) + at /\ Start(edRegion) + at <= Len(t)
    BY <1>2, LineFeeds DEF AtCursor
  <2> QED
    BY <1>5, <1>6, <1>7, <2>1, InsertHolds
<1>9. IsText(text)
  <2>1. /\ Len(t) \in Nat /\ edCol \in Nat /\ edCol <= Len(t)
        /\ \A k \in 1 .. edCol : t[k] # LF
        /\ \A k \in 1 .. Len(t) - 1 : t[k] # LF
    BY <1>2, LineFeeds
  <2>2. t \in Seq(Char) /\ edCol \in 0 .. Len(t)
    BY <1>2 DEF AtCursor
  <2>3. /\ text \in Seq(Char) /\ Len(text) = Len(t) + 1
        /\ \A k \in 1 .. edCol : text[k] = t[k]
        /\ text[edCol + 1] = c
        /\ \A k \in edCol + 1 .. Len(t) : text[k + 1] = t[k]
    BY <1>7, <2>2, WithFacts
  <2>4. ASSUME NEW k \in 1 .. Len(text) - 1 PROVE text[k] # LF
    <3>1. CASE k <= edCol
      BY <2>1, <2>3, <3>1
    <3>2. CASE k = edCol + 1
      BY <2>3, <3>2
    <3>3. CASE k > edCol + 1
      <4>1. k - 1 \in edCol + 1 .. Len(t) /\ k - 1 \in 1 .. Len(t) - 1 /\ (k - 1) + 1 = k
        BY <2>1, <2>3, <3>3
      <4> QED
        BY <2>1, <2>3, <4>1
    <3> QED
      BY <2>1, <3>1, <3>2, <3>3
  <2> QED
    BY <2>3, <2>4 DEF IsText
<1>10. s = [Here EXCEPT !.lines[edLine] = new]
  BY <1>1, <1>3, <1>6 DEF Insert, Here, Offset, Last
<1>11. s.lines = [edLines EXCEPT ![edLine] = new] /\ s.line = edLine /\ s.ok = TRUE /\ IsState(s)
  BY <1>10 DEF Here, IsState
<1> QED
  BY <1>1, <1>7, <1>8, <1>9, <1>11, OneLine

\* A character taken away.
LEMMA DeleteStep ==
    ASSUME EdInv, ~edAstray, edCol > 0, edCol % RegionSize # 0,
           edLines[edLine][Len(edLines[edLine])].pos > 0, NEW s, s = Delete(Here)
    PROVE  /\ LinesHold(s.lines, Spliced(edText, edLine - 1, <<Without(edText[edLine], edCol - 1)>>, edLine + 1))
           /\ Len(s.lines) = Len(edLines) /\ s.line = edLine /\ s.ok = TRUE /\ IsState(s)
<1>1. PICK l, t, at : l = edLines[edLine] /\ t = edText[edLine] /\ at = edCol % RegionSize
  OBVIOUS
<1>2. AtCursor(l, t, at)
  BY <1>1, CursorFacts
<1>3. IsLine(l) /\ Holds(l, t) /\ edRegion \in 1 .. Len(l) /\ Len(l) \in Nat \ {0} /\ edRegion \in Nat \ {0}
  BY <1>2, LineFacts DEF AtCursor
<1>4. at - 1 \in Cell /\ Start(edRegion) + (at - 1) = edCol - 1 /\ (edCol - 1) % RegionSize = at - 1
  <2>1. at \in Nat /\ at < RegionSize /\ RegionSize \in Nat
    BY <1>2, CellFacts DEF AtCursor
  <2>2. at - 1 \in Nat /\ at - 1 < RegionSize
    BY <1>1, <2>1
  <2>3. at - 1 \in Cell
    BY <2>2, CellFacts
  <2>4. Start(edRegion) \in Nat /\ edCol = Start(edRegion) + at /\ edCol \in Nat
    <3>1. Start(edRegion) \in Nat
      BY <1>3, StartNat
    <3>2. edCol = Start(edRegion) + at
      BY <1>2 DEF AtCursor
    <3> QED
      BY <2>1, <3>1, <3>2
  <2>5. Start(edRegion) + (at - 1) = edCol - 1 /\ edCol - 1 \in Nat
    BY <2>1, <2>2, <2>4
  <2>6. /\ (edCol - 1) \div RegionSize \in Nat /\ (edCol - 1) % RegionSize \in Cell
        /\ edCol - 1 = Start(((edCol - 1) \div RegionSize) + 1) + ((edCol - 1) % RegionSize)
    BY <2>5, ColumnPlace
  <2>7. PICK r \in Nat \ {0} : r = ((edCol - 1) \div RegionSize) + 1
    BY <2>6
  <2>8. PICK i \in Cell : i = (edCol - 1) % RegionSize
    BY <2>6
  <2>9. Start(r) + i = Start(edRegion) + (at - 1)
    BY <2>5, <2>6, <2>7, <2>8
  <2>10. i = at - 1
    <3>1. Start(r) + i = Start(edRegion) + (at - 1) => r = edRegion /\ i = at - 1
      BY <1>3, <2>3, PlaceSame, Zenon
    <3> QED
      BY <2>9, <3>1
  <2> QED
    BY <2>3, <2>5, <2>8, <2>10
<1>5. PICK down : down = ShiftDown(l, edRegion, at - 1)
  OBVIOUS
<1>6. PICK new : new = GrowLast(down, -1)
  OBVIOUS
<1>7. PICK text : text = Without(t, edCol - 1)
  OBVIOUS
<1>8. t \in Seq(Char) /\ Len(t) \in Nat /\ edCol \in Nat /\ edCol <= Len(t)
  BY <1>2, LineFeeds DEF AtCursor
<1>9. IsLine(new) /\ Holds(new, text) /\ down[Len(down)].pos > 0
  <2>1. Start(edRegion) + (at - 1) < Len(t)
    BY <1>4, <1>8
  <2>2. l[Len(l)].pos > 0
    BY <1>1
  <2>3. /\ IsLine(new) /\ Holds(new, Without(t, Start(edRegion) + (at - 1)))
        /\ down[Len(down)].pos > 0
    BY <1>3, <1>4, <1>5, <1>6, <2>1, <2>2, DeleteHolds
  <2> QED
    BY <1>4, <1>7, <2>3
<1>10. IsText(text)
  <2>1. \A k \in 1 .. Len(t) - 1 : t[k] # LF
    BY <1>2, LineFeeds
  <2>2. edCol - 1 \in 0 .. Len(t) - 1
    BY <1>8
  <2>3. /\ text \in Seq(Char) /\ Len(text) = Len(t) - 1
        /\ \A k \in 1 .. edCol - 1 : text[k] = t[k]
        /\ \A k \in (edCol - 1) + 1 .. Len(t) - 1 : text[k] = t[k + 1]
    BY <1>7, <1>8, <2>2, WithoutFacts
  <2>4. ASSUME NEW k \in 1 .. Len(text) - 1 PROVE text[k] # LF
    <3>1. CASE k <= edCol - 1
      BY <1>8, <2>1, <2>3, <3>1
    <3>2. CASE k > edCol - 1
      <4>1. k \in (edCol - 1) + 1 .. Len(t) - 1 /\ k + 1 \in 1 .. Len(t) - 1
        BY <1>8, <2>3, <3>2
      <4> QED
        BY <2>1, <2>3, <4>1
    <3> QED
      BY <1>8, <3>1, <3>2
  <2> QED
    BY <2>3, <2>4 DEF IsText
<1>11. s = [Here EXCEPT !.lines[edLine] = new]
  <2>1. down = ShiftDown(Here.lines[Here.line], Here.region, (Here.col - 1) % RegionSize)
    BY <1>1, <1>4, <1>5 DEF Here
  <2>2. Last(down).pos > 0
    BY <1>9 DEF Last
  <2> QED
    BY <1>6, <2>1, <2>2 DEF Delete, Here
<1>12. s.lines = [edLines EXCEPT ![edLine] = new] /\ s.line = edLine /\ s.ok = TRUE /\ IsState(s)
  BY <1>11 DEF Here, IsState
<1> QED
  BY <1>1, <1>7, <1>9, <1>10, <1>12, OneLine

\* A character written over.
LEMMA OverStep ==
    ASSUME EdInv, ~edAstray, edCol < Len(edText[edLine]), NEW c \in Char, c # LF,
           NEW s, s = [Here EXCEPT !.lines[Here.line][Here.region].buffer[Offset(Here)] = c]
    PROVE  /\ LinesHold(s.lines, Spliced(edText, edLine - 1,
                                         <<[edText[edLine] EXCEPT ![edCol + 1] = c]>>, edLine + 1))
           /\ Len(s.lines) = Len(edLines) /\ s.line = edLine /\ s.ok = TRUE /\ IsState(s)
<1>1. PICK l, t, at : l = edLines[edLine] /\ t = edText[edLine] /\ at = edCol % RegionSize
  OBVIOUS
<1>2. AtCursor(l, t, at)
  BY <1>1, CursorFacts
<1>3. PICK new : new = [l EXCEPT ![edRegion].buffer[at] = c]
  OBVIOUS
<1>4. PICK text : text = [t EXCEPT ![edCol + 1] = c]
  OBVIOUS
<1>5. IsLine(new) /\ Holds(new, text)
  <2>1. /\ IsLine(l) /\ Holds(l, t) /\ edRegion \in 1 .. Len(l) /\ at \in Cell
        /\ edCol = Start(edRegion) + at
    BY <1>2 DEF AtCursor
  <2>2. Start(edRegion) + at < Len(t)
    BY <1>1, <2>1
  <2>3. IsLine(new) /\ Holds(new, [t EXCEPT ![Start(edRegion) + at + 1] = c])
    BY <1>3, <2>1, <2>2, WriteOverHolds
  <2> QED
    BY <1>4, <2>1, <2>3
<1>6. IsText(text)
  <2>1. t \in Seq(Char) /\ \A k \in 1 .. Len(t) - 1 : t[k] # LF
    BY <1>2, LineFeeds DEF AtCursor
  <2>2. text \in Seq(Char) /\ Len(text) = Len(t) /\ \A k \in 1 .. Len(t) : text[k] \in {t[k], c}
    <3>1. text \in Seq(Char)
      BY <1>5 DEF Holds
    <3>2. Len(text) = Len(t)
      BY <1>4, <2>1
    <3>3. \A k \in 1 .. Len(t) : text[k] = IF k = edCol + 1 THEN c ELSE t[k]
      BY <1>4, <2>1
    <3> QED
      BY <3>1, <3>2, <3>3
  <2> QED
    BY <2>1, <2>2 DEF IsText
<1>7. s = [Here EXCEPT !.lines = [edLines EXCEPT ![edLine] = new]]
  BY <1>1, <1>3 DEF Here, Offset
<1>8. s.lines = [edLines EXCEPT ![edLine] = new] /\ s.line = edLine /\ s.ok = TRUE /\ IsState(s)
  BY <1>7 DEF Here, IsState
<1>9. /\ LinesHold([edLines EXCEPT ![edLine] = new],
                    Spliced(edText, edLine - 1, <<text>>, edLine + 1))
      /\ Len([edLines EXCEPT ![edLine] = new]) = Len(edLines)
  BY <1>5, <1>6, OneLine
<1>10. text = [edText[edLine] EXCEPT ![edCol + 1] = c]
  BY <1>1, <1>4
<1> QED
  BY <1>8, <1>9, <1>10

\* The line cut in two.
LEMMA SplitStep ==
    ASSUME EdInv, ~edAstray, ~Spoils(Here, LF), NEW s, s = Split(Here)
    PROVE  /\ LinesHold(s.lines,
                 Spliced(edText, edLine - 1,
                         <<SubSeq(edText[edLine], 1, edCol) \o <<CR, LF>>,
                           SubSeq(edText[edLine], edCol + 1, Len(edText[edLine]))>>, edLine + 1))
           /\ Len(s.lines) = Len(edLines) + 1 /\ s.line = edLine /\ s.ok = TRUE /\ IsState(s)
<1>1. PICK l, t, at : l = edLines[edLine] /\ t = edText[edLine] /\ at = edCol % RegionSize
  OBVIOUS
<1>2. AtCursor(l, t, at)
  BY <1>1, CursorFacts
<1>3. PICK more : more = FlatLine(SubSeq(l, edRegion + 1, Len(l)))
  OBVIOUS
<1>4. /\ IsLine(l) /\ Holds(l, t) /\ edRegion \in 1 .. Len(l) /\ at \in Cell /\ at <= l[edRegion].pos
      /\ edCol = Start(edRegion) + at /\ t \in Seq(Char)
      /\ l[edRegion].pos \in 0 .. RegionSize /\ edRegion \in DOMAIN l /\ Len(l) \in Nat \ {0}
  <2>1. /\ IsLine(l) /\ Holds(l, t) /\ edRegion \in 1 .. Len(l) /\ at \in Cell /\ at <= l[edRegion].pos
        /\ edCol = Start(edRegion) + at /\ t \in Seq(Char)
    BY <1>2 DEF AtCursor
  <2>2. l[edRegion].pos \in 0 .. RegionSize /\ Len(l) \in Nat \ {0}
    BY <2>1, LineFacts
  <2>3. DOMAIN l = 1 .. Len(l)
    BY <2>1 DEF IsLine
  <2> QED
    BY <2>1, <2>2, <2>3
<1>5. /\ at # RegionSize - 1
      /\ ~(at = 0 /\ l[edRegion].pos = RegionSize /\ more # <<>>)
  <2>1. LF # Backspace
    BY DEF LF, Backspace
  <2>2. /\ Here.line = edLine /\ Here.lines = edLines /\ Here.col = edCol /\ Here.region = edRegion
        /\ Offset(Here) = at
    BY <1>1 DEF Here, Offset
  <2> QED
    BY <1>1, <1>3, <2>1, <2>2 DEF Spoils
<1>6. at > 0 \/ l[edRegion].pos < RegionSize \/ more = <<>>
  <2>1. at \in Nat /\ RegionSize \in Nat
    BY <1>4, CellFacts
  <2> QED
    BY <1>4, <1>5, <2>1
<1>7. PICK head : head = Append(SubSeq(l, 1, edRegion - 1), CutAt(l[edRegion], at))
  OBVIOUS
<1>8. PICK below : below = PutChars(<<RestOf(l[edRegion], at)>>, more)
  OBVIOUS
<1>9. PICK left : left = SubSeq(t, 1, edCol) \o <<CR, LF>>
  OBVIOUS
<1>10. PICK right : right = SubSeq(t, edCol + 1, Len(t))
  OBVIOUS
<1>11. IsLine(head) /\ Holds(head, left)
  <2>1. /\ IsLine(head)
        /\ Holds(head, SubSeq(t, 1, Start(edRegion) + at) \o <<CR, LF>>)
    BY <1>4, <1>5, <1>7, HeadHolds
  <2> QED
    BY <1>4, <1>9, <2>1
<1>12. IsLine(below) /\ Holds(below, right)
  <2>1. IsLine(below) /\ Holds(below, SubSeq(t, Start(edRegion) + at + 1, Len(t)))
    BY <1>3, <1>4, <1>6, <1>8, BelowHolds
  <2> QED
    BY <1>4, <1>10, <2>1
<1>13. /\ Len(t) \in Nat /\ edCol \in Nat /\ edCol <= Len(t)
       /\ \A k \in 1 .. edCol : t[k] # LF
       /\ \A k \in 1 .. Len(t) - 1 : t[k] # LF
  BY <1>2, LineFeeds
<1>14. IsText(left)
  <2>1. PICK first : first = SubSeq(t, 1, edCol)
    OBVIOUS
  <2>2. first \in Seq(Char) /\ Len(first) = edCol /\ \A k \in 1 .. edCol : first[k] = t[k]
    BY <1>4, <1>13, <2>1
  <2>3. PICK ends : ends = <<CR, LF>>
    OBVIOUS
  <2>4. ends \in Seq(Char) /\ Len(ends) = 2 /\ ends[1] = CR
    BY <2>3 DEF Char
  <2>5. /\ left \in Seq(Char) /\ Len(left) = Len(first) + Len(ends)
        /\ \A k \in 1 .. Len(first) : left[k] = first[k]
        /\ \A k \in 1 .. Len(ends) : left[Len(first) + k] = ends[k]
    <3>1. PICK all : all = first \o ends
      OBVIOUS
    <3>2. /\ all \in Seq(Char) /\ Len(all) = Len(first) + Len(ends)
          /\ \A k \in 1 .. Len(first) : all[k] = first[k]
          /\ \A k \in 1 .. Len(ends) : all[Len(first) + k] = ends[k]
      BY <2>2, <2>4, <3>1, Concat
    <3>3. left = all
      BY <1>9, <2>1, <2>3, <3>1
    <3> QED
      BY <3>2, <3>3
  <2>6. ASSUME NEW k \in 1 .. Len(left) - 1 PROVE left[k] # LF
    <3>1. CASE k <= edCol
      BY <1>13, <2>2, <2>5, <3>1
    <3>2. CASE k > edCol
      <4>1. k = Len(first) + 1 /\ 1 \in 1 .. Len(ends)
        BY <1>13, <2>2, <2>4, <2>5, <3>2
      <4>2. left[k] = CR
        BY <2>4, <2>5, <4>1
      <4>3. CR # LF
        BY DEF CR, LF
      <4> QED
        BY <4>2, <4>3
    <3> QED
      BY <1>13, <3>1, <3>2
  <2> QED
    BY <2>5, <2>6 DEF IsText
<1>15. IsText(right)
  <2>1. edCol \in 0 .. Len(t) /\ Len(t) \in edCol .. Len(t)
    BY <1>13
  <2>2. /\ right \in Seq(Char) /\ Len(right) = Len(t) - edCol
        /\ \A k \in 1 .. Len(t) - edCol : right[k] = t[edCol + k]
    BY <1>4, <1>10, <2>1, Part
  <2>3. ASSUME NEW k \in 1 .. Len(right) - 1 PROVE right[k] # LF
    <3>1. k \in 1 .. Len(t) - edCol /\ edCol + k \in 1 .. Len(t) - 1
      BY <1>13, <2>2
    <3> QED
      BY <1>13, <2>2, <3>1
  <2> QED
    BY <2>2, <2>3 DEF IsText
<1>16. LinesHold(<<head, below>>, <<left, right>>)
  <2>1. LinesHold(<<head>>, <<left>>)
    BY <1>11, <1>14, LinesOne
  <2>2. LinesHold(<<below>>, <<right>>)
    BY <1>12, <1>15, LinesOne
  <2>3. LinesHold(<<head>> \o <<below>>, <<left>> \o <<right>>)
    BY <2>1, <2>2, LinesConcat
  <2>4. <<head>> \o <<below>> = <<head, below>> /\ <<left>> \o <<right>> = <<left, right>>
    <3>1. head \in Seq(Region) /\ below \in Seq(Region)
      BY <1>11, <1>12 DEF IsLine
    <3>2. <<head>> \o <<below>> = <<head, below>>
      BY <3>1, Pair
    <3>3. left \in Seq(Char) /\ right \in Seq(Char)
      BY <1>14, <1>15 DEF IsText
    <3>4. <<left>> \o <<right>> = <<left, right>>
      BY <3>3, Pair
    <3> QED
      BY <3>2, <3>4
  <2> QED
    BY <2>3, <2>4
<1>17. LinesHold(edLines, edText) /\ edLine \in 1 .. Len(edLines) /\ Len(edLines) \in Nat
  BY DEF EdInv, LinesHold
<1>18. edLine - 1 \in 0 .. Len(edLines) /\ edLine + 1 \in (edLine - 1) + 1 .. Len(edLines) + 1
  BY <1>17
<1>19. PICK lines : lines = Spliced(edLines, edLine - 1, <<head, below>>, edLine + 1)
  OBVIOUS
<1>20. LinesHold(lines, Spliced(edText, edLine - 1, <<left, right>>, edLine + 1))
  BY <1>16, <1>17, <1>18, <1>19, LinesSpliced
<1>21. Len(lines) = Len(edLines) + 1
  <2>1. edLines \in Seq(Seq(Region)) /\ <<head, below>> \in Seq(Seq(Region)) /\ Len(<<head, below>>) = 2
    BY <1>16, <1>17 DEF LinesHold
  <2>2. Len(lines) = (edLine - 1) + Len(<<head, below>>) + (Len(edLines) + 1 - (edLine + 1))
    BY <1>18, <1>19, <2>1, SplicedLen
  <2> QED
    BY <1>17, <2>1, <2>2
<1>22. s = [Here EXCEPT !.lines = lines]
  <2>1. Here.lines = edLines /\ Here.line = edLine /\ Here.region = edRegion /\ Offset(Here) = at
    BY <1>1 DEF Here, Offset
  <2>2. RestOf(l[edRegion], at) =
            [buffer |-> [k \in Cell |-> IF at + k < l[edRegion].pos
                                        THEN l[edRegion].buffer[at + k] ELSE NUL],
             pos |-> l[edRegion].pos - at]
    BY DEF RestOf
  <2>3. CutAt(l[edRegion], at) =
            [buffer |-> [l[edRegion].buffer EXCEPT ![at] = CR, ![at + 1] = LF], pos |-> at + 2]
    BY DEF CutAt
  <2>4. lines = SubSeq(edLines, 1, edLine - 1) \o << head, below >>
                \o SubSeq(edLines, edLine + 1, Len(edLines))
    BY <1>19 DEF Spliced
  <2> QED
    BY <1>1, <1>3, <1>7, <1>8, <2>1, <2>2, <2>3, <2>4 DEF Split
<1>23. s.lines = lines /\ s.line = edLine /\ s.ok = TRUE /\ IsState(s)
  BY <1>22 DEF Here, IsState
<1> QED
  BY <1>1, <1>9, <1>10, <1>20, <1>21, <1>23

\* The line joined to the one above.
LEMMA JoinStep ==
    ASSUME EdInv, edLine > 1, edLines[edLine - 1][Len(edLines[edLine - 1])].pos >= 2,
           NEW s, s = Join(Here)
    PROVE  /\ LinesHold(s.lines,
                 Spliced(edText, edLine - 2,
                         <<SubSeq(edText[edLine - 1], 1, Len(edText[edLine - 1]) - 2) \o edText[edLine]>>,
                         edLine + 1))
           /\ Len(s.lines) = Len(edLines) - 1 /\ s.line = edLine /\ s.ok = TRUE /\ s.col = edCol /\ IsState(s)
<1>1. PICK l, t : l = edLines[edLine] /\ t = edText[edLine]
  OBVIOUS
<1>2. PICK above, told : above = edLines[edLine - 1] /\ told = edText[edLine - 1]
  OBVIOUS
<1>3. /\ LinesHold(edLines, edText) /\ edLine \in 1 .. Len(edLines) /\ edLine - 1 \in 1 .. Len(edLines)
      /\ Len(edLines) \in Nat
  BY SMTT(30) DEF EdInv, LinesHold
<1>4. IsLine(l) /\ FlatLine(l) = t /\ IsText(t) /\ t \in Seq(Char)
  BY <1>1, <1>3 DEF LinesHold
<1>5. IsLine(above) /\ FlatLine(above) = told /\ IsText(told) /\ told \in Seq(Char)
  BY <1>2, <1>3, SMTT(30) DEF LinesHold
<1>6. Holds(above, told)
  BY <1>5, FlatHolds
<1>7. PICK kept : kept = SubSeq(told, 1, Len(told) - 2)
  OBVIOUS
<1>8. IsLine(GrowLast(above, -2)) /\ HasRoom(GrowLast(above, -2)) /\ Holds(GrowLast(above, -2), kept)
  BY <1>2, <1>5, <1>6, <1>7, ShortenHolds
<1>9. PICK new : new = PutChars(GrowLast(above, -2), t)
  OBVIOUS
<1>10. IsLine(new) /\ Holds(new, kept \o t)
  BY <1>4, <1>8, <1>9, PutCharsHolds
<1>11. IsText(kept \o t)
  <2>1. kept \in Seq(Char)
    BY <1>8 DEF Holds
  <2>2. PICK all : all = kept \o t
    OBVIOUS
  <2>3. /\ all \in Seq(Char) /\ Len(all) = Len(kept) + Len(t) /\ Len(kept) \in Nat /\ Len(t) \in Nat
        /\ \A k \in 1 .. Len(kept) : all[k] = kept[k]
        /\ \A k \in 1 .. Len(t) : all[Len(kept) + k] = t[k]
    BY <1>4, <2>1, <2>2, Concat
  <2>4. Len(kept) = Len(told) - 2 /\ \A k \in 1 .. Len(kept) : kept[k] = told[k]
    <3>1. Len(told) \in Nat /\ Len(told) >= 2
      <4>1. /\ Len(told) = Start(Len(above)) + above[Len(above)].pos /\ Len(told) \in Nat
            /\ Len(above) \in Nat \ {0}
        BY <1>5, <1>6, LineFacts DEF Holds, Extent
      <4>2. Start(Len(above)) \in Nat
        BY <4>1, StartNat
      <4>3. above[Len(above)].pos \in Nat /\ above[Len(above)].pos >= 2
        <5>1. above[Len(above)].pos \in 0 .. RegionSize
          BY <1>5, <4>1, LineFacts
        <5> QED
          BY <1>2, <5>1, CellFacts
      <4> QED
        BY <4>1, <4>2, <4>3
    <3>2. PICK m \in Nat : m = Len(told) - 2
      BY <3>1, SMTT(30)
    <3>3. kept = SubSeq(told, 1, m) /\ m <= Len(told)
      BY <1>7, <3>1, <3>2
    <3> QED
      BY <1>5, <3>2, <3>3
  <2>5. (\A k \in 1 .. Len(told) - 1 : told[k] # LF) /\ (\A k \in 1 .. Len(t) - 1 : t[k] # LF)
        /\ Len(told) \in Nat
    BY <1>4, <1>5 DEF IsText
  <2>6. ASSUME NEW k \in 1 .. Len(all) - 1 PROVE all[k] # LF
    <3>1. CASE k <= Len(kept)
      BY <2>3, <2>4, <2>5, <3>1
    <3>2. CASE k > Len(kept)
      <4>1. PICK j : j = k - Len(kept)
        OBVIOUS
      <4>2. j \in 1 .. Len(t) - 1 /\ j \in 1 .. Len(t) /\ Len(kept) + j = k
        BY <2>3, <3>2, <4>1
      <4> QED
        BY <2>3, <2>5, <4>2
    <3> QED
      BY <2>3, <3>1, <3>2
  <2> QED
    BY <2>2, <2>3, <2>6 DEF IsText
<1>12. LinesHold(<<new>>, <<kept \o t>>)
  BY <1>10, <1>11, LinesOne
<1>13. edLine - 2 \in 0 .. Len(edLines) /\ edLine + 1 \in (edLine - 2) + 1 .. Len(edLines) + 1
  BY <1>3
<1>14. PICK lines : lines = Spliced(edLines, edLine - 2, <<new>>, edLine + 1)
  OBVIOUS
<1>15. LinesHold(lines, Spliced(edText, edLine - 2, <<kept \o t>>, edLine + 1))
  BY <1>3, <1>12, <1>13, <1>14, LinesSpliced
<1>16. Len(lines) = Len(edLines) - 1
  <2>1. edLines \in Seq(Seq(Region)) /\ <<new>> \in Seq(Seq(Region)) /\ Len(<<new>>) = 1
    BY <1>3, <1>12 DEF LinesHold
  <2>2. Len(lines) = (edLine - 2) + Len(<<new>>) + (Len(edLines) + 1 - (edLine + 1))
    BY <1>13, <1>14, <2>1, SplicedLen
  <2> QED
    BY <1>3, <2>1, <2>2
<1>17. s = [Here EXCEPT !.lines = lines]
  <2>1. Here.lines = edLines /\ Here.line = edLine
    BY DEF Here
  <2>2. lines = SubSeq(edLines, 1, edLine - 2) \o <<new>> \o SubSeq(edLines, edLine + 1, Len(edLines))
    BY <1>14 DEF Spliced
  <2>3. new = PutChars(GrowLast(edLines[edLine - 1], -2), FlatLine(edLines[edLine]))
    BY <1>1, <1>2, <1>4, <1>9
  <2> QED
    BY <2>1, <2>2, <2>3 DEF Join
<1>18. s.lines = lines /\ s.line = edLine /\ s.ok = TRUE /\ s.col = edCol /\ IsState(s)
  BY <1>17 DEF Here, IsState
<1> QED
  BY <1>1, <1>2, <1>7, <1>15, <1>16, <1>18

\* A text with one character written over.
Over(t, col, c) == SubSeq(t, 1, col) \o <<c>> \o Tail(SubSeq(t, col + 1, Len(t)))

\* Overwriting a character by taking it off the rest and adding another changes that entry of the text alone.
LEMMA OverText ==
    ASSUME NEW t \in Seq(Char), NEW col \in 0 .. Len(t) - 1, NEW c \in Char
    PROVE  Over(t, col, c) = [t EXCEPT ![col + 1] = c]
<1>1. Len(t) \in Nat /\ col \in Nat /\ col < Len(t) /\ col \in 0 .. Len(t) /\ Len(t) \in col .. Len(t)
  OBVIOUS
<1>2. PICK right : right = SubSeq(t, col + 1, Len(t))
  OBVIOUS
<1>3. /\ right \in Seq(Char) /\ Len(right) = Len(t) - col
      /\ \A k \in 1 .. Len(t) - col : right[k] = t[col + k]
  BY <1>1, <1>2, Part
<1>4. PICK rest : rest = Tail(right)
  OBVIOUS
<1>5. /\ rest \in Seq(Char) /\ Len(rest) = Len(t) - col - 1
      /\ \A k \in 1 .. Len(t) - col - 1 : rest[k] = t[col + 1 + k]
  <2>1. right # <<>>
    BY <1>1, <1>3
  <2>2. /\ rest \in Seq(Char) /\ Len(rest) = Len(right) - 1
        /\ \A k \in 1 .. Len(right) - 1 : rest[k] = right[k + 1]
    BY <1>3, <1>4, <2>1
  <2>3. ASSUME NEW k \in 1 .. Len(t) - col - 1 PROVE rest[k] = t[col + 1 + k]
    <3>1. k + 1 \in 1 .. Len(t) - col /\ k \in 1 .. Len(right) - 1 /\ col + (k + 1) = col + 1 + k
      BY <1>1, <1>3
    <3>2. right[k + 1] = t[col + (k + 1)]
      BY <1>3, <3>1
    <3> QED
      BY <2>2, <3>1, <3>2
  <2> QED
    BY <1>1, <1>3, <2>2, <2>3
<1>6. PICK left : left = SubSeq(t, 1, col)
  OBVIOUS
<1>7. left \in Seq(Char) /\ Len(left) = col /\ \A k \in 1 .. col : left[k] = t[k]
  BY <1>1, <1>6
<1>8. PICK begun : begun = left \o <<c>>
  OBVIOUS
<1>9. /\ begun \in Seq(Char) /\ Len(begun) = col + 1 /\ begun[col + 1] = c
      /\ \A k \in 1 .. col : begun[k] = t[k]
  <2>1. begun = Append(left, c)
    BY <1>7, <1>8
  <2> QED
    BY <1>1, <1>7, <2>1
<1>10. PICK all : all = begun \o rest
  OBVIOUS
<1>11. /\ all \in Seq(Char) /\ Len(all) = Len(begun) + Len(rest)
       /\ \A k \in 1 .. Len(begun) : all[k] = begun[k]
       /\ \A k \in 1 .. Len(rest) : all[Len(begun) + k] = rest[k]
  BY <1>5, <1>9, <1>10, Concat
<1>12. PICK over : over = [t EXCEPT ![col + 1] = c]
  OBVIOUS
<1>13. /\ over \in Seq(Char) /\ Len(over) = Len(t)
       /\ \A k \in 1 .. Len(t) : over[k] = IF k = col + 1 THEN c ELSE t[k]
  BY <1>1, <1>12
<1>14. Len(all) = Len(over)
  BY <1>1, <1>5, <1>9, <1>11, <1>13
<1>15. ASSUME NEW k \in 1 .. Len(all) PROVE all[k] = over[k]
  <2>1. k \in 1 .. Len(t)
    BY <1>13, <1>14
  <2>2. CASE k <= col
    BY <1>1, <1>9, <1>11, <1>13, <2>1, <2>2
  <2>3. CASE k = col + 1
    BY <1>1, <1>9, <1>11, <1>13, <2>1, <2>3
  <2>4. CASE k > col + 1
    <3>1. PICK j : j = k - (col + 1)
      OBVIOUS
    <3>2. j \in 1 .. Len(rest) /\ j \in 1 .. Len(t) - col - 1 /\ (col + 1) + j = k /\ k # col + 1
      BY <1>1, <1>5, <2>1, <2>4, <3>1
    <3>3. all[Len(begun) + j] = rest[j] /\ rest[j] = t[col + 1 + j]
      BY <1>5, <1>11, <3>2
    <3> QED
      BY <1>9, <1>13, <2>1, <3>2, <3>3
  <2> QED
    BY <1>1, <2>1, <2>2, <2>3, <2>4
<1>16. all = over
  BY <1>11, <1>13, <1>14, <1>15, SameText
<1> QED
  BY <1>2, <1>4, <1>6, <1>8, <1>10, <1>12, <1>16 DEF Over

\* The end of a line, as the keys on plain lines know it.
Ending(t) == edCol = Len(t) \/ (edCol = Len(t) - 2 /\ t[Len(t)] = LF)

\* The editor knows it from the region of the cursor.
LEMMA WritesOverWhen ==
    ASSUME EdInv, ~edAstray, edInsert, NEW c, c # LF, c # Backspace, ~Spoils(Here, c),
           NEW t, t = edText[edLine]
    PROVE  WritesOver(Here, c) <=> ~Ending(t)
<1>1. PICK l, at : l = edLines[edLine] /\ at = edCol % RegionSize
  OBVIOUS
<1>2. AtCursor(l, t, at)
  BY <1>1, CursorFacts
<1>3. PICK q : q = edRegion
  OBVIOUS
<1>4. PICK p : p = l[q].pos
  OBVIOUS
<1>5. PICK n : n = Len(t)
  OBVIOUS
<1>6. /\ IsLine(l) /\ Holds(l, t) /\ q \in 1 .. Len(l) /\ at \in Cell /\ edCol = Start(q) + at
      /\ at <= p /\ ~(edCol > 0 /\ edCol = n /\ t[n] = LF)
  BY <1>2, <1>3, <1>4, <1>5 DEF AtCursor
<1>7. /\ n \in Nat /\ edCol \in Nat /\ edCol <= n /\ \A k \in 1 .. n - 1 : t[k] # LF
  BY <1>2, <1>5, LineFeeds
<1>8. at \in Nat /\ at < RegionSize /\ RegionSize \in Nat /\ RegionSize > 2
  BY <1>6, CellFacts
<1>9. p \in Nat /\ p <= RegionSize /\ Len(l) \in Nat \ {0} /\ Start(q) \in Nat /\ Start(q) + p <= n
  <2>1. n = Extent(l)
    BY <1>5, <1>6 DEF Holds
  <2>2. p \in 0 .. RegionSize /\ Len(l) \in Nat \ {0} /\ Start(q) \in Nat /\ Start(q) + p <= Extent(l)
    BY <1>4, <1>6, LineFacts
  <2> QED
    BY <1>8, <2>1, <2>2
<1>10. PICK last : last = At(l[q], p - 1)
  OBVIOUS
<1>11. (p = 0 => last = NUL) /\ (p > 0 => last = t[Start(q) + p])
  <2>1. CASE p = 0
    <3>1. p - 1 \notin Cell
      BY <2>1, CellFacts
    <3> QED
      BY <1>10, <2>1, <3>1 DEF At
  <2>2. CASE p > 0
    <3>1. p - 1 \in 0 .. p - 1 /\ p - 1 \in Nat /\ p - 1 < RegionSize /\ Start(q) + (p - 1) + 1 = Start(q) + p
      BY <1>8, <1>9, <2>2
    <3>2. p - 1 \in Cell
      BY <3>1, CellFacts
    <3>3. last = l[q].buffer[p - 1]
      BY <1>10, <3>2 DEF At
    <3>4. t[Start(q) + (p - 1) + 1] = l[q].buffer[p - 1]
      BY <1>4, <1>6, <3>1 DEF Holds
    <3> QED
      BY <1>9, <2>2, <3>1, <3>3, <3>4
  <2> QED
    BY <1>9, <2>1, <2>2
<1>12. WritesOver(Here, c) <=> ~(at = p - 2 /\ last = LF) /\ ~(at = p /\ last # LF)
  BY <1>1, <1>3, <1>4, <1>10 DEF WritesOver, Here, Offset
<1>13. ~(at = RegionSize - 1 /\ edCol = n - 2 /\ t[n] = LF)
  <2>1. /\ Here.line = edLine /\ Here.lines = edLines /\ Here.col = edCol /\ Here.region = edRegion
        /\ Offset(Here) = at
    BY <1>1 DEF Here, Offset
  <2>2. FlatLine(edLines[edLine]) = t
    <3>1. LinesHold(edLines, edText) /\ edLine \in 1 .. Len(edLines)
      BY DEF EdInv
    <3> QED
      BY <3>1 DEF LinesHold
  <2> QED
    BY <1>5, <2>1, <2>2 DEF Spoils, Last
<1>14. (at = p - 2 /\ last = LF) \/ (at = p /\ last # LF)
           <=> edCol = n \/ (edCol = n - 2 /\ t[n] = LF)
  <2>1. CASE q = Len(l)
    <3>1. n = Start(q) + p
      BY <1>4, <1>5, <1>6, <2>1 DEF Holds, Extent
    <3>2. (edCol = n <=> at = p) /\ (edCol = n - 2 <=> at = p - 2)
      BY <1>6, <1>8, <1>9, <3>1
    <3>3. at = p - 2 => (last = LF <=> t[n] = LF)
      BY <1>8, <1>9, <1>11, <3>1
    <3>4. at = p => last # LF
      <4>1. NUL # LF
        BY DEF NUL, LF
      <4> QED
        BY <1>6, <1>7, <1>9, <1>11, <3>1, <3>2, <4>1
    <3> QED
      BY <3>2, <3>3, <3>4
  <2>2. CASE q # Len(l)
    <3>1. p = RegionSize
      BY <1>4, <1>6, <1>9, <2>2 DEF IsLine
    <3>2. at # p /\ edCol # n
      BY <1>6, <1>8, <1>9, <3>1
    <3>3. at = p - 2 /\ last = LF => edCol = n - 2 /\ t[n] = LF
      <4>1. SUFFICES ASSUME at = p - 2, last = LF PROVE edCol = n - 2 /\ t[n] = LF
        OBVIOUS
      <4>2. PICK k : k = Start(q) + p
        OBVIOUS
      <4>3. t[k] = LF /\ k \in 1 .. n
        BY <1>8, <1>9, <1>11, <3>1, <4>1, <4>2
      <4>4. k = n
        BY <1>7, <4>3
      <4> QED
        BY <1>6, <1>8, <1>9, <4>1, <4>2, <4>3, <4>4
    <3>4. edCol = n - 2 /\ t[n] = LF => at = p - 2 /\ last = LF
      <4>1. SUFFICES ASSUME edCol = n - 2, t[n] = LF PROVE at = p - 2 /\ last = LF
        OBVIOUS
      <4>2. at # RegionSize - 1
        BY <1>13, <4>1
      <4>3. at = p - 2 /\ n = Start(q) + p
        BY <1>6, <1>7, <1>8, <1>9, <3>1, <4>1, <4>2
      <4> QED
        BY <1>8, <1>9, <1>11, <3>1, <4>1, <4>3
    <3> QED
      BY <3>2, <3>3, <3>4
  <2> QED
    BY <2>1, <2>2
<1> QED
  BY <1>5, <1>12, <1>14 DEF Ending

\* The keys on plain lines, one by one.
LEMMA PlainEnter ==
    ASSUME edLine \in Nat, NEW t, t = edText[edLine]
    PROVE  Plain(LF) =
               Spliced(edText, edLine - 1,
                       <<SubSeq(t, 1, edCol) \o <<CR, LF>>, SubSeq(t, edCol + 1, Len(t))>>, edLine + 1)
<1>1. LF # Backspace
  BY DEF LF, Backspace
<1>2. edLine - 1 - 0 = edLine - 1
  OBVIOUS
<1> QED
  BY <1>1, <1>2 DEF Plain, Spliced

\* Backspace inside a line takes out the character before the cursor.
LEMMA PlainBackspace ==
    ASSUME edLine \in Nat, NEW t \in Seq(Char), t = edText[edLine], edCol \in 1 .. Len(t)
    PROVE  Plain(Backspace) = Spliced(edText, edLine - 1, <<Without(t, edCol - 1)>>, edLine + 1)
<1>1. LF # Backspace /\ edCol > 0 /\ edCol # 0
  BY DEF LF, Backspace
<1>2. edLine - 1 - 0 = edLine - 1
  OBVIOUS
<1>3. Front(SubSeq(t, 1, edCol)) \o SubSeq(t, edCol + 1, Len(t)) = Without(t, edCol - 1)
  <2>1. Len(t) \in Nat /\ edCol \in Nat /\ edCol <= Len(t)
    OBVIOUS
  <2>2. PICK left : left = SubSeq(t, 1, edCol)
    OBVIOUS
  <2>3. left \in Seq(Char) /\ Len(left) = edCol /\ \A k \in 1 .. edCol : left[k] = t[k]
    BY <2>1, <2>2
  <2>4. SubSeq(left, 1, edCol - 1) = SubSeq(t, 1, edCol - 1)
    <3>1. PICK m \in Nat : m = edCol - 1
      BY <1>1, <2>1
    <3>2. PICK x, y : x = SubSeq(left, 1, m) /\ y = SubSeq(t, 1, m)
      OBVIOUS
    <3>3. x \in Seq(Char) /\ Len(x) = m /\ \A k \in 1 .. m : x[k] = left[k]
      BY <2>1, <2>3, <3>1, <3>2
    <3>4. y \in Seq(Char) /\ Len(y) = m /\ \A k \in 1 .. m : y[k] = t[k]
      BY <2>1, <3>1, <3>2
    <3>5. \A k \in 1 .. m : left[k] = t[k]
      BY <2>1, <2>3, <3>1
    <3>6. x = y
      BY <3>3, <3>4, <3>5, SameText
    <3> QED
      BY <3>1, <3>2, <3>6
  <2>5. Front(left) = SubSeq(t, 1, edCol - 1)
    BY <2>3, <2>4 DEF Front
  <2>6. (edCol - 1) + 2 = edCol + 1
    BY <2>1
  <2> QED
    BY <2>2, <2>5, <2>6 DEF Without
<1> QED
  BY <1>1, <1>2, <1>3 DEF Plain, Spliced

\* Backspace at the start of a line joins it to the line above.
LEMMA PlainJoin ==
    ASSUME edCol = 0, edLine \in Nat, edLine > 1
    PROVE  Plain(Backspace) =
               Spliced(edText, edLine - 2,
                       <<SubSeq(edText[edLine - 1], 1, Len(edText[edLine - 1]) - 2) \o edText[edLine]>>,
                       edLine + 1)
<1>1. LF # Backspace /\ ~(edCol > 0)
  BY DEF LF, Backspace
<1>2. edLine - 1 - 1 = edLine - 2
  OBVIOUS
<1> QED
  BY <1>1, <1>2 DEF Plain, Spliced

\* Backspace at the start of the text leaves it as it is.
LEMMA PlainNothing ==
    ASSUME edCol = 0, edLine = 1
    PROVE  Plain(Backspace) = edText
<1>1. LF # Backspace /\ ~(edCol > 0) /\ ~(edLine > 1)
  BY DEF LF, Backspace
<1> QED
  BY <1>1 DEF Plain

\* A typed character overwrites or enters the line at the cursor.
LEMMA PlainTyped ==
    ASSUME edLine \in Nat, NEW c \in Char, c # LF, c # Backspace,
           NEW t \in Seq(Char), t = edText[edLine], edCol \in 0 .. Len(t)
    PROVE  Plain(c) = Spliced(edText, edLine - 1,
                              <<IF edInsert /\ ~Ending(t) THEN [t EXCEPT ![edCol + 1] = c]
                                ELSE With(t, edCol, c)>>, edLine + 1)
<1>1. edLine - 1 - 0 = edLine - 1
  OBVIOUS
<1>2. PICK right : right = SubSeq(t, edCol + 1, Len(t))
  OBVIOUS
<1>3. Len(t) \in Nat /\ edCol \in Nat /\ edCol <= Len(t)
  OBVIOUS
<1>4. /\ right \in Seq(Char) /\ Len(right) = Len(t) - edCol
      /\ \A k \in 1 .. Len(t) - edCol : right[k] = t[edCol + k]
  <2>1. edCol \in 0 .. Len(t) /\ Len(t) \in edCol .. Len(t)
    BY <1>3
  <2> QED
    BY <1>2, <2>1, Part
<1>5. right = <<>> \/ (Len(right) = 2 /\ right[2] = LF) <=> Ending(t)
  <2>1. right = <<>> <=> edCol = Len(t)
    BY <1>3, <1>4
  <2>2. Len(right) = 2 <=> edCol = Len(t) - 2
    BY <1>3, <1>4
  <2>3. ASSUME Len(right) = 2 PROVE right[2] = t[Len(t)]
    <3>1. 2 \in 1 .. Len(t) - edCol /\ edCol + 2 = Len(t)
      <4>1. Len(t) - edCol = 2
        BY <1>4, <2>3
      <4>2. edCol + 2 = Len(t)
        BY <1>3, <4>1
      <4> QED
        BY <4>1, <4>2
    <3>2. right[2] = t[edCol + 2]
      BY <1>4, <3>1
    <3> QED
      BY <3>1, <3>2
  <2> QED
    BY <2>1, <2>2, <2>3 DEF Ending
<1>6. PICK text : text = SubSeq(t, 1, edCol) \o <<c>> \o
                         (IF edInsert /\ ~(right = <<>> \/ (Len(right) = 2 /\ right[2] = LF))
                          THEN Tail(right) ELSE right)
  OBVIOUS
<1>7. Plain(c) = Spliced(edText, edLine - 1, <<text>>, edLine + 1)
  BY <1>1, <1>2, <1>6 DEF Plain, Spliced
<1>8. text = IF edInsert /\ ~Ending(t) THEN [t EXCEPT ![edCol + 1] = c] ELSE With(t, edCol, c)
  <2>1. CASE edInsert /\ ~Ending(t)
    <3>1. edCol \in 0 .. Len(t) - 1
      BY <1>3, <2>1 DEF Ending
    <3>2. SubSeq(t, 1, edCol) \o <<c>> \o Tail(right) = [t EXCEPT ![edCol + 1] = c]
      <4>1. Over(t, edCol, c) = [t EXCEPT ![edCol + 1] = c]
        BY <3>1, OverText
      <4> QED
        BY <1>2, <4>1 DEF Over
    <3>3. text = SubSeq(t, 1, edCol) \o <<c>> \o Tail(right)
      BY <1>5, <1>6, <2>1
    <3> QED
      BY <2>1, <3>2, <3>3
  <2>2. CASE ~(edInsert /\ ~Ending(t))
    <3>1. text = SubSeq(t, 1, edCol) \o <<c>> \o right
      BY <1>5, <1>6, <2>2
    <3> QED
      BY <1>2, <2>2, <3>1 DEF With
  <2> QED
    BY <2>1, <2>2
<1> QED
  BY <1>7, <1>8

\* What a key leads to before the cursor follows.
Changed(c) == IF edInsert THEN insert_at_position(Here, c) ELSE append_at_position(Here, c)

\* The cursor is in a line, or backspace has taken the line it was in.
InLine(s) == s.line \in 1 .. Len(s.lines)
LineGone(s) == s.col = 0 /\ s.line - 1 \in 1 .. Len(s.lines) /\ s.line # 1

\* A key that spoils nothing leaves lines that hold the text the key stands for, and a cursor the code can go on from.
LEMMA KeyHolds ==
    ASSUME EdInv, ~edAstray, NEW c \in Typed \cup {LF, Backspace}, ~Spoils(Here, c),
           NEW s, s = Changed(c)
    PROVE  \/ s.ok = FALSE /\ Plain(c) = edText
           \/ /\ s.ok = TRUE /\ IsState(s) /\ LinesHold(s.lines, Plain(c))
              /\ InLine(s) \/ (c = Backspace /\ LineGone(s))
<1>1. PICK l, t, at : l = edLines[edLine] /\ t = edText[edLine] /\ at = edCol % RegionSize
  OBVIOUS
<1>2. AtCursor(l, t, at)
  BY <1>1, CursorFacts
<1>3. /\ t \in Seq(Char) /\ edCol \in 0 .. Len(t) /\ IsLine(l)
      /\ Len(t) \in Nat /\ edCol \in Nat /\ edCol <= Len(t)
  BY <1>2, LineFeeds DEF AtCursor
<1>4. edLine \in 1 .. Len(edLines) /\ Len(edLines) \in Nat
  BY DEF EdInv, LinesHold
<1>5. /\ Here.line = edLine /\ Here.lines = edLines /\ Here.col = edCol /\ Here.region = edRegion
      /\ Offset(Here) = at
  BY <1>1 DEF Here, Offset
<1>6. LF # Backspace
  BY DEF LF, Backspace
<1>7. CASE c = LF
  <2>1. s = Split(Here)
    BY <1>6, <1>7 DEF Changed, insert_at_position, append_at_position, WritesOver
  <2>2. /\ LinesHold(s.lines,
               Spliced(edText, edLine - 1,
                       <<SubSeq(edText[edLine], 1, edCol) \o <<CR, LF>>,
                         SubSeq(edText[edLine], edCol + 1, Len(edText[edLine]))>>, edLine + 1))
        /\ Len(s.lines) = Len(edLines) + 1 /\ s.line = edLine /\ s.ok = TRUE /\ IsState(s)
    BY <1>7, <2>1, SplitStep
  <2>3. LinesHold(s.lines, Plain(LF))
    <3>1. edLine \in Nat
      BY <1>4
    <3>2. Plain(LF) =
              Spliced(edText, edLine - 1,
                      <<SubSeq(t, 1, edCol) \o <<CR, LF>>, SubSeq(t, edCol + 1, Len(t))>>, edLine + 1)
      BY <1>1, <3>1, PlainEnter
    <3> QED
      BY <1>1, <2>2, <3>2
  <2>4. InLine(s)
    BY <1>4, <2>2 DEF InLine
  <2> QED
    BY <1>7, <2>2, <2>3, <2>4
<1>8. CASE c = Backspace
  <2>1. s = remove_at_position(Here)
    BY <1>6, <1>8 DEF Changed, insert_at_position, append_at_position, WritesOver
  <2>2. CASE edCol > 0
    <3>1. s = Delete(Here)
      BY <1>5, <2>1, <2>2 DEF remove_at_position
    <3>2. at # 0 /\ l[Len(l)].pos # 0
      BY <1>1, <1>5, <1>6, <1>8, <2>2 DEF Spoils, Last
    <3>3. l[Len(l)].pos > 0
      <4>1. l[Len(l)].pos \in 0 .. RegionSize
        BY <1>3, LineFacts
      <4> QED
        BY <3>2, <4>1, CellFacts
    <3>4. /\ LinesHold(s.lines, Spliced(edText, edLine - 1, <<Without(edText[edLine], edCol - 1)>>, edLine + 1))
          /\ Len(s.lines) = Len(edLines) /\ s.line = edLine /\ s.ok = TRUE /\ IsState(s)
      BY <1>1, <2>2, <3>1, <3>2, <3>3, DeleteStep
    <3>5. LinesHold(s.lines, Plain(Backspace))
      <4>1. edCol \in 1 .. Len(t)
        BY <1>3, <2>2
      <4>2. Plain(Backspace) = Spliced(edText, edLine - 1, <<Without(t, edCol - 1)>>, edLine + 1)
        BY <1>1, <1>3, <1>4, <4>1, PlainBackspace
      <4> QED
        BY <1>1, <3>4, <4>2
    <3>6. InLine(s)
      BY <1>4, <3>4 DEF InLine
    <3> QED
      BY <1>8, <3>4, <3>5, <3>6
  <2>3. CASE edCol = 0 /\ edLine > 1
    <3>1. s = Join(Here)
      BY <1>5, <2>1, <2>3 DEF remove_at_position
    <3>2. PICK above : above = edLines[edLine - 1]
      OBVIOUS
    <3>3. ~(above[Len(above)].pos < 2)
      BY <1>5, <1>6, <1>8, <2>3, <3>2 DEF Spoils, Last
    <3>4. above[Len(above)].pos >= 2
      <4>1. edLine - 1 \in 1 .. Len(edLines) /\ LinesHold(edLines, edText)
        BY <1>4, <2>3 DEF EdInv
      <4>2. IsLine(above)
        BY <3>2, <4>1 DEF LinesHold
      <4>3. above[Len(above)].pos \in 0 .. RegionSize
        BY <4>2, LineFacts
      <4> QED
        BY <3>3, <4>3, CellFacts
    <3>5. /\ LinesHold(s.lines,
                 Spliced(edText, edLine - 2,
                         <<SubSeq(edText[edLine - 1], 1, Len(edText[edLine - 1]) - 2) \o edText[edLine]>>,
                         edLine + 1))
          /\ Len(s.lines) = Len(edLines) - 1 /\ s.line = edLine /\ s.ok = TRUE /\ s.col = edCol /\ IsState(s)
      BY <2>3, <3>1, <3>2, <3>4, JoinStep
    <3>6. LinesHold(s.lines, Plain(Backspace))
      BY <1>4, <2>3, <3>5, PlainJoin
    <3>7. LineGone(s)
      BY <1>4, <2>3, <3>5 DEF LineGone
    <3> QED
      BY <1>8, <3>5, <3>6, <3>7
  <2>4. CASE edCol = 0 /\ ~(edLine > 1)
    <3>1. s = Stay(Here)
      BY <1>5, <2>1, <2>4 DEF remove_at_position
    <3>2. s.ok = FALSE
      BY <3>1 DEF Stay, Here
    <3>3. edLine = 1
      BY <1>4, <2>4
    <3> QED
      BY <1>8, <2>4, <3>2, <3>3, PlainNothing
  <2>5. edCol > 0 \/ edCol = 0
    BY <1>3
  <2> QED
    BY <2>2, <2>3, <2>4, <2>5
<1>9. CASE c # LF /\ c # Backspace
  <2>1. c \in Char
    BY <1>9 DEF Char
  <2>2. Plain(c) = Spliced(edText, edLine - 1,
                           <<IF edInsert /\ ~Ending(t) THEN [t EXCEPT ![edCol + 1] = c]
                             ELSE With(t, edCol, c)>>, edLine + 1)
    BY <1>1, <1>3, <1>4, <1>9, <2>1, PlainTyped
  <2>3. edInsert => (WritesOver(Here, c) <=> ~Ending(t))
    BY <1>1, <1>9, WritesOverWhen
  <2>4. append_at_position(Here, c) = Insert(Here, c)
    BY <1>9 DEF append_at_position
  <2>5. CASE edInsert /\ ~Ending(t)
    <3>1. s = [Here EXCEPT !.lines[Here.line][Here.region].buffer[Offset(Here)] = c]
      BY <2>3, <2>5 DEF Changed, insert_at_position
    <3>2. edCol < Len(edText[edLine])
      BY <1>1, <1>3, <2>5 DEF Ending
    <3>3. /\ LinesHold(s.lines, Spliced(edText, edLine - 1,
                                        <<[edText[edLine] EXCEPT ![edCol + 1] = c]>>, edLine + 1))
          /\ Len(s.lines) = Len(edLines) /\ s.line = edLine /\ s.ok = TRUE /\ IsState(s)
      BY <1>9, <2>1, <3>1, <3>2, OverStep
    <3>4. Plain(c) = Spliced(edText, edLine - 1,
                             <<[edText[edLine] EXCEPT ![edCol + 1] = c]>>, edLine + 1)
      BY <1>1, <2>2, <2>5
    <3>5. InLine(s)
      BY <1>4, <3>3 DEF InLine
    <3> QED
      BY <3>3, <3>4, <3>5
  <2>6. CASE ~(edInsert /\ ~Ending(t))
    <3>1. s = Insert(Here, c)
      BY <2>3, <2>4, <2>6 DEF Changed, insert_at_position
    <3>2. /\ LinesHold(s.lines, Spliced(edText, edLine - 1, <<With(edText[edLine], edCol, c)>>, edLine + 1))
          /\ Len(s.lines) = Len(edLines) /\ s.line = edLine /\ s.ok = TRUE /\ IsState(s)
      BY <1>9, <2>1, <3>1, InsertStep
    <3>3. Plain(c) = Spliced(edText, edLine - 1, <<With(edText[edLine], edCol, c)>>, edLine + 1)
      BY <1>1, <2>2, <2>6
    <3>4. InLine(s)
      BY <1>4, <3>2 DEF InLine
    <3> QED
      BY <3>2, <3>3, <3>4
  <2> QED
    BY <2>5, <2>6
<1> QED
  BY <1>7, <1>8, <1>9
-----------------------------------------------------------------------------
(***************************************************************************)
(* The cursor moves: the lines stay, and it stays in one of them           *)
(***************************************************************************)
Follows(s, from) == s.lines = from.lines /\ s.line \in 1 .. Len(from.lines)

\* Cursor left keeps the lines and stays among them.
LEMMA LeftFollows ==
    ASSUME NEW s, IsState(s), Len(s.lines) \in Nat, InLine(s) \/ LineGone(s)
    PROVE  Follows(advance_cursor_left(s), s)
<1>1. PICK ls, l, r, c, ok : s = [lines |-> ls, line |-> l, region |-> r, col |-> c, ok |-> ok]
  BY DEF IsState
<1>2. s.lines = ls /\ s.line = l /\ s.col = c
  BY <1>1
<1>3. CASE c > 0
  <2>1. ~LineGone(s)
    BY <1>2, <1>3 DEF LineGone
  <2>2. l \in 1 .. Len(ls)
    BY <1>2, <2>1 DEF InLine
  <2> QED
    BY <1>1, <1>2, <1>3, <2>2 DEF advance_cursor_left, Follows
<1>4. CASE ~(c > 0) /\ l = 1
  <2>1. l \in 1 .. Len(ls)
    BY <1>2, <1>4 DEF InLine, LineGone
  <2> QED
    BY <1>1, <1>2, <1>4, <2>1 DEF advance_cursor_left, Stay, Follows
<1>5. CASE ~(c > 0) /\ l # 1
  <2>1. l - 1 \in 1 .. Len(ls)
    BY <1>2, <1>5 DEF InLine, LineGone
  <2> QED
    BY <1>1, <1>2, <1>5, <2>1 DEF advance_cursor_left, Follows
<1> QED
  BY <1>3, <1>4, <1>5

\* Cursor right keeps the lines and stays among them.
LEMMA RightFollows ==
    ASSUME NEW s, IsState(s), Len(s.lines) \in Nat, InLine(s)
    PROVE  Follows(advance_cursor_right(s), s)
<1>1. PICK ls, l, r, c, ok : s = [lines |-> ls, line |-> l, region |-> r, col |-> c, ok |-> ok]
  BY DEF IsState
<1>2. s.lines = ls /\ s.line = l /\ s.col = c /\ l \in 1 .. Len(ls)
  BY <1>1 DEF InLine
<1>3. CASE AtEnd(s) /\ l = Len(ls)
  BY <1>1, <1>2, <1>3 DEF advance_cursor_right, Stay, Follows
<1>4. CASE AtEnd(s) /\ l # Len(ls)
  <2>1. l + 1 \in 1 .. Len(ls)
    BY <1>2, <1>4
  <2> QED
    BY <1>1, <1>2, <1>4, <2>1 DEF advance_cursor_right, Follows
<1>5. CASE ~AtEnd(s)
  BY <1>1, <1>2, <1>5 DEF advance_cursor_right, Follows
<1> QED
  BY <1>3, <1>4, <1>5

\* A move to another line keeps the lines.
LEMMA ToLineFollows ==
    ASSUME NEW s, IsState(s), NEW l \in 1 .. Len(s.lines)
    PROVE  Follows(ToLine(s, l), s)
BY DEF ToLine, IsState, Follows

\* Cursor up and down keep the lines and stay among them.
LEMMA UpDownFollow ==
    ASSUME NEW s, IsState(s), Len(s.lines) \in Nat, InLine(s)
    PROVE  Follows(advance_cursor_up(s), s) /\ Follows(advance_cursor_down(s), s)
<1>1. Follows(Stay(s), s)
  BY DEF Stay, IsState, InLine, Follows
<1>2. ASSUME s.line # 1 PROVE Follows(ToLine(s, s.line - 1), s)
  <2>1. s.line - 1 \in 1 .. Len(s.lines)
    BY <1>2 DEF InLine
  <2> QED
    BY <2>1, ToLineFollows
<1>3. ASSUME s.line # Len(s.lines) PROVE Follows(ToLine(s, s.line + 1), s)
  <2>1. s.line + 1 \in 1 .. Len(s.lines)
    BY <1>3 DEF InLine
  <2> QED
    BY <2>1, ToLineFollows
<1> QED
  BY <1>1, <1>2, <1>3 DEF advance_cursor_up, advance_cursor_down
-----------------------------------------------------------------------------
(***************************************************************************)
(* The invariant                                                           *)
(***************************************************************************)
\* What load_file reads is the text.
LEMMA EdInit_EdInv == EdInit => EdInv
<1> SUFFICES ASSUME EdInit PROVE EdInv
  OBVIOUS
<1>1. /\ edText \in Seq(Seq(Char)) /\ edText # <<>>
      /\ \A l \in 1 .. Len(edText) : \A k \in 1 .. Len(edText[l]) - 1 : edText[l][k] # LF
  BY EditorAssumption DEF EdInit
<1>2. edLines = [l \in DOMAIN edText |-> PutChars(<<NewRegion>>, edText[l])]
  BY DEF EdInit, load_file
<1>3. PICK n \in Nat \ {0} : n = Len(edText) /\ DOMAIN edText = 1 .. n
  BY <1>1
<1>4. ASSUME NEW l \in 1 .. n
      PROVE  /\ edLines[l] \in Seq(Region) /\ IsLine(edLines[l])
             /\ FlatLine(edLines[l]) = edText[l] /\ IsText(edText[l])
  <2>1. edText[l] \in Seq(Char) /\ edLines[l] = PutChars(<<NewRegion>>, edText[l])
    BY <1>1, <1>2, <1>3
  <2>2. IsLine(edLines[l]) /\ FlatLine(edLines[l]) = edText[l]
    BY <2>1, LoadHolds
  <2> QED
    BY <1>1, <1>3, <2>1, <2>2 DEF IsLine, IsText
<1>5. edLines \in Seq(Seq(Region)) /\ Len(edLines) = n
  <2>1. edLines = [l \in 1 .. n |-> edLines[l]]
    BY <1>2, <1>3
  <2> QED
    BY <1>3, <1>4, <2>1
<1>6. LinesHold(edLines, edText)
  BY <1>1, <1>3, <1>4, <1>5 DEF LinesHold
<1>7. edLine = 1 /\ edRegion = 1 /\ edCol = 0 /\ edInsert = FALSE /\ edSaved = <<>> /\ edAstray = FALSE /\ edKeys = 0
  BY DEF EdInit
<1>8. ~Misplaced(Here)
  <2>1. PICK l, t : l = edLines[1] /\ t = edText[1]
    OBVIOUS
  <2>2. 1 \in 1 .. n /\ IsLine(l) /\ FlatLine(l) = t /\ t \in Seq(Char)
    BY <1>1, <1>3, <1>4, <2>1
  <2>3. 0 \in 0 .. Len(t) /\ 1 \in DOMAIN l
    BY <2>2, LineFacts DEF IsLine
  <2>4. 1 = (0 \div RegionSize) + 1
    <3>1. PICK m \in Nat \ {0} : m = RegionSize
      BY EditorAssumption
    <3>2. 0 \in 0 .. m - 1 /\ m * 0 + 0 = 0
      BY <3>1
    <3>3. 0 \div m = 0
      BY <3>2, Division
    <3> QED
      BY <3>1, <3>3
  <2>5. /\ Here.line = 1 /\ Here.lines = edLines /\ Here.col = 0 /\ Here.region = 1
    BY <1>7 DEF Here
  <2> QED
    BY <2>1, <2>2, <2>3, <2>4, <2>5 DEF Misplaced
<1>9. edLine \in 1 .. Len(edLines)
  BY <1>3, <1>5, <1>7
<1>10. edInsert \in BOOLEAN /\ edAstray \in BOOLEAN /\ edKeys \in 0 .. MaxKeys
  <2>1. PICK m \in Nat : m = MaxKeys
    BY EditorAssumption
  <2>2. 0 \in 0 .. m
    BY <2>1
  <2> QED
    BY <1>7, <2>1, <2>2
<1>11. edSaved \in Seq(Char) /\ edAstray = FALSE
  BY <1>7
<1> QED
  BY <1>6, <1>7, <1>8, <1>9, <1>10, <1>11 DEF EdInv

\* A key that leads to s with the text it stands for keeps the invariant.
LEMMA KeyKeeps ==
    ASSUME EdInv, Key, NEW s, LinesHold(s.lines, edText'), s.line \in 1 .. Len(s.lines), BecomesEditor(s),
           UNCHANGED <<edInsert, edSaved>>
    PROVE  EdInv'
<1>1. edLines' = s.lines /\ edLine' = s.line /\ edRegion' = s.region /\ edCol' = s.col /\ edAstray' = Misplaced(s)
  BY DEF BecomesEditor
<1>2. edKeys' \in 0 .. MaxKeys /\ edInsert' \in BOOLEAN /\ edSaved' = <<>>
  <2>1. edKeys \in 0 .. MaxKeys /\ edInsert \in BOOLEAN
    BY DEF EdInv
  <2>2. edKeys' = edKeys + 1 /\ edKeys < MaxKeys /\ edSaved = <<>>
    BY DEF Key
  <2>3. edKeys' \in 0 .. MaxKeys
    BY <2>1, <2>2, EditorAssumption
  <2> QED
    BY <2>1, <2>2, <2>3
<1>3. edAstray' \in BOOLEAN
  BY <1>1 DEF Misplaced
<1>4. Misplaced(Here)' <=> Misplaced(s)
  <2>1. /\ Here'.lines = s.lines /\ Here'.line = s.line /\ Here'.region = s.region /\ Here'.col = s.col
    BY <1>1 DEF Here
  <2> QED
    BY <2>1 DEF Misplaced
<1>5. LinesHold(edLines', edText') /\ edLine' \in 1 .. Len(edLines')
  BY <1>1
<1> QED
  BY <1>1, <1>2, <1>3, <1>4, <1>5 DEF EdInv

\* The same when the lines do not change.
LEMMA MoveKeeps ==
    ASSUME EdInv, Key, NEW s, Follows(s, Here), BecomesEditor(s), UNCHANGED <<edInsert, edSaved, edText>>
    PROVE  EdInv'
<1>1. s.lines = edLines /\ s.line \in 1 .. Len(s.lines)
  BY DEF Follows, Here
<1>2. LinesHold(s.lines, edText')
  BY <1>1 DEF EdInv
<1> QED
  BY <1>1, <1>2, KeyKeeps

\* Every key and every command of the editor preserves the invariant.
LEMMA EdInv_EdNext == EdInv /\ [EdNext]_edVars => EdInv'
<1> SUFFICES ASSUME EdInv, [EdNext]_edVars PROVE EdInv'
  OBVIOUS
<1>1. /\ LinesHold(edLines, edText) /\ edLine \in 1 .. Len(edLines)
      /\ edLines \in Seq(Seq(Region)) /\ Len(edLines) \in Nat
  BY DEF EdInv, LinesHold
<1>2. IsState(Here) /\ InLine(Here) /\ Len(Here.lines) \in Nat
  BY <1>1 DEF IsState, InLine, Here
<1>3. CASE Arrow(advance_cursor_left(Here))
  <2>1. Follows(advance_cursor_left(Here), Here)
    BY <1>2, LeftFollows
  <2> QED
    BY <1>3, <2>1, MoveKeeps DEF Arrow
<1>4. CASE Arrow(advance_cursor_right(Here))
  <2>1. Follows(advance_cursor_right(Here), Here)
    BY <1>2, RightFollows
  <2> QED
    BY <1>4, <2>1, MoveKeeps DEF Arrow
<1>5. CASE Arrow(advance_cursor_up(Here))
  <2>1. Follows(advance_cursor_up(Here), Here)
    BY <1>2, UpDownFollow
  <2> QED
    BY <1>5, <2>1, MoveKeeps DEF Arrow
<1>6. CASE Arrow(advance_cursor_down(Here))
  <2>1. Follows(advance_cursor_down(Here), Here)
    BY <1>2, UpDownFollow
  <2> QED
    BY <1>6, <2>1, MoveKeeps DEF Arrow
<1>7. ASSUME NEW c \in Typed \cup {LF, Backspace}, Type(c)
      PROVE  EdInv'
  <2>1. PICK ch : ch = Changed(c)
    OBVIOUS
  <2>2. PICK s : s = IF ~ch.ok THEN Here
                     ELSE IF c = Backspace THEN advance_cursor_left(ch) ELSE advance_cursor_right(ch)
    OBVIOUS
  <2>3. /\ Key /\ UNCHANGED <<edInsert, edSaved>>
        /\ IF Spoils(Here, c)
           THEN edAstray' = TRUE /\ UNCHANGED <<edLines, edLine, edRegion, edCol, edText>>
           ELSE BecomesEditor(s) /\ edText' = Plain(c)
    BY <1>7, <2>1, <2>2 DEF Type, Changed
  <2>4. ~edAstray
    BY <2>3 DEF Key
  <2>5. CASE Spoils(Here, c)
    <3>1. /\ edAstray' = TRUE /\ edLines' = edLines /\ edLine' = edLine /\ edText' = edText
          /\ edInsert' = edInsert /\ edSaved' = edSaved
      BY <2>3, <2>5
    <3>2. edKeys' \in 0 .. MaxKeys
      <4>1. edKeys \in 0 .. MaxKeys /\ edKeys' = edKeys + 1 /\ edKeys < MaxKeys
        BY <2>3 DEF EdInv, Key
      <4> QED
        BY <4>1, EditorAssumption
    <3> QED
      BY <1>1, <3>1, <3>2 DEF EdInv
  <2>6. CASE ~Spoils(Here, c)
    <3>1. BecomesEditor(s) /\ edText' = Plain(c)
      BY <2>3, <2>6
    <3>2. \/ ch.ok = FALSE /\ Plain(c) = edText
          \/ /\ ch.ok = TRUE /\ IsState(ch) /\ LinesHold(ch.lines, Plain(c))
             /\ InLine(ch) \/ (c = Backspace /\ LineGone(ch))
      BY <2>1, <2>4, <2>6, KeyHolds
    <3>3. CASE ch.ok = FALSE /\ Plain(c) = edText
      <4>1. s = Here /\ edText' = edText
        BY <2>2, <3>1, <3>3
      <4>2. Follows(s, Here)
        BY <1>1, <4>1 DEF Follows, Here
      <4> QED
        BY <2>3, <3>1, <4>1, <4>2, MoveKeeps
    <3>4. CASE /\ ch.ok = TRUE /\ IsState(ch) /\ LinesHold(ch.lines, Plain(c))
               /\ InLine(ch) \/ (c = Backspace /\ LineGone(ch))
      <4>1. Len(ch.lines) \in Nat
        BY <3>4 DEF LinesHold
      <4>2. Follows(s, ch)
        <5>1. CASE c = Backspace
          <6>1. s = advance_cursor_left(ch)
            BY <2>2, <3>4, <5>1
          <6> QED
            BY <3>4, <4>1, <6>1, LeftFollows
        <5>2. CASE c # Backspace
          <6>1. s = advance_cursor_right(ch)
            BY <2>2, <3>4, <5>2
          <6> QED
            BY <3>4, <4>1, <5>2, <6>1, RightFollows
        <5> QED
          BY <5>1, <5>2
      <4>3. LinesHold(s.lines, edText') /\ s.line \in 1 .. Len(s.lines)
        BY <3>1, <3>4, <4>2 DEF Follows
      <4> QED
        BY <2>3, <3>1, <4>3, KeyKeeps
    <3> QED
      BY <3>2, <3>3, <3>4
  <2> QED
    BY <2>5, <2>6
<1>8. CASE ToggleInsert
  <2>1. /\ edLines' = edLines /\ edLine' = edLine /\ edRegion' = edRegion /\ edCol' = edCol
        /\ edSaved' = edSaved /\ edAstray' = edAstray /\ edText' = edText /\ edInsert' = ~edInsert
    BY <1>8 DEF ToggleInsert
  <2>2. edKeys' \in 0 .. MaxKeys
    <3>1. edKeys \in 0 .. MaxKeys /\ edKeys' = edKeys + 1 /\ edKeys < MaxKeys
      BY <1>8 DEF EdInv, ToggleInsert, Key
    <3> QED
      BY <3>1, EditorAssumption
  <2>3. Here' = Here
    BY <2>1 DEF Here
  <2>4. Misplaced(Here)' <=> Misplaced(Here)
    BY <2>3 DEF Misplaced
  <2> QED
    BY <2>1, <2>2, <2>4 DEF EdInv
<1>9. CASE Escape
  <2>1. /\ edLines' = edLines /\ edLine' = edLine /\ edRegion' = edRegion /\ edCol' = edCol
        /\ edSaved' = write_file(edLines) /\ edAstray' = edAstray /\ edText' = edText /\ edInsert' = edInsert
    BY <1>9 DEF Escape
  <2>2. edKeys' \in 0 .. MaxKeys
    <3>1. edKeys \in 0 .. MaxKeys /\ edKeys' = edKeys + 1 /\ edKeys < MaxKeys
      BY <1>9 DEF EdInv, Escape, Key
    <3> QED
      BY <3>1, EditorAssumption
  <2>3. Here' = Here
    BY <2>1 DEF Here
  <2>4. Misplaced(Here)' <=> Misplaced(Here)
    BY <2>3 DEF Misplaced
  <2>5. write_file(edLines) = FlattenSeq(edText)
    <3>1. /\ edText \in Seq(Seq(Char)) /\ Len(edLines) = Len(edText)
          /\ \A l \in 1 .. Len(edLines) : FlatLine(edLines[l]) = edText[l]
      BY <1>1 DEF LinesHold
    <3> QED
      BY <3>1, WriteAll
  <2> QED
    BY <2>1, <2>2, <2>4, <2>5 DEF EdInv
<1>10. CASE UNCHANGED edVars
  <2>1. Here' = Here
    BY <1>10 DEF Here, edVars
  <2>2. Misplaced(Here)' <=> Misplaced(Here)
    BY <2>1 DEF Misplaced
  <2> QED
    BY <1>10, <2>2 DEF EdInv, edVars
<1> QED
  BY <1>3, <1>4, <1>5, <1>6, <1>7, <1>8, <1>9, <1>10 DEF EdNext

\* The chains of regions hold the text of the keys, and the cursor is in one
\* of them unless the editor has gone astray.
THEOREM EditorInvariant == EdSpec => []EdInv
<1>1. EdInit => EdInv
  BY EdInit_EdInv
<1>2. EdInv /\ [EdNext]_edVars => EdInv'
  BY EdInv_EdNext
<1> QED
  BY <1>1, <1>2, PTL DEF EdSpec

\* What append_at_position, insert_at_position and remove_at_position make of
\* the regions reads as what the same keys make of plain lines, all regions
\* but a line's last are full, and write_file writes that text.
THEOREM TextStaysKept == EdSpec => []TextKept
<1>1. EdInv => TextKept
  <2> SUFFICES ASSUME EdInv PROVE TextKept
    OBVIOUS
  <2>1. /\ edLines \in Seq(Seq(Region)) /\ edText \in Seq(Seq(Char)) /\ Len(edLines) = Len(edText)
        /\ \A l \in 1 .. Len(edLines) : IsLine(edLines[l]) /\ FlatLine(edLines[l]) = edText[l]
    BY DEF EdInv, LinesHold
  <2>2. DOMAIN edLines = 1 .. Len(edLines) /\ edText = [l \in 1 .. Len(edLines) |-> edText[l]]
    BY <2>1
  <2>3. Flat(edLines) = edText
    BY <2>1, <2>2 DEF Flat
  <2>4. \A l \in DOMAIN edLines : \A r \in 1 .. Len(edLines[l]) - 1 : edLines[l][r].pos = RegionSize
    BY <2>1, <2>2 DEF IsLine
  <2>5. edSaved # <<>> => edSaved = FlattenSeq(edText)
    BY DEF EdInv
  <2> QED
    BY <2>3, <2>4, <2>5 DEF TextKept
<1> QED
  BY <1>1, EditorInvariant, PTL
=============================================================================
