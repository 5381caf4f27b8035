------------------------ MODULE AddressSpacesProofs ------------------------
(***************************************************************************)
(* That every frame in use has one owner and that programs have the pages  *)
(* they were promised, for any memory, directory layout and programs.      *)
(*                                                                         *)
(* What directories own is a function from spots to frames (Holding); the  *)
(* memory manager's state agrees with it (Owns) whatever the spots mean.   *)
(* The operators of AddressSpaces preserve that agreement (Sound), and the *)
(* invariant adds where the pages of a program may lie.                    *)
(***************************************************************************)
EXTENDS AddressSpaces, FiniteSetTheorems, WellFoundedInduction, TLAPS

Spot == Frame \X {"dir", "table", "page"} \X (Tables \cup Pages)

\* The frame at spot x when the pages in H, pairs of a directory and a page,
\* own theirs; 0 for none.
At(s, H, x) ==
    IF x[1] \notin DOMAIN s.dirs THEN 0
    ELSE IF x[2] = "dir" THEN (IF x[3] = 0 THEN x[1] ELSE 0)
    ELSE IF x[2] = "table" THEN (IF x[3] \in Tables \ {0} THEN s.dirs[x[1]].tables[x[3]] ELSE 0)
    ELSE IF x[3] \in Pages /\ <<x[1], x[3]>> \in H THEN s.dirs[x[1]].pages[x[3]] ELSE 0

Holding(s, H) == [x \in Spot |-> At(s, H, x)]

\* Memory m, with the frames of B never given away, agrees with g.
Owns(m, B, g) ==
    /\ m.map \subseteq Frame /\ m.used \in Int
    /\ 0 \in B /\ B \subseteq m.map
    /\ g \in [Spot -> Frame]
    /\ \A x, y \in Spot : g[x] # 0 /\ g[x] = g[y] => x = y
    /\ \A x \in Spot : g[x] # 0 => g[x] \in m.map \ B
    /\ \A f \in m.map \ B : \E x \in Spot : g[x] = f
    /\ m.used - Cardinality(m.map) = BootMap.used - Cardinality(BootMap.map)

DirsOK(s) ==
    /\ DOMAIN s.dirs \subseteq Frame \ {0}
    /\ s.dirs \in [DOMAIN s.dirs -> [tables : [Tables -> Frame], pages : [Pages -> Frame]]]

Sound(s, kt, H) ==
    /\ DirsOK(s)
    /\ \A d \in DOMAIN s.dirs : s.dirs[d].tables[0] = kt
    /\ kt # 0
    /\ Owns(s.mem, BootMap.map \cup {kt}, Holding(s, H))

\* All pages, but of windows only the server's.
Steady(w) == {h \in Frame \X Pages : h[2] \in WindowArea => h[1] = w}

ProcPages(q) ==
    WindowArea \cup {t.kernel : t \in q.threads}
    \cup (IF q.state = "active" THEN ImagePages(q.image) \cup {t.user : t \in q.threads} ELSE {})

IsProc(q) == q = [state |-> q.state, pid |-> q.pid, dir |-> q.dir, image |-> q.image,
                  brk |-> q.brk, threads |-> q.threads]

ProcOK(q, dirs, w, sh) ==
    /\ IsProc(q) /\ q.state \in {"none", "active", "terminated"}
    /\ q.state # "none" =>
        /\ q.dir \in DOMAIN dirs /\ q.dir # w /\ q.dir # sh
        /\ q.image \in Images
        /\ q.threads \subseteq [user : UserStackArea, kernel : KernelStackArea]
        /\ q.brk \in Nat /\ q.image.base + q.image.size <= q.brk
        /\ q.brk <= q.image.base + q.image.size + SbrkLim
        /\ \A v \in Pages : dirs[q.dir].pages[v] # 0 => v \in ProcPages(q)
    /\ q.state = "active" =>
        /\ \A t \in q.threads : dirs[q.dir].pages[t.kernel] # 0
        /\ \A v \in ProgramPages(q) : dirs[q.dir].pages[v] # 0

KernelOK(k, dirs) ==
    /\ k.winsys \in DOMAIN dirs /\ k.shell \in DOMAIN dirs /\ k.winsys # k.shell
    /\ k.stack \in OwnKernelStackArea /\ dirs[k.shell].pages[k.stack] # 0

WinsOK(wins) == \E S : wins \in Seq(S) /\ \A x \in S : x.page \in Pages

KernelTable == spDirs[Winsys].tables[0]

SpaceInv ==
    /\ Sound(Space, KernelTable, Steady(Winsys))
    /\ KernelOK(spKernel, spDirs)
    /\ spCur \in DOMAIN spDirs
    /\ spProcs = [p \in Slot |-> spProcs[p]]
    /\ \A p \in Slot : ProcOK(spProcs[p], spDirs, Winsys, Shell)
    /\ \A p, q \in Slot : /\ p # q /\ spProcs[p].state # "none" /\ spProcs[q].state # "none"
                          => spProcs[p].dir # spProcs[q].dir
    /\ WinsOK(spWins)
-----------------------------------------------------------------------------
(***************************************************************************)
(* Frames and spots                                                        *)
(***************************************************************************)
\* A non-empty set of natural numbers has a least element.
LEMMA LeastFrame ==
    ASSUME NEW S, S \subseteq Nat, S # {}
    PROVE  \E i \in S : \A j \in S : i <= j
<1>1. PICK i \in S : \A j \in S : <<j, i>> \notin OpToRel(<, Nat)
  BY WFMin, NatLessThanWellFounded, Zenon
<1>2. ASSUME NEW j \in S, j < i
      PROVE  FALSE
  BY <1>1, <1>2, Zenon DEF OpToRel
<1> QED
  BY <1>2

\* A set that holds an interval's first number and with each its successor
\* holds the interval: the loops over pages and sections.
LEMMA IntervalInduction ==
    ASSUME NEW a \in Int, NEW b \in Int, NEW S, a \in S,
           \A v \in a .. b - 1 : v \in S => v + 1 \in S
    PROVE  \A v \in a .. b : v \in S
<1> DEFINE Bad == {n \in Nat : a + n \in a .. b /\ a + n \notin S}
<1>1. SUFFICES ASSUME Bad # {} PROVE FALSE
  <2>1. SUFFICES ASSUME NEW v \in a .. b, v \notin S PROVE FALSE
    OBVIOUS
  <2>2. v - a \in Bad
    BY <2>1
  <2> QED
    BY <1>1, <2>2
<1>2. PICK n \in Bad : \A k \in Bad : n <= k
  <2>1. Bad \subseteq Nat
    OBVIOUS
  <2> HIDE DEF Bad
  <2> QED
    BY <1>1, <2>1, LeastFrame
<1>3. n # 0
  BY <1>2
<1>4. n - 1 \in Nat /\ n - 1 \notin Bad
  BY <1>2, <1>3
<1>5. a + (n - 1) \in a .. b - 1 /\ a + (n - 1) \in S
  BY <1>2, <1>4
<1>6. a + n \in S
  BY <1>5
<1> QED
  BY <1>2, <1>6

\* Frames are a finite set.
LEMMA FrameFacts ==
    /\ IsFiniteSet(Frame) /\ 0 \in Frame /\ Frame \subseteq Nat
    /\ \A S : S \subseteq Frame => IsFiniteSet(S) /\ Cardinality(S) \in Nat
<1>1. IsFiniteSet(Frame)
  BY PhysMemAssumption, FS_Interval DEF Frame
<1>2. 0 \in Frame /\ Frame \subseteq Nat
  BY PhysMemAssumption DEF Frame
<1> QED
  BY <1>1, <1>2, FS_Subset, FS_CardinalityType

\* pmmngr_alloc_block takes a frame that is free, if one is left.
LEMMA AllocBlock ==
    ASSUME NEW m, m.map \subseteq Frame, m.used \in Int, 0 \in m.map, NEW a,
           a = pmmngr_alloc_block(m)
    PROVE  \/ /\ Left(m) /\ a.frame \in Frame \ m.map /\ a.frame # 0
              /\ a.mem = [map |-> m.map \cup {a.frame}, used |-> m.used + 1]
           \/ ~Left(m) /\ a.frame = 0 /\ a.mem = m
<1>1. CASE ~Left(m)
  BY <1>1, PhysMemAssumption DEF pmmngr_alloc_block, Taken, mmap_first_free, Left
<1>2. CASE Left(m)
  <2>1. Frame \ m.map # {} /\ Frame \ m.map \subseteq Nat
    BY <1>2, FrameFacts DEF Left
  <2>2. \E f \in Frame \ m.map : \A g \in Frame \ m.map : f <= g
    BY <2>1, LeastFrame
  <2>3. mmap_first_free(m) \in Frame \ m.map
    BY <1>2, <2>2 DEF mmap_first_free, Left
  <2>4. a = Taken(m, mmap_first_free(m))
    BY <1>2, PhysMemAssumption DEF pmmngr_alloc_block, Left
  <2>5. mmap_first_free(m) # -1
    BY <2>1, <2>3
  <2> QED
    BY <1>2, <2>3, <2>4, <2>5 DEF Taken
<1> QED
  BY <1>1, <1>2

\* Any directory layout has table 0.
LEMMA PageFacts ==
    /\ Pages \subseteq Nat /\ 0 \in Pages /\ 0 \in Tables
    /\ \A v \in Pages : TableOf(v) \in Tables
    /\ UserStackArea \subseteq Pages /\ KernelStackArea \subseteq Pages
    /\ WindowArea \subseteq Pages /\ OwnKernelStackArea \subseteq Pages
    /\ IsFiniteSet(Pages) /\ IsFiniteSet(Tables)
<1>1. 0 \div TablePages = 0
  BY LayoutAssumption
<1>2. 0 \in Pages
  BY LayoutAssumption DEF Pages
<1>3. 0 \in Tables
  BY <1>1, <1>2 DEF Tables, TableOf
<1>4. IsFiniteSet(Pages)
  BY FS_Interval, LayoutAssumption DEF Pages
<1>5. IsFiniteSet(Tables)
  <2> DEFINE f == [v \in Pages |-> TableOf(v)]
  <2>1. f \in Surjection(Pages, Tables)
    BY DEF Tables, Surjection
  <2> QED
    BY <1>4, <2>1, FS_Surjection
<1> QED
  BY <1>2, <1>3, <1>4, <1>5, LayoutAssumption DEF Pages, Tables, UserStackArea, KernelStackArea,
     WindowArea, OwnKernelStackArea

\* An injection's image has as many elements.
LEMMA ImageSize ==
    ASSUME NEW S, IsFiniteSet(S), NEW f, \A x, y \in S : f[x] = f[y] => x = y
    PROVE  Cardinality({f[x] : x \in S}) = Cardinality(S)
<1> DEFINE h == [x \in S |-> f[x]]
           T == {f[x] : x \in S}
<1>1. h \in Bijection(S, T)
  BY DEF Bijection, Injection, Surjection, IsInjective
<1>2. ExistsBijection(S, T)
  BY <1>1 DEF ExistsBijection
<1> QED
  BY <1>2, FS_Bijection
-----------------------------------------------------------------------------
(***************************************************************************)
(* Ownership                                                               *)
(***************************************************************************)
\* A free frame is given to an empty spot.
LEMMA Gain ==
    ASSUME NEW m, NEW B, NEW g, Owns(m, B, g), NEW x \in Spot, g[x] = 0,
           NEW f \in Frame \ m.map
    PROVE  Owns([map |-> m.map \cup {f}, used |-> m.used + 1], B, [g EXCEPT ![x] = f])
<1> DEFINE h == [g EXCEPT ![x] = f]
           map == m.map \cup {f}
           n == [map |-> map, used |-> m.used + 1]
<1>1. f # 0 /\ f \notin B
  BY DEF Owns
<1>2. h \in [Spot -> Frame] /\ h[x] = f /\ \A y \in Spot : y # x => h[y] = g[y]
  BY DEF Owns
<1>3. \A y, z \in Spot : h[y] # 0 /\ h[y] = h[z] => y = z
  BY <1>1, <1>2 DEF Owns
<1>4. \A y \in Spot : h[y] # 0 => h[y] \in map \ B
  BY <1>1, <1>2 DEF Owns
<1>5. \A k \in map \ B : \E y \in Spot : h[y] = k
  <2> SUFFICES ASSUME NEW k \in map \ B PROVE \E y \in Spot : h[y] = k
    OBVIOUS
  <2>1. CASE k = f
    BY <2>1, <1>2
  <2>2. CASE k # f
    <3>1. PICK y \in Spot : g[y] = k
      BY <2>2 DEF Owns
    <3>2. k # 0
      BY DEF Owns
    <3> QED
      BY <3>1, <3>2, <1>2
  <2> QED
    BY <2>1, <2>2
<1>6. Cardinality(map) = Cardinality(m.map) + 1 /\ Cardinality(m.map) \in Nat
  BY FrameFacts, FS_AddElement DEF Owns
<1>7. map \subseteq Frame /\ m.used + 1 \in Int /\ B \subseteq map /\ 0 \in B
  BY DEF Owns
<1>9. n.map = map /\ n.used = m.used + 1
  OBVIOUS
<1> HIDE DEF h, map, n
<1>11. n.map \subseteq Frame /\ n.used \in Int /\ 0 \in B /\ B \subseteq n.map
  BY <1>7, <1>9
<1>12. n.used - Cardinality(n.map) = BootMap.used - Cardinality(BootMap.map)
  BY <1>6, <1>9, PhysMemAssumption DEF Owns
<1>10. Owns(n, B, h)
  BY <1>2, <1>3, <1>4, <1>5, <1>9, <1>11, <1>12 DEF Owns
<1> QED
  BY <1>10 DEF n, h, map

\* The spots Z are emptied and their frames F given back.
LEMMA Lose ==
    ASSUME NEW m, NEW B, NEW g, Owns(m, B, g), NEW Z, Z \subseteq Spot, NEW F,
           \A f \in F : f # 0 /\ \E x \in Z : g[x] = f,
           \A x \in Z : g[x] # 0 => g[x] \in F
    PROVE  Owns([map |-> m.map \ F, used |-> m.used - Cardinality(F)], B,
                [x \in Spot |-> IF x \in Z THEN 0 ELSE g[x]])
<1> DEFINE h == [x \in Spot |-> IF x \in Z THEN 0 ELSE g[x]]
           map == m.map \ F
           n == [map |-> map, used |-> m.used - Cardinality(F)]
<1>1. F \subseteq m.map \ B
  BY DEF Owns
<1>2. h \in [Spot -> Frame]
  BY FrameFacts DEF Owns
<1>3. \A y, z \in Spot : h[y] # 0 /\ h[y] = h[z] => y = z
  BY DEF Owns
<1>4. \A y \in Spot : h[y] # 0 => h[y] \in map \ B
  <2> SUFFICES ASSUME NEW y \in Spot, h[y] # 0 PROVE h[y] \in map \ B
    OBVIOUS
  <2>1. y \notin Z /\ h[y] = g[y] /\ g[y] \in m.map \ B
    BY DEF Owns
  <2>2. g[y] \notin F
    BY <2>1 DEF Owns
  <2> QED
    BY <2>1, <2>2
<1>5. \A k \in map \ B : \E y \in Spot : h[y] = k
  <2> SUFFICES ASSUME NEW k \in map \ B PROVE \E y \in Spot : h[y] = k
    OBVIOUS
  <2>1. PICK y \in Spot : g[y] = k
    BY DEF Owns
  <2>2. k # 0
    BY DEF Owns
  <2> QED
    BY <2>1, <2>2
<1>6. Cardinality(map) = Cardinality(m.map) - Cardinality(F)
      /\ Cardinality(m.map) \in Nat /\ Cardinality(F) \in Nat
  <2>1. IsFiniteSet(m.map) /\ Cardinality(m.map) \in Nat
    BY FrameFacts DEF Owns
  <2>2. Cardinality(F) \in Nat /\ m.map \cap F = F
    BY <1>1, <2>1, FrameFacts DEF Owns
  <2> QED
    BY <2>1, <2>2, FS_Difference
<1>7. map \subseteq Frame /\ m.used - Cardinality(F) \in Int /\ B \subseteq map /\ 0 \in B
  BY <1>1, <1>6 DEF Owns
<1>8. m.used - Cardinality(F) - Cardinality(map) = m.used - Cardinality(m.map)
  BY <1>6 DEF Owns
<1>9. n.map = map /\ n.used = m.used - Cardinality(F)
  OBVIOUS
<1> HIDE DEF h, map, n
<1>10. Owns(n, B, h)
  BY <1>2, <1>3, <1>4, <1>5, <1>7, <1>8, <1>9 DEF Owns
<1> QED
  BY <1>10 DEF n, h, map

\* A frame moves to an empty spot.
LEMMA Move ==
    ASSUME NEW m, NEW B, NEW g, Owns(m, B, g), NEW x \in Spot, NEW y \in Spot, g[y] = 0,
           x # y
    PROVE  Owns(m, B, [z \in Spot |-> IF z = x THEN 0 ELSE IF z = y THEN g[x] ELSE g[z]])
<1> DEFINE h == [z \in Spot |-> IF z = x THEN 0 ELSE IF z = y THEN g[x] ELSE g[z]]
<1>1. h \in [Spot -> Frame]
  BY FrameFacts DEF Owns
<1>2. \A z, u \in Spot : h[z] # 0 /\ h[z] = h[u] => z = u
  BY DEF Owns
<1>3. \A z \in Spot : h[z] # 0 => h[z] \in m.map \ B
  BY DEF Owns
<1>4. \A k \in m.map \ B : \E z \in Spot : h[z] = k
  <2> SUFFICES ASSUME NEW k \in m.map \ B PROVE \E z \in Spot : h[z] = k
    OBVIOUS
  <2>1. PICK z \in Spot : g[z] = k
    BY DEF Owns
  <2>2. k # 0
    BY DEF Owns
  <2> QED
    BY <2>1, <2>2
<1> QED
  BY <1>1, <1>2, <1>3, <1>4 DEF Owns
-----------------------------------------------------------------------------
(***************************************************************************)
(* Changes of one directory                                                *)
(***************************************************************************)
Put(f, i, e) == [f EXCEPT ![i] = e]

Dir == [tables : [Tables -> Frame], pages : [Pages -> Frame]]

Changed(dirs, after, d, tables, pages) ==
    /\ DOMAIN after = DOMAIN dirs
    /\ after \in [DOMAIN dirs -> Dir]
    /\ after[d].tables = tables /\ after[d].pages = pages
    /\ \A e \in DOMAIN dirs : e # d => after[e] = dirs[e]

\* Setting a table changes that table of that directory only.
LEMMA TableSet ==
    ASSUME NEW s, DirsOK(s), NEW d \in DOMAIN s.dirs, NEW t \in Tables, NEW f \in Frame
    PROVE  Changed(s.dirs, [s.dirs EXCEPT ![d].tables[t] = f], d,
                   Put(s.dirs[d].tables, t, f), s.dirs[d].pages)
BY DEF DirsOK, Changed, Dir, Put

\* Setting a page changes that page of that directory only.
LEMMA PageSet ==
    ASSUME NEW s, DirsOK(s), NEW d \in DOMAIN s.dirs, NEW v \in Pages, NEW f \in Frame
    PROVE  Changed(s.dirs, [s.dirs EXCEPT ![d].pages[v] = f], d,
                   s.dirs[d].tables, Put(s.dirs[d].pages, v, f))
BY DEF DirsOK, Changed, Dir, Put

\* Setting all pages of a directory leaves its tables and the others.
LEMMA PagesSet ==
    ASSUME NEW s, DirsOK(s), NEW d \in DOMAIN s.dirs, NEW pages \in [Pages -> Frame]
    PROVE  Changed(s.dirs, [s.dirs EXCEPT ![d].pages = pages], d, s.dirs[d].tables, pages)
BY DEF DirsOK, Changed, Dir

\* A spot and its parts.
LEMMA SpotFacts ==
    /\ \A x \in Spot : /\ x = <<x[1], x[2], x[3]>> /\ x[1] \in Frame
                       /\ x[2] \in {"dir", "table", "page"} /\ x[3] \in Tables \cup Pages
    /\ \A d \in Frame : <<d, "dir", 0>> \in Spot
    /\ \A d \in Frame, t \in Tables : <<d, "table", t>> \in Spot
    /\ \A d \in Frame, v \in Pages : <<d, "page", v>> \in Spot
BY PageFacts DEF Spot

\* A table that is missing is given a frame.
LEMMA GiveTable ==
    ASSUME NEW s, NEW kt, NEW H, Sound(s, kt, H), NEW d \in DOMAIN s.dirs, NEW t \in Tables,
           s.dirs[d].tables[t] = 0, NEW f \in Frame \ s.mem.map, NEW z,
           z.mem = [map |-> s.mem.map \cup {f}, used |-> s.mem.used + 1],
           z.dirs = [s.dirs EXCEPT ![d].tables[t] = f]
    PROVE  Sound(z, kt, H)
<1> DEFINE x == <<d, "table", t>>
           g == Holding(s, H)
<1>1. d \in Frame /\ x \in Spot /\ t # 0 /\ DirsOK(s)
  BY SpotFacts DEF Sound, DirsOK
<1>2. Changed(s.dirs, z.dirs, d, Put(s.dirs[d].tables, t, f), s.dirs[d].pages)
  BY <1>1, TableSet
<1>3. Holding(z, H) = [g EXCEPT ![x] = f]
  <2>1. ASSUME NEW y \in Spot PROVE At(z, H, y) = IF y = x THEN f ELSE At(s, H, y)
    BY <1>1, <1>2, SpotFacts, PageFacts DEF At, DirsOK, Changed, Put
  <2> QED
    BY <2>1 DEF Holding
<1>4. g[x] = 0
  BY <1>1 DEF Holding, At
<1>5. Owns(s.mem, BootMap.map \cup {kt}, g)
  BY DEF Sound
<1> HIDE DEF g, x
<1>6. Owns(z.mem, BootMap.map \cup {kt}, [g EXCEPT ![x] = f])
  BY <1>1, <1>4, <1>5, Gain
<1>7. DirsOK(z) /\ \A e \in DOMAIN z.dirs : z.dirs[e].tables[0] = kt
  <2>1. DirsOK(z)
    BY <1>1, <1>2 DEF Changed, DirsOK, Dir, Put
  <2>2. \A e \in DOMAIN s.dirs : s.dirs[e].tables[0] = kt /\ s.dirs[e] \in Dir
    BY <1>1 DEF Sound, DirsOK, Dir
  <2>3. z.dirs[d].tables[0] = kt
    BY <1>1, <1>2, <2>2, PageFacts DEF Changed, Dir, Put
  <2> QED
    BY <1>2, <2>1, <2>2, <2>3 DEF Changed
<1> QED
  BY <1>3, <1>6, <1>7 DEF Sound

\* A page that is absent is given a frame.
LEMMA GivePage ==
    ASSUME NEW s, NEW kt, NEW H, Sound(s, kt, H), NEW d \in DOMAIN s.dirs, NEW v \in Pages,
           <<d, v>> \in H,
           s.dirs[d].pages[v] = 0, NEW f \in Frame \ s.mem.map, NEW z,
           z.mem = [map |-> s.mem.map \cup {f}, used |-> s.mem.used + 1],
           z.dirs = [s.dirs EXCEPT ![d].pages[v] = f]
    PROVE  Sound(z, kt, H)
<1> DEFINE x == <<d, "page", v>>
           g == Holding(s, H)
<1>1. d \in Frame /\ x \in Spot /\ DirsOK(s)
  BY SpotFacts DEF Sound, DirsOK
<1>2. Changed(s.dirs, z.dirs, d, s.dirs[d].tables, Put(s.dirs[d].pages, v, f))
  BY <1>1, PageSet
<1>3. Holding(z, H) = [g EXCEPT ![x] = f]
  <2>1. ASSUME NEW y \in Spot PROVE At(z, H, y) = IF y = x THEN f ELSE At(s, H, y)
    <3> DEFINE pages == Put(s.dirs[d].pages, v, f)
    <3>1. s.dirs[d] \in Dir /\ y = <<y[1], y[2], y[3]>> /\ y[2] \in {"dir", "table", "page"}
      BY <1>1, SpotFacts DEF DirsOK, Dir
    <3>2. CASE y[1] # d \/ y[2] = "dir"
      BY <1>1, <1>2, <3>1, <3>2 DEF At, Changed
    <3>3. CASE y[1] = d /\ y[2] = "table"
      <4>1. At(z, H, y) = IF y[3] \in Tables \ {0} THEN s.dirs[d].tables[y[3]] ELSE 0
        BY <1>1, <1>2, <3>3 DEF At, Changed
      <4>2. At(s, H, y) = IF y[3] \in Tables \ {0} THEN s.dirs[d].tables[y[3]] ELSE 0
        BY <3>3 DEF At
      <4>3. y # <<d, "page", v>>
        BY <3>1, <3>3
      <4> QED
        BY <4>1, <4>2, <4>3
    <3>4. CASE y[1] = d /\ y[2] = "page"
      <4>1. At(z, H, y) = IF y[3] \in Pages /\ <<d, y[3]>> \in H THEN pages[y[3]] ELSE 0
        <5>1. z.dirs[d].pages = pages /\ d \in DOMAIN z.dirs
          BY <1>2 DEF Changed
        <5> HIDE DEF pages
        <5> QED
          BY <5>1, <3>4 DEF At
      <4>2. At(s, H, y) = IF y[3] \in Pages /\ <<d, y[3]>> \in H THEN s.dirs[d].pages[y[3]] ELSE 0
        BY <3>4 DEF At
      <4>3. \A w \in Pages : pages[w] = IF w = v THEN f ELSE s.dirs[d].pages[w]
        BY <3>1 DEF Dir, Put
      <4> HIDE DEF pages
      <4> QED
        BY <3>1, <3>4, <4>1, <4>2, <4>3, PageFacts
    <3> QED
      BY <3>1, <3>2, <3>3, <3>4
  <2> QED
    BY <2>1 DEF Holding
<1>4. g[x] = 0
  BY <1>1 DEF Holding, At
<1>5. Owns(s.mem, BootMap.map \cup {kt}, g)
  BY DEF Sound
<1> HIDE DEF g, x
<1>6. Owns(z.mem, BootMap.map \cup {kt}, [g EXCEPT ![x] = f])
  BY <1>1, <1>4, <1>5, Gain
<1>7. DirsOK(z) /\ \A e \in DOMAIN z.dirs : z.dirs[e].tables[0] = kt
  <2>1. DirsOK(z)
    BY <1>1, <1>2 DEF Changed, DirsOK, Dir, Put
  <2>2. \A e \in DOMAIN s.dirs : s.dirs[e].tables[0] = kt /\ s.dirs[e] \in Dir
    BY <1>1 DEF Sound, DirsOK, Dir
  <2>3. z.dirs[d].tables[0] = kt
    BY <1>1, <1>2, <2>2, PageFacts DEF Changed, Dir, Put
  <2> QED
    BY <1>2, <2>1, <2>2, <2>3 DEF Changed
<1> QED
  BY <1>3, <1>6, <1>7 DEF Sound

\* A page that does not own its frame may have any.
LEMMA SetGuest ==
    ASSUME NEW s, NEW kt, NEW H, Sound(s, kt, H), NEW d \in DOMAIN s.dirs, NEW v \in Pages,
           <<d, v>> \notin H, NEW f \in Frame, NEW z,
           z.mem = s.mem, z.dirs = [s.dirs EXCEPT ![d].pages[v] = f]
    PROVE  Sound(z, kt, H)
<1>1. DirsOK(s)
  BY DEF Sound
<1>2. Changed(s.dirs, z.dirs, d, s.dirs[d].tables, Put(s.dirs[d].pages, v, f))
  BY <1>1, PageSet
<1>3. Holding(z, H) = Holding(s, H)
  <2>1. ASSUME NEW y \in Spot PROVE At(z, H, y) = At(s, H, y)
    <3> DEFINE pages == Put(s.dirs[d].pages, v, f)
    <3>1. s.dirs[d] \in Dir /\ y = <<y[1], y[2], y[3]>> /\ y[2] \in {"dir", "table", "page"}
      BY <1>1, SpotFacts DEF DirsOK, Dir
    <3>2. CASE y[1] # d \/ y[2] = "dir"
      BY <1>1, <1>2, <3>1, <3>2 DEF At, Changed
    <3>3. CASE y[1] = d /\ y[2] = "table"
      <4>1. At(z, H, y) = IF y[3] \in Tables \ {0} THEN s.dirs[d].tables[y[3]] ELSE 0
        BY <1>1, <1>2, <3>3 DEF At, Changed
      <4>2. At(s, H, y) = IF y[3] \in Tables \ {0} THEN s.dirs[d].tables[y[3]] ELSE 0
        BY <3>3 DEF At
      <4>3. y # <<d, "page", v>>
        BY <3>1, <3>3
      <4> QED
        BY <4>1, <4>2, <4>3
    <3>4. CASE y[1] = d /\ y[2] = "page"
      <4>1. At(z, H, y) = IF y[3] \in Pages /\ <<d, y[3]>> \in H THEN pages[y[3]] ELSE 0
        <5>1. z.dirs[d].pages = pages /\ d \in DOMAIN z.dirs
          BY <1>2 DEF Changed
        <5> HIDE DEF pages
        <5> QED
          BY <5>1, <3>4 DEF At
      <4>2. At(s, H, y) = IF y[3] \in Pages /\ <<d, y[3]>> \in H THEN s.dirs[d].pages[y[3]] ELSE 0
        BY <3>4 DEF At
      <4>3. \A w \in Pages : pages[w] = IF w = v THEN f ELSE s.dirs[d].pages[w]
        BY <3>1 DEF Dir, Put
      <4> HIDE DEF pages
      <4> QED
        BY <3>1, <3>4, <4>1, <4>2, <4>3, PageFacts
    <3> QED
      BY <3>1, <3>2, <3>3, <3>4
  <2> QED
    BY <2>1 DEF Holding
<1>4. DirsOK(z) /\ \A e \in DOMAIN z.dirs : z.dirs[e].tables[0] = kt
  <2>1. DirsOK(z)
    BY <1>1, <1>2 DEF Changed, DirsOK, Dir, Put
  <2>2. \A e \in DOMAIN s.dirs : s.dirs[e].tables[0] = kt /\ s.dirs[e] \in Dir
    BY <1>1 DEF Sound, DirsOK, Dir
  <2>3. z.dirs[d].tables[0] = kt
    BY <1>1, <1>2, <2>2, PageFacts DEF Changed, Dir, Put
  <2> QED
    BY <1>2, <2>1, <2>2, <2>3 DEF Changed
<1> QED
  BY <1>3, <1>4 DEF Sound

\* Pages that are absent own nothing.
LEMMA OtherOwners ==
    ASSUME NEW s, NEW kt, NEW H, NEW H2, Sound(s, kt, H),
           \A d \in DOMAIN s.dirs, v \in Pages :
               s.dirs[d].pages[v] # 0 => (<<d, v>> \in H <=> <<d, v>> \in H2)
    PROVE  Sound(s, kt, H2)
<1>1. ASSUME NEW y \in Spot PROVE At(s, H2, y) = At(s, H, y)
  BY SpotFacts DEF At
<1>2. Holding(s, H2) = Holding(s, H)
  BY <1>1 DEF Holding
<1> QED
  BY <1>2 DEF Sound
-----------------------------------------------------------------------------
(***************************************************************************)
(* Allocation in a directory                                               *)
(***************************************************************************)
Grows(m, n) == m.map \subseteq n.map /\ m.used <= n.used

\* From s to z directory d is given the pages U, unless it has them or no
\* frame is left.
Filled(s, z, kt, H, d, U) ==
    /\ Sound(z, kt, H) /\ Grows(s.mem, z.mem)
    /\ DOMAIN z.dirs = DOMAIN s.dirs
    /\ \A e \in DOMAIN s.dirs : e # d => z.dirs[e] = s.dirs[e]
    /\ \A v \in Pages : s.dirs[d].pages[v] # 0 \/ v \notin U =>
           z.dirs[d].pages[v] = s.dirs[d].pages[v]
    /\ Left(z.mem) => \A v \in U : z.dirs[d].pages[v] # 0

\* What Sound says of the memory and of each directory.
LEMMA SoundMem ==
    ASSUME NEW s, NEW kt, NEW H, Sound(s, kt, H)
    PROVE  /\ s.mem.map \subseteq Frame /\ s.mem.used \in Int /\ 0 \in s.mem.map
           /\ DirsOK(s)
           /\ \A d \in DOMAIN s.dirs :
                  d \in Frame \ {0} /\ d \in s.mem.map /\ s.dirs[d] \in Dir /\ s.dirs[d].tables[0] = kt
           /\ kt \in Frame \ {0}
<1>1. DirsOK(s) /\ Owns(s.mem, BootMap.map \cup {kt}, Holding(s, H)) /\ kt # 0
  BY DEF Sound
<1>2. ASSUME NEW d \in DOMAIN s.dirs PROVE d \in s.mem.map
  <2>1. d \in Frame \ {0} /\ <<d, "dir", 0>> \in Spot
    BY <1>1, SpotFacts DEF DirsOK
  <2>2. Holding(s, H)[<<d, "dir", 0>>] = d
    BY <2>1 DEF Holding, At
  <2> QED
    BY <1>1, <2>1, <2>2 DEF Owns
<1> QED
  BY <1>1, <1>2 DEF Owns, DirsOK, Dir, Sound

\* A frame that is left at the end was left before memory was taken.
LEMMA LeftBefore ==
    ASSUME NEW m, NEW n, Grows(m, n), m.used \in Int, n.used \in Int,
           n.map \subseteq Frame, Left(n)
    PROVE  Left(m)
<1>1. m.map # Frame
  BY DEF Grows, Left
<1>2. FrameCount - m.used > 0
  BY PhysMemAssumption DEF Grows, Left
<1> QED
  BY <1>1, <1>2 DEF Left

\* Nothing done fills no page.
LEMMA FilledNone ==
    ASSUME NEW s, NEW kt, NEW H, Sound(s, kt, H), NEW d
    PROVE  Filled(s, s, kt, H, d, {})
BY SoundMem DEF Filled, Grows

\* Filling some pages and then others fills both.
LEMMA FilledMore ==
    ASSUME NEW s, NEW y, NEW z, NEW kt, NEW H, Sound(s, kt, H), NEW d,
           NEW U, NEW V, U \subseteq Pages, Filled(s, y, kt, H, d, U), Filled(y, z, kt, H, d, V)
    PROVE  Filled(s, z, kt, H, d, U \cup V)
<1>1. s.mem.used \in Int /\ y.mem.used \in Int /\ z.mem.used \in Int /\ z.mem.map \subseteq Frame
  BY SoundMem DEF Filled
<1>2. Grows(s.mem, z.mem)
  BY <1>1 DEF Filled, Grows
<1>3. Left(z.mem) => Left(y.mem)
  BY <1>1, LeftBefore DEF Filled
<1>4. Left(z.mem) => \A v \in U \cup V : z.dirs[d].pages[v] # 0
  BY <1>3 DEF Filled
<1>5. \A v \in Pages : s.dirs[d].pages[v] # 0 \/ v \notin U \cup V =>
           z.dirs[d].pages[v] = s.dirs[d].pages[v]
  BY DEF Filled
<1> QED
  BY <1>2, <1>4, <1>5 DEF Filled

\* The table of a page, if it is missing.
LEMMA WithTableFills ==
    ASSUME NEW s, NEW kt, NEW H, Sound(s, kt, H), NEW d \in DOMAIN s.dirs, NEW t \in Tables
    PROVE  /\ Filled(s, WithTable(s, d, t), kt, H, d, {})
           /\ Left(WithTable(s, d, t).mem) => WithTable(s, d, t).dirs[d].tables[t] # 0
<1>1. CASE s.dirs[d].tables[t] # 0
  BY <1>1, FilledNone DEF WithTable
<1>2. CASE s.dirs[d].tables[t] = 0
  <2>1. PICK a : a = pmmngr_alloc_block(s.mem)
    OBVIOUS
  <2>2. PICK z : z = GivenTable(s, d, t, a)
    OBVIOUS
  <2>3. WithTable(s, d, t) = z
    BY <1>2, <2>1, <2>2 DEF WithTable
  <2>4. s.mem.map \subseteq Frame /\ s.mem.used \in Int /\ 0 \in s.mem.map /\ s.dirs[d] \in Dir
    BY SoundMem
  <2>5. CASE a.frame = 0
    <3>1. z = s /\ ~Left(s.mem)
      BY <2>1, <2>2, <2>4, <2>5, AllocBlock DEF GivenTable
    <3> QED
      BY <2>3, <3>1, FilledNone
  <2>6. CASE a.frame # 0
    <3>1. /\ a.frame \in Frame \ s.mem.map
          /\ a.mem = [map |-> s.mem.map \cup {a.frame}, used |-> s.mem.used + 1]
      BY <2>1, <2>4, <2>6, AllocBlock
    <3>2. z.mem = a.mem /\ z.dirs = [s.dirs EXCEPT ![d].tables[t] = a.frame]
      BY <2>2, <2>6 DEF GivenTable
    <3>3. Sound(z, kt, H)
      BY <1>2, <3>1, <3>2, GiveTable
    <3>4. Changed(s.dirs, z.dirs, d, Put(s.dirs[d].tables, t, a.frame), s.dirs[d].pages)
      BY <2>4, <3>1, <3>2, TableSet, SoundMem
    <3>5. z.dirs[d].tables[t] # 0
      BY <2>4, <2>6, <3>4 DEF Changed, Put, Dir
    <3>6. Grows(s.mem, z.mem)
      BY <2>4, <3>1, <3>2 DEF Grows
    <3> QED
      BY <2>3, <3>3, <3>4, <3>5, <3>6 DEF Filled, Changed
  <2> QED
    BY <2>5, <2>6
<1> QED
  BY <1>1, <1>2

\* A page that its directory owns.
LEMMA AllocFills ==
    ASSUME NEW s, NEW kt, NEW H, Sound(s, kt, H), NEW d \in DOMAIN s.dirs, NEW v \in Pages,
           <<d, v>> \in H
    PROVE  Filled(s, vmmngr_alloc_virt(s, d, v), kt, H, d, {v})
<1>1. PICK y : y = WithTable(s, d, TableOf(v))
  OBVIOUS
<1>2. PICK z : z = AllocIn(y, d, v)
  OBVIOUS
<1>3. vmmngr_alloc_virt(s, d, v) = z
  BY <1>1, <1>2 DEF vmmngr_alloc_virt
<1>4. Filled(s, y, kt, H, d, {}) /\ (Left(y.mem) => y.dirs[d].tables[TableOf(v)] # 0)
  BY <1>1, WithTableFills, PageFacts
<1>5. Sound(y, kt, H) /\ d \in DOMAIN y.dirs
  BY <1>4 DEF Filled
<1>6. y.mem.map \subseteq Frame /\ y.mem.used \in Int /\ 0 \in y.mem.map /\ y.dirs[d] \in Dir
  BY <1>5, SoundMem
<1>7. Filled(y, z, kt, H, d, {v})
  <2>1. CASE ~HasTable(y, d, v)
    <3>1. z = y /\ ~Left(y.mem)
      BY <1>2, <1>4, <2>1 DEF AllocIn, HasTable
    <3>2. Filled(y, y, kt, H, d, {})
      BY <1>5, FilledNone
    <3> QED
      BY <3>1, <3>2 DEF Filled
  <2>2. CASE HasTable(y, d, v) /\ y.dirs[d].pages[v] # 0
    <3>1. z = y
      BY <1>2, <2>2 DEF AllocIn, vmmngr_check_virt_present
    <3>2. Filled(y, y, kt, H, d, {})
      BY <1>5, FilledNone
    <3> QED
      BY <2>2, <3>1, <3>2 DEF Filled
  <2>3. CASE HasTable(y, d, v) /\ y.dirs[d].pages[v] = 0
    <3>1. PICK a : a = pmmngr_alloc_block(y.mem)
      OBVIOUS
    <3>2. z = GivenPage(y, d, v, a)
      BY <1>2, <2>3, <3>1 DEF AllocIn, vmmngr_check_virt_present, vmmngr_alloc_page
    <3>3. CASE a.frame = 0
      <4>1. z = y /\ ~Left(y.mem)
        BY <1>6, <3>1, <3>2, <3>3, AllocBlock DEF GivenPage
      <4>2. Filled(y, y, kt, H, d, {})
        BY <1>5, FilledNone
      <4> QED
        BY <4>1, <4>2 DEF Filled
    <3>4. CASE a.frame # 0
      <4>1. /\ a.frame \in Frame \ y.mem.map
            /\ a.mem = [map |-> y.mem.map \cup {a.frame}, used |-> y.mem.used + 1]
        BY <1>6, <3>1, <3>4, AllocBlock
      <4>2. z.mem = a.mem /\ z.dirs = [y.dirs EXCEPT ![d].pages[v] = a.frame]
        BY <3>2, <3>4 DEF GivenPage
      <4>3. Sound(z, kt, H)
        BY <1>5, <2>3, <4>1, <4>2, GivePage
      <4>4. Changed(y.dirs, z.dirs, d, y.dirs[d].tables, Put(y.dirs[d].pages, v, a.frame))
        BY <1>5, <4>1, <4>2, PageSet, SoundMem
      <4>5. \A w \in Pages : z.dirs[d].pages[w] = IF w = v THEN a.frame ELSE y.dirs[d].pages[w]
        BY <1>6, <4>4 DEF Changed, Put, Dir
      <4>6. Grows(y.mem, z.mem)
        BY <1>6, <4>1, <4>2 DEF Grows
      <4> QED
        BY <2>3, <3>4, <4>3, <4>4, <4>5, <4>6 DEF Filled, Changed
    <3> QED
      BY <3>3, <3>4
  <2> QED
    BY <2>1, <2>2, <2>3
<1>8. Filled(s, z, kt, H, d, {} \cup {v})
  BY <1>4, <1>7, FilledMore, Zenon
<1>9. {} \cup {v} = {v}
  OBVIOUS
<1> QED
  BY <1>3, <1>8, <1>9, Zenon
\* From s to z page v of d, which owns nothing, is given frame f.
Lent(s, z, kt, H, d, v, f) ==
    /\ Sound(z, kt, H) /\ Grows(s.mem, z.mem)
    /\ DOMAIN z.dirs = DOMAIN s.dirs
    /\ \A e \in DOMAIN s.dirs : e # d => z.dirs[e] = s.dirs[e]
    /\ \A w \in Pages : w # v => z.dirs[d].pages[w] = s.dirs[d].pages[w]
    /\ Left(z.mem) => z.dirs[d].pages[v] = f

\* vmmngr_map_page, for a page that does not own its frame.
LEMMA MapLends ==
    ASSUME NEW s, NEW kt, NEW H, Sound(s, kt, H), NEW d \in DOMAIN s.dirs, NEW v \in Pages,
           <<d, v>> \notin H, NEW f \in Frame
    PROVE  Lent(s, vmmngr_map_page(s, d, f, v), kt, H, d, v, f)
<1>1. PICK y : y = WithTable(s, d, TableOf(v))
  OBVIOUS
<1>2. PICK z : z = Mapped(y, d, f, v)
  OBVIOUS
<1>3. vmmngr_map_page(s, d, f, v) = z
  BY <1>1, <1>2 DEF vmmngr_map_page
<1>4. Filled(s, y, kt, H, d, {}) /\ (Left(y.mem) => y.dirs[d].tables[TableOf(v)] # 0)
  BY <1>1, WithTableFills, PageFacts
<1>5. Sound(y, kt, H) /\ d \in DOMAIN y.dirs
  BY <1>4 DEF Filled
<1>6. y.dirs[d] \in Dir /\ DirsOK(y)
  BY <1>5, SoundMem
<1>7. CASE HasTable(y, d, v)
  <2>1. z.mem = y.mem /\ z.dirs = [y.dirs EXCEPT ![d].pages[v] = f]
    BY <1>2, <1>7 DEF Mapped
  <2>2. Sound(z, kt, H)
    BY <1>5, <2>1, SetGuest
  <2>3. Changed(y.dirs, z.dirs, d, y.dirs[d].tables, Put(y.dirs[d].pages, v, f))
    BY <1>5, <1>6, <2>1, PageSet
  <2>4. \A w \in Pages : z.dirs[d].pages[w] = IF w = v THEN f ELSE y.dirs[d].pages[w]
    BY <1>6, <2>3 DEF Changed, Put, Dir
  <2> QED
    BY <1>3, <1>4, <2>1, <2>2, <2>3, <2>4 DEF Filled, Lent, Changed
<1>8. CASE ~HasTable(y, d, v)
  BY <1>2, <1>3, <1>4, <1>8 DEF Mapped, HasTable, Filled, Lent
<1> QED
  BY <1>7, <1>8

\* vmmngr_unmap_virt of such a page.
LEMMA Unmapped ==
    ASSUME NEW s, NEW kt, NEW H, Sound(s, kt, H), NEW d \in DOMAIN s.dirs, NEW v \in Pages,
           <<d, v>> \notin H, NEW z, z = vmmngr_unmap_virt(s, d, v)
    PROVE  /\ Lent(s, z, kt, H, d, v, 0) /\ z.dirs[d].pages[v] = 0
           /\ z.mem = s.mem
<1>1. z.mem = s.mem /\ z.dirs = [s.dirs EXCEPT ![d].pages[v] = 0]
  BY DEF vmmngr_unmap_virt
<1>2. Sound(z, kt, H)
  BY <1>1, SetGuest, FrameFacts
<1>3. s.dirs[d] \in Dir /\ DirsOK(s) /\ s.mem.used \in Int
  BY SoundMem
<1>4. Changed(s.dirs, z.dirs, d, s.dirs[d].tables, Put(s.dirs[d].pages, v, 0))
  BY <1>1, <1>3, PageSet, FrameFacts
<1>5. \A w \in Pages : z.dirs[d].pages[w] = IF w = v THEN 0 ELSE s.dirs[d].pages[w]
  BY <1>3, <1>4 DEF Changed, Put, Dir
<1> QED
  BY <1>1, <1>2, <1>3, <1>4, <1>5 DEF Lent, Changed, Grows

\* The recursion of AllocPages defines its function, and each round of the
\* loop adds its page.
PageLoop(f, s, d, from, to) ==
    f = [v \in from - 1 .. to |-> IF v < from THEN s ELSE vmmngr_alloc_virt(f[v - 1], d, v)]

\* The function of the loop over pages exists, so that CHOOSE finds it.
LEMMA PageLoopExists ==
    ASSUME NEW s, NEW d, NEW from \in Nat, NEW to \in Nat
    PROVE  \E f : PageLoop(f, s, d, from, to)
<1> DEFINE Good == {n \in Int : \E f : PageLoop(f, s, d, from, n)}
<1>1. CASE from - 1 <= to
  <2>1. from - 1 \in Good
    <3>1. PageLoop([v \in from - 1 .. from - 1 |-> s], s, d, from, from - 1)
      BY DEF PageLoop
    <3> QED
      BY <3>1
  <2>2. ASSUME NEW n \in from - 1 .. to - 1, n \in Good PROVE n + 1 \in Good
    <3>1. PICK f : PageLoop(f, s, d, from, n)
      BY <2>2
    <3>2. PICK g : g = [v \in from - 1 .. n + 1 |->
                           IF v < from THEN s
                           ELSE vmmngr_alloc_virt(IF v = n + 1 THEN f[n] ELSE f[v - 1], d, v)]
      OBVIOUS
    <3>3. \A v \in from - 1 .. n : g[v] = f[v]
      BY <3>1, <3>2 DEF PageLoop
    <3>4. \A v \in from - 1 .. n + 1 :
              g[v] = IF v < from THEN s ELSE vmmngr_alloc_virt(g[v - 1], d, v)
      BY <3>2, <3>3
    <3>5. PageLoop(g, s, d, from, n + 1)
      BY <3>2, <3>4 DEF PageLoop
    <3> QED
      BY <3>5
  <2> HIDE DEF Good
  <2>3. \A n \in from - 1 .. to : n \in Good
    BY <2>1, <2>2, IntervalInduction
  <2>4. to \in Good
    BY <1>1, <2>3
  <2> QED
    BY <2>4 DEF Good
<1>2. CASE ~(from - 1 <= to)
  <2>1. PageLoop([v \in from - 1 .. to |-> s], s, d, from, to)
    BY <1>2 DEF PageLoop
  <2> QED
    BY <2>1
<1> QED
  BY <1>1, <1>2

\* The loop over pages fills all of them, if the directory may own them.
LEMMA AllocPagesFills ==
    ASSUME NEW s, NEW kt, NEW H, Sound(s, kt, H), NEW d \in DOMAIN s.dirs,
           NEW from \in Nat, NEW to \in Int, from .. to \subseteq Pages,
           \A v \in from .. to : <<d, v>> \in H
    PROVE  Filled(s, AllocPages(s, d, from, to), kt, H, d, from .. to)
<1>1. CASE to < from
  <2>1. AllocPages(s, d, from, to) = s /\ from .. to = {}
    BY <1>1 DEF AllocPages
  <2> QED
    BY <2>1, FilledNone
<1>2. CASE ~(to < from)
  <2>1. PICK f : /\ PageLoop(f, s, d, from, to)
                 /\ AllocPages(s, d, from, to) = f[to]
    <3>1. PICK f : f = CHOOSE g : PageLoop(g, s, d, from, to)
      OBVIOUS
    <3>2. PageLoop(f, s, d, from, to)
      <4>1. to \in Nat
        BY <1>2
      <4>2. \E h : PageLoop(h, s, d, from, to)
        BY <4>1, PageLoopExists
      <4> QED
        BY <3>1, <4>2, Zenon
    <3>3. AllocPages(s, d, from, to) = f[to]
      BY <1>2, <3>1 DEF AllocPages, PageLoop
    <3> QED
      BY <3>2, <3>3
  <2> DEFINE Good == {v \in from - 1 .. to : Filled(s, f[v], kt, H, d, from .. v)}
  <2>2. from - 1 \in Good
    <3>1. f[from - 1] = s /\ from .. from - 1 = {}
      BY <1>2, <2>1 DEF PageLoop
    <3> QED
      BY <1>2, <3>1, FilledNone
  <2>3. ASSUME NEW v \in from - 1 .. to - 1, v \in Good PROVE v + 1 \in Good
    <3>1. f[v + 1] = vmmngr_alloc_virt(f[v], d, v + 1)
      BY <2>1 DEF PageLoop
    <3>2. PICK y : y = f[v]
      OBVIOUS
    <3>3. Filled(s, y, kt, H, d, from .. v)
      BY <2>3, <3>2
    <3>4. Sound(y, kt, H) /\ d \in DOMAIN y.dirs
      BY <3>3 DEF Filled
    <3>5. v + 1 \in from .. to /\ from .. v \subseteq from .. to
      OBVIOUS
    <3>6. v + 1 \in Pages /\ <<d, v + 1>> \in H /\ from .. v \subseteq Pages
      BY <3>5
    <3>7. Filled(y, f[v + 1], kt, H, d, {v + 1})
      BY <3>1, <3>2, <3>4, <3>6, AllocFills
    <3>8. Filled(s, f[v + 1], kt, H, d, (from .. v) \cup {v + 1})
      BY <3>3, <3>6, <3>7, FilledMore
    <3>9. (from .. v) \cup {v + 1} = from .. v + 1
      BY <3>5
    <3>10. Filled(s, f[v + 1], kt, H, d, from .. v + 1)
      BY <3>8, <3>9, Zenon
    <3> QED
      BY <3>10
  <2> HIDE DEF Good
  <2>4. \A v \in from - 1 .. to : v \in Good
    BY <2>2, <2>3, IntervalInduction
  <2>5. to \in Good
    BY <1>2, <2>4
  <2> QED
    BY <2>1, <2>5 DEF Good
<1> QED
  BY <1>1, <1>2
\* The same for the loader's loop over the sections.
SectionRange(x, i) == SectionFrom(x, x.sections[i]) .. SectionTo(x, x.sections[i])
FirstSections(x, n) == UNION {SectionRange(x, i) : i \in 1 .. n}

SectionLoop(f, s, d, x, n) ==
    f = [i \in 0 .. n |-> IF i = 0 THEN s ELSE LoadSection(f[i - 1], d, x, x.sections[i])]

\* The function of the loop over sections exists.
LEMMA SectionLoopExists ==
    ASSUME NEW s, NEW d, NEW x, NEW len \in Nat
    PROVE  \E f : SectionLoop(f, s, d, x, len)
<1> DEFINE Good == {n \in Int : \E f : SectionLoop(f, s, d, x, n)}
<1>1. 0 \in Good
  <2>1. SectionLoop([i \in 0 .. 0 |-> s], s, d, x, 0)
    BY DEF SectionLoop
  <2> QED
    BY <2>1
<1>2. ASSUME NEW n \in 0 .. len - 1, n \in Good PROVE n + 1 \in Good
  <2>1. PICK f : SectionLoop(f, s, d, x, n)
    BY <1>2
  <2>2. PICK g : g = [i \in 0 .. n + 1 |->
                         IF i = 0 THEN s
                         ELSE LoadSection(IF i = n + 1 THEN f[n] ELSE f[i - 1], d, x, x.sections[i])]
    OBVIOUS
  <2>3. \A i \in 0 .. n : g[i] = f[i]
    BY <2>1, <2>2 DEF SectionLoop
  <2>4. \A i \in 0 .. n + 1 :
            g[i] = IF i = 0 THEN s ELSE LoadSection(g[i - 1], d, x, x.sections[i])
    <3> SUFFICES ASSUME NEW i \in 0 .. n + 1
                 PROVE  g[i] = IF i = 0 THEN s ELSE LoadSection(g[i - 1], d, x, x.sections[i])
      OBVIOUS
    <3>1. i # 0 => g[i - 1] = IF i = n + 1 THEN f[n] ELSE f[i - 1]
      BY <2>3
    <3> QED
      BY <2>2, <3>1
  <2>5. SectionLoop(g, s, d, x, n + 1)
    BY <2>2, <2>4 DEF SectionLoop
  <2> QED
    BY <2>5
<1> HIDE DEF Good
<1>3. \A n \in 0 .. len : n \in Good
  BY <1>1, <1>2, IntervalInduction
<1>4. len \in Good
  BY <1>3
<1> QED
  BY <1>4 DEF Good

\* What ImagesAssumption says of one image: its sections lie in the image, and
\* the image below the stacks.
LEMMA ImageFacts ==
    ASSUME NEW x \in Images
    PROVE  /\ Len(x.sections) \in Nat
           /\ SectionPages(x) = FirstSections(x, Len(x.sections))
           /\ SectionPages(x) \subseteq ImagePages(x)
           /\ ImagePages(x) \subseteq UserStackArea
           /\ \A i \in 1 .. Len(x.sections) :
                  SectionFrom(x, x.sections[i]) \in Nat /\ SectionTo(x, x.sections[i]) \in Nat
           /\ \A i \in 1 .. Len(x.sections) : SectionRange(x, i) \subseteq SectionPages(x)
<1>1. ImagePages(x) \subseteq UserStackArea
  <2>1. PageOf(x.base) \in Nat /\ TablePages <= PageOf(x.base)
    BY ImagesAssumption DEF PageOf
  <2>2. PageOf(HeapEnd(x)) \in Int /\ PageOf(HeapEnd(x)) <= KernelStacks
    <3>1. x.base \in Nat /\ x.size \in Nat /\ SbrkLim \in Nat
      BY ImagesAssumption
    <3>2. FromPageEnd(x.size) \in Int /\ FromPageEnd(SbrkLim) \in Int
      BY <3>1 DEF FromPageEnd
    <3>3. HeapEnd(x) \in Int
      BY <3>1, <3>2 DEF HeapEnd
    <3> QED
      BY <3>3, ImagesAssumption DEF PageOf
  <2> QED
    BY <2>1, <2>2, LayoutAssumption DEF ImagePages, UserStackArea
<1>2. SectionPages(x) = FirstSections(x, Len(x.sections))
  BY DEF SectionPages, FirstSections, SectionRange
<1>3. \A i \in 1 .. Len(x.sections) : SectionRange(x, i) \subseteq ImagePages(x)
  BY ImagesAssumption DEF SectionRange
<1> QED
  BY <1>1, <1>2, <1>3, ImagesAssumption DEF FirstSections

\* The loader fills the pages of the image's sections.
LEMMA LoadFills ==
    ASSUME NEW s, NEW kt, NEW H, Sound(s, kt, H), NEW d \in DOMAIN s.dirs, NEW x \in Images,
           \A v \in SectionPages(x) : <<d, v>> \in H
    PROVE  Filled(s, load_executable(s, d, x), kt, H, d, SectionPages(x))
<1>1. PICK len : len = Len(x.sections)
  OBVIOUS
<1>2. /\ len \in Nat /\ SectionPages(x) = FirstSections(x, len)
      /\ SectionPages(x) \subseteq Pages
      /\ \A i \in 1 .. len : SectionFrom(x, x.sections[i]) \in Nat /\ SectionTo(x, x.sections[i]) \in Nat
      /\ \A i \in 1 .. len : SectionRange(x, i) \subseteq SectionPages(x)
  <2> HIDE DEF SectionRange
  <2> QED
    BY <1>1, ImageFacts, PageFacts
<1>3. PICK f : SectionLoop(f, s, d, x, len) /\ load_executable(s, d, x) = f[len]
  <2>1. PICK f : f = CHOOSE g : SectionLoop(g, s, d, x, len)
    OBVIOUS
  <2>2. SectionLoop(f, s, d, x, len)
    <3>1. \E h : SectionLoop(h, s, d, x, len)
      BY <1>2, SectionLoopExists
    <3> QED
      BY <2>1, <3>1, Zenon
  <2>3. load_executable(s, d, x) = f[len]
    BY <1>1, <2>1 DEF load_executable, SectionLoop
  <2> QED
    BY <2>2, <2>3
<1> DEFINE Good == {i \in 0 .. len : Filled(s, f[i], kt, H, d, FirstSections(x, i))}
<1>4. 0 \in Good
  <2>1. f[0] = s /\ FirstSections(x, 0) = {}
    BY <1>2, <1>3 DEF SectionLoop, FirstSections
  <2> QED
    BY <1>2, <2>1, FilledNone
<1>5. ASSUME NEW i \in 0 .. len - 1, i \in Good PROVE i + 1 \in Good
  <2>1. PICK y : y = f[i]
    OBVIOUS
  <2>2. i + 1 \in 1 .. len
    BY <1>2
  <2>3. f[i + 1] = AllocPages(y, d, SectionFrom(x, x.sections[i + 1]), SectionTo(x, x.sections[i + 1]))
    <3>1. f[i + 1] = LoadSection(f[i], d, x, x.sections[i + 1])
      <4>1. i + 1 \in 0 .. len /\ i + 1 # 0 /\ (i + 1) - 1 = i
        BY <1>2
      <4> QED
        BY <1>3, <4>1 DEF SectionLoop
    <3> QED
      BY <2>1, <3>1 DEF LoadSection
  <2>4. Filled(s, y, kt, H, d, FirstSections(x, i))
    BY <1>5, <2>1
  <2>5. Sound(y, kt, H) /\ d \in DOMAIN y.dirs
    BY <2>4 DEF Filled
  <2>6. FirstSections(x, i + 1) = FirstSections(x, i) \cup SectionRange(x, i + 1)
    BY <1>2, <2>2 DEF FirstSections
  <2>7. SectionRange(x, i + 1) \subseteq Pages /\ FirstSections(x, i) \subseteq Pages
    BY <1>2, <2>2 DEF FirstSections
  <2>8. \A v \in SectionRange(x, i + 1) : <<d, v>> \in H
    BY <1>2, <2>2
  <2>9. Filled(y, f[i + 1], kt, H, d, SectionRange(x, i + 1))
    <3>1. SectionFrom(x, x.sections[i + 1]) \in Nat /\ SectionTo(x, x.sections[i + 1]) \in Int
      BY <1>2, <2>2
    <3> QED
      BY <2>3, <2>5, <2>7, <2>8, <3>1, AllocPagesFills DEF SectionRange
  <2>10. Filled(s, f[i + 1], kt, H, d, FirstSections(x, i + 1))
    BY <2>4, <2>6, <2>7, <2>9, FilledMore
  <2> QED
    BY <2>2, <2>10
<1> HIDE DEF Good
<1>6. \A i \in 0 .. len : i \in Good
  BY <1>2, <1>4, <1>5, IntervalInduction
<1>7. len \in Good
  BY <1>2, <1>6
<1> QED
  BY <1>2, <1>3, <1>7 DEF Good
-----------------------------------------------------------------------------
(***************************************************************************)
(* Freeing                                                                 *)
(***************************************************************************)
\* From s to z directory d loses the pages U.
Emptied(s, z, kt, H, d, U) ==
    /\ Sound(z, kt, H)
    /\ DOMAIN z.dirs = DOMAIN s.dirs
    /\ \A e \in DOMAIN s.dirs : e # d => z.dirs[e] = s.dirs[e]
    /\ \A v \in Pages : z.dirs[d].pages[v] = IF v \in U THEN 0 ELSE s.dirs[d].pages[v]

\* vmmngr_free_virt for pages that own their frames.
LEMMA FreeEmpties ==
    ASSUME NEW s, NEW kt, NEW H, Sound(s, kt, H), NEW d \in DOMAIN s.dirs,
           NEW U, U \subseteq Pages, \A v \in U : <<d, v>> \in H
    PROVE  Emptied(s, vmmngr_free_virt(s, d, U), kt, H, d, U)
<1> DEFINE present == {v \in U : s.dirs[d].pages[v] # 0}
           F == {s.dirs[d].pages[v] : v \in present}
           pages == [v \in Pages |-> IF v \in U THEN 0 ELSE s.dirs[d].pages[v]]
           Z == {x \in Spot : x[1] = d /\ x[2] = "page" /\ x[3] \in U}
           g == Holding(s, H)
           h == [x \in Spot |-> IF x \in Z THEN 0 ELSE g[x]]
<1>1. PICK z : z = vmmngr_free_virt(s, d, U)
  OBVIOUS
<1>2. z.mem = [map |-> s.mem.map \ F, used |-> s.mem.used - Cardinality(present)]
  BY <1>1 DEF vmmngr_free_virt, pmmngr_free_block, vmmngr_check_virt_present
<1>3. DirsOK(s) /\ s.dirs[d] \in Dir /\ d \in Frame
  BY SoundMem
<1>4. pages \in [Pages -> Frame]
  BY <1>3, FrameFacts DEF Dir
<1>5. z.dirs = [s.dirs EXCEPT ![d].pages = pages]
  BY <1>1 DEF vmmngr_free_virt
<1>6. Changed(s.dirs, z.dirs, d, s.dirs[d].tables, pages)
  <2> HIDE DEF pages
  <2> QED
    BY <1>3, <1>4, <1>5, PagesSet
<1>7. \A v \in Pages : <<d, "page", v>> \in Spot
  BY <1>3, SpotFacts
<1>8. \A v \in U : g[<<d, "page", v>>] = s.dirs[d].pages[v]
  BY <1>7 DEF Holding, At
<1>9. Cardinality(present) = Cardinality(F)
  <2>1. IsFiniteSet(present)
    BY PageFacts, FS_Subset
  <2>2. PICK f : f = s.dirs[d].pages
    OBVIOUS
  <2>3. \A v, w \in present : f[v] = f[w] => v = w
    <3>1. \A v, w \in present :
              g[<<d, "page", v>>] # 0 /\ g[<<d, "page", v>>] = g[<<d, "page", w>>]
              => <<d, "page", v>> = <<d, "page", w>>
      <4> HIDE DEF g
      <4> QED
        BY <1>7 DEF Sound, Owns, g
    <3> HIDE DEF g
    <3> QED
      BY <1>8, <2>2, <3>1
  <2> HIDE DEF present
  <2>4. Cardinality({f[v] : v \in present}) = Cardinality(present)
    BY <2>1, <2>3, ImageSize
  <2> QED
    BY <2>2, <2>4
<1>10. Owns([map |-> s.mem.map \ F, used |-> s.mem.used - Cardinality(F)], BootMap.map \cup {kt}, h)
  <2>1. Owns(s.mem, BootMap.map \cup {kt}, g)
    BY DEF Sound
  <2>2. \A f \in F : f # 0 /\ \E x \in Z : g[x] = f
    <3> SUFFICES ASSUME NEW f \in F PROVE f # 0 /\ \E x \in Z : g[x] = f
      OBVIOUS
    <3>1. PICK v \in present : f = s.dirs[d].pages[v]
      OBVIOUS
    <3>2. <<d, "page", v>> \in Z
      BY <1>7
    <3> HIDE DEF Z, g
    <3> QED
      BY <1>8, <3>1, <3>2
  <2>3. \A x \in Z : g[x] # 0 => g[x] \in F
    <3> SUFFICES ASSUME NEW x \in Z, g[x] # 0 PROVE g[x] \in F
      OBVIOUS
    <3>1. x = <<d, "page", x[3]>> /\ x[3] \in U
      BY SpotFacts
    <3>2. g[x] = s.dirs[d].pages[x[3]]
      BY <1>8, <3>1
    <3> QED
      BY <3>1, <3>2
  <2>4. Z \subseteq Spot
    OBVIOUS
  <2> HIDE DEF F, Z, g
  <2> QED
    BY <2>1, <2>2, <2>3, <2>4, Lose
<1>11. Holding(z, H) = h
  <2>1. ASSUME NEW y \in Spot PROVE At(z, H, y) = IF y \in Z THEN 0 ELSE At(s, H, y)
    <3>1. y[2] \in {"dir", "table", "page"}
      BY SpotFacts
    <3>2. CASE y[1] # d \/ y[2] = "dir"
      BY <1>6, <3>2 DEF At, Changed
    <3>3. CASE y[1] = d /\ y[2] = "table"
      <4>1. z.dirs[d].tables = s.dirs[d].tables /\ d \in DOMAIN z.dirs
        BY <1>6 DEF Changed
      <4> QED
        BY <3>3, <4>1 DEF At
    <3>4. CASE y[1] = d /\ y[2] = "page"
      <4>1. z.dirs[d].pages = pages /\ d \in DOMAIN z.dirs
        BY <1>6 DEF Changed
      <4> QED
        BY <3>4, <4>1 DEF At
    <3> QED
      BY <3>1, <3>2, <3>3, <3>4
  <2> QED
    BY <2>1 DEF Holding
<1>12. DirsOK(z) /\ \A e \in DOMAIN z.dirs : z.dirs[e].tables[0] = kt
  <2>1. DirsOK(z)
    BY <1>3, <1>6 DEF Changed, DirsOK, Dir
  <2>2. \A e \in DOMAIN s.dirs : s.dirs[e].tables[0] = kt
    BY SoundMem
  <2> QED
    BY <1>6, <2>1, <2>2 DEF Changed
<1>13. Sound(z, kt, H)
  <2> HIDE DEF h, F, present
  <2> QED
    BY <1>2, <1>9, <1>10, <1>11, <1>12, SoundMem DEF Sound
<1>14. \A v \in Pages : z.dirs[d].pages[v] = IF v \in U THEN 0 ELSE s.dirs[d].pages[v]
  BY <1>6 DEF Changed
<1> QED
  BY <1>1, <1>6, <1>13, <1>14 DEF Emptied, Changed
\* vmmngr_free_pdir of a directory without owned pages, after
\* clear_kernel_space.
LEMMA FreeDir ==
    ASSUME NEW s, NEW kt, NEW H, Sound(s, kt, H), NEW d \in DOMAIN s.dirs,
           \A v \in Pages : <<d, v>> \in H => s.dirs[d].pages[v] = 0,
           NEW z, z = vmmngr_free_pdir(clear_kernel_space(s, d), d)
    PROVE  /\ Sound(z, kt, H) /\ DOMAIN z.dirs = DOMAIN s.dirs \ {d}
           /\ \A e \in DOMAIN s.dirs : e # d => z.dirs[e] = s.dirs[e]
<1> DEFINE present == {t \in Tables : t # 0 /\ s.dirs[d].tables[t] # 0}
           F == {s.dirs[d].tables[t] : t \in present}
           Z == {x \in Spot : x[1] = d}
           g == Holding(s, H)
           h == [x \in Spot |-> IF x \in Z THEN 0 ELSE g[x]]
<1>1. PICK y : y = clear_kernel_space(s, d)
  OBVIOUS
<1>2. DirsOK(s) /\ s.dirs[d] \in Dir /\ d \in Frame \ {0} /\ s.mem.used \in Int
  BY SoundMem
<1>3. y.mem = s.mem /\ y.dirs = [s.dirs EXCEPT ![d].tables[0] = 0]
  BY <1>1 DEF clear_kernel_space
<1>4. Changed(s.dirs, y.dirs, d, Put(s.dirs[d].tables, 0, 0), s.dirs[d].pages)
  BY <1>2, <1>3, TableSet, PageFacts, FrameFacts
<1>5. \A t \in Tables : y.dirs[d].tables[t] = IF t = 0 THEN 0 ELSE s.dirs[d].tables[t]
  BY <1>2, <1>4 DEF Changed, Put, Dir
<1>6. z.mem = [map |-> s.mem.map \ (F \cup {d}), used |-> s.mem.used - (Cardinality(present) + 1)]
  <2>1. {t \in Tables : y.dirs[d].tables[t] # 0} = present
    BY <1>5
  <2>2. {y.dirs[d].tables[t] : t \in present} = F
    BY <1>5
  <2>3. z.mem = pmmngr_free_block(y.mem, {y.dirs[d].tables[t] : t \in present} \cup {d},
                                  Cardinality(present) + 1)
    <3> HIDE DEF present
    <3> QED
      BY <1>1, <2>1 DEF vmmngr_free_pdir
  <2> HIDE DEF present, F
  <2> QED
    BY <1>3, <2>2, <2>3 DEF pmmngr_free_block
<1>7. /\ DOMAIN z.dirs = DOMAIN s.dirs \ {d}
      /\ z.dirs \in [DOMAIN s.dirs \ {d} -> Dir]
      /\ \A e \in DOMAIN s.dirs : e # d => z.dirs[e] = s.dirs[e]
  BY <1>1, <1>2, <1>4 DEF vmmngr_free_pdir, Changed, DirsOK, Dir
<1>8. /\ \A t \in present : <<d, "table", t>> \in Z /\ g[<<d, "table", t>>] = s.dirs[d].tables[t]
      /\ <<d, "dir", 0>> \in Z /\ g[<<d, "dir", 0>>] = d
  BY <1>2, SpotFacts DEF Holding, At
<1>9. Owns(s.mem, BootMap.map \cup {kt}, g)
  BY DEF Sound
<1>10. Cardinality(F \cup {d}) = Cardinality(present) + 1
  <2>1. IsFiniteSet(present)
    BY PageFacts, FS_Subset
  <2>2. PICK f : f = s.dirs[d].tables
    OBVIOUS
  <2>3. \A t, u \in present : f[t] = f[u] => t = u
    <3>1. \A x, w \in Spot : g[x] # 0 /\ g[x] = g[w] => x = w
      BY <1>9 DEF Owns
    <3> SUFFICES ASSUME NEW t \in present, NEW u \in present, f[t] = f[u] PROVE t = u
      OBVIOUS
    <3>2. /\ <<d, "table", t>> \in Spot /\ <<d, "table", u>> \in Spot
          /\ g[<<d, "table", t>>] = f[t] /\ g[<<d, "table", u>>] = f[u] /\ f[t] # 0
      BY <1>8, <2>2
    <3> HIDE DEF g, present
    <3>3. <<d, "table", t>> = <<d, "table", u>>
      BY <3>1, <3>2
    <3> QED
      BY <3>3
  <2>4. d \notin F
    <3>1. \A x, w \in Spot : g[x] # 0 /\ g[x] = g[w] => x = w
      BY <1>9 DEF Owns
    <3>2. ASSUME NEW t \in present, s.dirs[d].tables[t] = d PROVE FALSE
      <4>2. /\ <<d, "table", t>> \in Spot /\ <<d, "dir", 0>> \in Spot
            /\ g[<<d, "table", t>>] = d /\ g[<<d, "dir", 0>>] = d /\ d # 0
        BY <1>2, <1>8, <3>2
      <4> HIDE DEF g
      <4>1. <<d, "table", t>> = <<d, "dir", 0>>
        BY <3>1, <4>2
      <4> QED
        BY <4>1
    <3> QED
      BY <3>2
  <2> HIDE DEF present
  <2>5. Cardinality({f[t] : t \in present}) = Cardinality(present)
    BY <2>1, <2>3, ImageSize
  <2>6. IsFiniteSet(F)
    <3> DEFINE k == [t \in present |-> f[t]]
    <3>1. k \in Surjection(present, F)
      BY <2>2 DEF Surjection
    <3> QED
      BY <2>1, <3>1, FS_Surjection
  <2>7. Cardinality(F \cup {d}) = Cardinality(F) + 1
    <3> HIDE DEF F
    <3> QED
      BY <2>4, <2>6, FS_AddElement
  <2> QED
    BY <2>2, <2>5, <2>7
<1>11. Owns([map |-> s.mem.map \ (F \cup {d}), used |-> s.mem.used - Cardinality(F \cup {d})],
            BootMap.map \cup {kt}, h)
  <2>1. \A f \in F \cup {d} : f # 0 /\ \E x \in Z : g[x] = f
    <3>1. \A t \in present : s.dirs[d].tables[t] # 0
      OBVIOUS
    <3> HIDE DEF Z, g, present
    <3> QED
      BY <1>2, <1>8, <3>1
  <2>2. \A x \in Z : g[x] # 0 => g[x] \in F \cup {d}
    <3> SUFFICES ASSUME NEW x \in Z, g[x] # 0 PROVE g[x] \in F \cup {d}
      OBVIOUS
    <3>1. x[1] = d /\ x \in Spot /\ g[x] = At(s, H, x) /\ x[2] \in {"dir", "table", "page"}
      BY SpotFacts DEF Holding
    <3>2. CASE x[2] = "dir"
      BY <3>1, <3>2 DEF At
    <3>3. CASE x[2] = "table"
      BY <3>1, <3>3 DEF At
    <3>4. CASE x[2] = "page"
      BY <3>1, <3>4 DEF At
    <3> QED
      BY <3>1, <3>2, <3>3, <3>4
  <2>3. Z \subseteq Spot
    OBVIOUS
  <2> HIDE DEF F, Z, g
  <2> QED
    BY <1>9, <2>1, <2>2, <2>3, Lose
<1>12. Holding(z, H) = h
  <2>1. ASSUME NEW x \in Spot PROVE At(z, H, x) = IF x \in Z THEN 0 ELSE At(s, H, x)
    BY <1>7, SpotFacts DEF At
  <2> QED
    BY <2>1 DEF Holding
<1>13. DirsOK(z) /\ \A e \in DOMAIN z.dirs : z.dirs[e].tables[0] = kt
  <2>1. DirsOK(z)
    BY <1>2, <1>7 DEF DirsOK, Dir
  <2>2. \A e \in DOMAIN s.dirs : s.dirs[e].tables[0] = kt
    BY SoundMem
  <2> QED
    BY <1>7, <2>1, <2>2
<1>14. z.mem = [map |-> s.mem.map \ (F \cup {d}), used |-> s.mem.used - Cardinality(F \cup {d})]
  <2> HIDE DEF F, present
  <2> QED
    BY <1>6, <1>10
<1> HIDE DEF h, F
<1>15. Sound(z, kt, H)
  BY <1>11, <1>12, <1>13, <1>14, SoundMem DEF Sound
<1> QED
  BY <1>7, <1>15
-----------------------------------------------------------------------------
(***************************************************************************)
(* A new directory                                                         *)
(***************************************************************************)
\* create_address_space from an existing directory, if a frame is left.
LEMMA NewSpaceSound ==
    ASSUME NEW s, NEW kt, NEW H, Sound(s, kt, H), NEW cur \in DOMAIN s.dirs, Left(s.mem),
           NEW c, c = create_address_space(s, cur)
    PROVE  /\ Sound(c.s, kt, H) /\ Grows(s.mem, c.s.mem)
           /\ c.dir \in Frame \ {0} /\ c.dir \notin DOMAIN s.dirs
           /\ DOMAIN c.s.dirs = DOMAIN s.dirs \cup {c.dir}
           /\ \A e \in DOMAIN s.dirs : c.s.dirs[e] = s.dirs[e]
           /\ \A v \in Pages : c.s.dirs[c.dir].pages[v] = 0
<1>1. PICK a : a = pmmngr_alloc_block(s.mem)
  OBVIOUS
<1>2. s.mem.map \subseteq Frame /\ s.mem.used \in Int /\ 0 \in s.mem.map /\ DirsOK(s)
      /\ kt \in Frame \ {0} /\ cur # 0 /\ s.dirs[cur].tables[0] = kt /\ DOMAIN s.dirs \subseteq s.mem.map
  BY SoundMem
<1>3. PICK f : f = a.frame
  OBVIOUS
<1>4. /\ f \in Frame \ s.mem.map /\ f # 0
      /\ a.mem = [map |-> s.mem.map \cup {f}, used |-> s.mem.used + 1]
  BY <1>1, <1>2, <1>3, AllocBlock
<1>5. PICK z : z = c.s
  OBVIOUS
<1>6. c.dir = f /\ z.mem = a.mem
  BY <1>1, <1>3, <1>5 DEF create_address_space, NewSpace
<1>7. PICK dir : dir = [tables |-> [t \in Tables |-> IF t = 0 THEN kt ELSE 0],
                        pages |-> [v \in Pages |-> 0]]
  OBVIOUS
<1>8. z.dirs = [x \in DOMAIN s.dirs \cup {f} |-> IF x = f THEN dir ELSE s.dirs[x]]
  BY <1>1, <1>2, <1>3, <1>5, <1>7 DEF create_address_space, NewSpace
<1>9. dir \in Dir /\ dir.tables[0] = kt
      /\ (\A t \in Tables : t # 0 => dir.tables[t] = 0) /\ \A v \in Pages : dir.pages[v] = 0
  BY <1>2, <1>7, PageFacts, FrameFacts DEF Dir
<1>10. f \notin DOMAIN s.dirs
  BY <1>2, <1>4
<1>11. DirsOK(z) /\ \A e \in DOMAIN z.dirs : z.dirs[e].tables[0] = kt
  <2>1. \A e \in DOMAIN s.dirs : s.dirs[e].tables[0] = kt /\ s.dirs[e] \in Dir
    BY SoundMem
  <2>2. z.dirs \in [DOMAIN s.dirs \cup {f} -> Dir]
    BY <1>8, <1>9, <2>1
  <2> QED
    BY <1>2, <1>4, <1>8, <1>9, <2>1, <2>2 DEF DirsOK, Dir
<1> DEFINE x == <<f, "dir", 0>>
           g == Holding(s, H)
<1>12. x \in Spot /\ g[x] = 0
  BY <1>4, <1>10, SpotFacts DEF Holding, At
<1>13. Holding(z, H) = [g EXCEPT ![x] = f]
  <2>1. ASSUME NEW y \in Spot PROVE At(z, H, y) = IF y = x THEN f ELSE At(s, H, y)
    <3>1. y = <<y[1], y[2], y[3]>> /\ y[2] \in {"dir", "table", "page"}
      BY SpotFacts
    <3>2. CASE y[1] # f
      BY <1>8, <3>1, <3>2 DEF At
    <3>3. CASE y[1] = f
      <4>1. At(s, H, y) = 0
        BY <1>10, <3>3 DEF At
      <4>2. z.dirs[f] = dir /\ f \in DOMAIN z.dirs
        BY <1>8
      <4>3. CASE y[2] = "dir"
        BY <3>1, <3>3, <4>1, <4>2, <4>3 DEF At
      <4>4. CASE y[2] = "table"
        BY <1>9, <3>1, <3>3, <4>1, <4>2, <4>4 DEF At
      <4>5. CASE y[2] = "page"
        BY <1>9, <3>1, <3>3, <4>1, <4>2, <4>5 DEF At
      <4> QED
        BY <3>1, <4>3, <4>4, <4>5
    <3> QED
      BY <3>2, <3>3
  <2> QED
    BY <2>1 DEF Holding
<1>14. Owns(s.mem, BootMap.map \cup {kt}, g)
  BY DEF Sound
<1> HIDE DEF g, x
<1>15. Owns(z.mem, BootMap.map \cup {kt}, [g EXCEPT ![x] = f])
  BY <1>4, <1>6, <1>12, <1>14, Gain
<1>16. Sound(z, kt, H)
  BY <1>2, <1>11, <1>13, <1>15 DEF Sound
<1>17. Grows(s.mem, z.mem)
  BY <1>2, <1>4, <1>6 DEF Grows
<1> QED
  BY <1>4, <1>5, <1>6, <1>8, <1>9, <1>10, <1>16, <1>17
-----------------------------------------------------------------------------
(***************************************************************************)
(* The start: what kernel processes are given                              *)
(***************************************************************************)
MemOK(m) == m.map \subseteq Frame /\ m.used \in Int /\ 0 \in m.map

\* Whatever the directories are like, memory is only taken.
Takes(m, n) == MemOK(n) /\ Grows(m, n)

\* pmmngr_alloc_block gives nothing back.
LEMMA AllocTakes ==
    ASSUME NEW m, MemOK(m), NEW a, a = pmmngr_alloc_block(m)
    PROVE  Takes(m, a.mem)
<1>1. m.map \subseteq Frame /\ m.used \in Int /\ 0 \in m.map
  BY DEF MemOK
<1>2. CASE a.frame # 0
  <2>1. a.frame \in Frame /\ a.mem = [map |-> m.map \cup {a.frame}, used |-> m.used + 1]
    BY <1>1, <1>2, AllocBlock
  <2> QED
    BY <1>1, <2>1 DEF Takes, MemOK, Grows
<1>3. CASE a.frame = 0
  <2>1. a.mem = m
    BY <1>1, <1>3, AllocBlock
  <2> QED
    BY <1>1, <2>1 DEF Takes, MemOK, Grows
<1> QED
  BY <1>2, <1>3

\* Nor does the making of a table,
LEMMA TableTakes ==
    ASSUME NEW s, MemOK(s.mem), NEW d, NEW t
    PROVE  Takes(s.mem, WithTable(s, d, t).mem)
<1>1. PICK a : a = pmmngr_alloc_block(s.mem)
  OBVIOUS
<1>2. Takes(s.mem, a.mem) /\ Takes(s.mem, s.mem)
  BY <1>1, AllocTakes DEF Takes, MemOK, Grows
<1> QED
  BY <1>1, <1>2 DEF WithTable, GivenTable

\* of a page,
LEMMA PageTakes ==
    ASSUME NEW s, MemOK(s.mem), NEW d, NEW v
    PROVE  Takes(s.mem, vmmngr_alloc_virt(s, d, v).mem)
<1>1. PICK y : y = WithTable(s, d, TableOf(v))
  OBVIOUS
<1>2. PICK a : a = pmmngr_alloc_block(y.mem)
  OBVIOUS
<1>3. Takes(s.mem, y.mem)
  BY <1>1, TableTakes
<1>4. Takes(y.mem, a.mem)
  BY <1>2, <1>3, AllocTakes DEF Takes
<1>5. AllocIn(y, d, v).mem \in {y.mem, a.mem}
  BY <1>2 DEF AllocIn, vmmngr_alloc_page, GivenPage
<1>6. Takes(s.mem, a.mem)
  BY <1>3, <1>4 DEF Takes, Grows, MemOK
<1> QED
  BY <1>1, <1>3, <1>5, <1>6 DEF vmmngr_alloc_virt

\* of a mapping,
LEMMA MapTakes ==
    ASSUME NEW s, MemOK(s.mem), NEW d, NEW f, NEW v
    PROVE  Takes(s.mem, vmmngr_map_page(s, d, f, v).mem)
<1>1. PICK y : y = WithTable(s, d, TableOf(v))
  OBVIOUS
<1>2. Takes(s.mem, y.mem)
  BY <1>1, TableTakes
<1>3. Mapped(y, d, f, v).mem = y.mem
  BY DEF Mapped
<1> QED
  BY <1>1, <1>2, <1>3 DEF vmmngr_map_page

\* or of a kernel process.
LEMMA KernelProcessTakes ==
    ASSUME NEW s, MemOK(s.mem), NEW cur, NEW stack, NEW k \in createKernelProcess(s, cur, stack)
    PROVE  Takes(s.mem, k.s.mem)
<1>1. PICK c : c = create_address_space(s, cur)
  OBVIOUS
<1>2. PICK e : e = CallerMapped(c, cur, stack)
  OBVIOUS
<1>3. PICK v \in OwnKernelStackArea : k = WithKernelStack(e, stack, v)
  BY <1>1, <1>2 DEF createKernelProcess, FirstKernelStack, FirstAbsent
<1>4. PICK y : y = vmmngr_alloc_virt(e.s, e.dir, v)
  OBVIOUS
<1>5. k.s.mem = y.mem
  BY <1>3, <1>4 DEF WithKernelStack, CallerUnmapped, vmmngr_unmap_virt
<1>6. Takes(s.mem, c.s.mem)
  BY <1>1, AllocTakes DEF create_address_space, NewSpace
<1>7. Takes(c.s.mem, e.s.mem)
  <2>1. CASE stack = 0
    BY <1>2, <1>6, <2>1 DEF CallerMapped, Takes, MemOK, Grows
  <2>2. CASE stack # 0
    <3>1. MemOK(c.s.mem)
      BY <1>6 DEF Takes
    <3>2. PICK f : f = c.s.dirs[cur].pages[stack]
      OBVIOUS
    <3>3. PICK d : d = c.dir
      OBVIOUS
    <3>4. e.s = vmmngr_map_page(c.s, d, f, stack)
      BY <1>2, <2>2, <3>2, <3>3 DEF CallerMapped, Share
    <3> QED
      BY <3>1, <3>4, MapTakes
  <2> QED
    BY <2>1, <2>2
<1>8. Takes(e.s.mem, y.mem)
  <2>1. MemOK(e.s.mem)
    BY <1>7 DEF Takes
  <2> QED
    BY <1>4, <2>1, PageTakes
<1> QED
  BY <1>5, <1>6, <1>7, <1>8 DEF Takes, MemOK, Grows

\* All pages: as long as there is no window.
AllPages == Frame \X Pages

\* From s to c.s directory c.dir is new and has no page but stack, and that
\* only as a guest.
Started(s, c, kt, H, stack) ==
    /\ Sound(c.s, kt, H \ {<<c.dir, stack>>}) /\ Grows(s.mem, c.s.mem)
    /\ c.dir \in Frame \ {0} /\ c.dir \notin DOMAIN s.dirs
    /\ DOMAIN c.s.dirs = DOMAIN s.dirs \cup {c.dir}
    /\ \A e \in DOMAIN s.dirs : c.s.dirs[e] = s.dirs[e]
    /\ \A v \in Pages : v # stack => c.s.dirs[c.dir].pages[v] = 0
    /\ Left(c.s.mem) => c.s.dirs[c.dir].pages[stack] # 0

\* A new directory with page stack of directory cur mapped, while the new
\* process is set up.
LEMMA CallerMapSound ==
    ASSUME NEW s, NEW kt, NEW H, Sound(s, kt, H), NEW cur \in DOMAIN s.dirs, Left(s.mem),
           NEW stack \in Pages, stack # 0, s.dirs[cur].pages[stack] # 0,
           NEW c, c = CallerMapped(create_address_space(s, cur), cur, stack)
    PROVE  Started(s, c, kt, H, stack)
<1>1. PICK b : b = create_address_space(s, cur)
  OBVIOUS
<1>2. PICK y : y = b.s
  OBVIOUS
<1>3. PICK d : d = b.dir
  OBVIOUS
<1>4. PICK f : f = y.dirs[cur].pages[stack]
  OBVIOUS
<1>5. PICK z : z = vmmngr_map_page(y, d, f, stack)
  OBVIOUS
<1>6. c.dir = d /\ c.s = z
  BY <1>1, <1>2, <1>3, <1>4, <1>5 DEF CallerMapped, Share
<1>7. /\ Sound(y, kt, H) /\ Grows(s.mem, y.mem)
      /\ d \in Frame \ {0} /\ d \notin DOMAIN s.dirs
      /\ DOMAIN y.dirs = DOMAIN s.dirs \cup {d}
      /\ \A e \in DOMAIN s.dirs : y.dirs[e] = s.dirs[e]
      /\ \A v \in Pages : y.dirs[d].pages[v] = 0
  BY <1>1, <1>2, <1>3, NewSpaceSound
<1>8. Sound(y, kt, H \ {<<d, stack>>})
  <2>1. \A e \in DOMAIN y.dirs, v \in Pages :
            y.dirs[e].pages[v] # 0 => (<<e, v>> \in H <=> <<e, v>> \in H \ {<<d, stack>>})
    BY <1>7
  <2> QED
    BY <1>7, <2>1, OtherOwners
<1>9. f \in Frame \ {0}
  <2>1. cur \in DOMAIN y.dirs /\ f = s.dirs[cur].pages[stack]
    BY <1>4, <1>7
  <2>2. y.dirs[cur] \in Dir
    BY <1>7, <2>1, SoundMem
  <2> QED
    BY <1>4, <2>1, <2>2 DEF Dir
<1>10. Lent(y, z, kt, H \ {<<d, stack>>}, d, stack, f)
  BY <1>5, <1>7, <1>8, <1>9, MapLends
<1>11. y.mem.used \in Int /\ s.mem.used \in Int /\ z.mem.used \in Int
  BY <1>7, <1>10, SoundMem DEF Lent
<1>12. Grows(s.mem, z.mem)
  BY <1>7, <1>10, <1>11 DEF Grows, Lent
<1> QED
  BY <1>6, <1>7, <1>9, <1>10, <1>12 DEF Lent, Started

\* createKernelProcess: a directory with its kernel stack, and nothing else.
LEMMA KernelProcessSound ==
    ASSUME NEW s, NEW kt, Sound(s, kt, AllPages), NEW cur \in DOMAIN s.dirs,
           NEW stack, stack = 0 \/ (stack \in OwnKernelStackArea /\ s.dirs[cur].pages[stack] # 0),
           NEW k \in createKernelProcess(s, cur, stack), Left(k.s.mem)
    PROVE  /\ Sound(k.s, kt, AllPages)
           /\ k.dir \in Frame \ {0} /\ k.dir \notin DOMAIN s.dirs
           /\ DOMAIN k.s.dirs = DOMAIN s.dirs \cup {k.dir}
           /\ \A e \in DOMAIN s.dirs : k.s.dirs[e] = s.dirs[e]
           /\ k.stack \in OwnKernelStackArea
           /\ \A v \in Pages : k.s.dirs[k.dir].pages[v] # 0 <=> v = k.stack
<1>1. PICK c : c = CallerMapped(create_address_space(s, cur), cur, stack)
  OBVIOUS
<1>2. PICK v \in OwnKernelStackArea : k = WithKernelStack(c, stack, v) /\ c.s.dirs[c.dir].pages[v] = 0
  BY <1>1 DEF createKernelProcess, FirstKernelStack, FirstAbsent, vmmngr_check_virt_present
<1>3. PICK d : d = c.dir
  OBVIOUS
<1>4. PICK y : y = c.s
  OBVIOUS
<1>5. PICK z : z = vmmngr_alloc_virt(y, d, v)
  OBVIOUS
<1>6. PICK u : u = CallerUnmapped(z, d, stack)
  OBVIOUS
<1>7. k.dir = d /\ k.stack = v /\ k.s = u
  BY <1>2, <1>3, <1>4, <1>5, <1>6 DEF WithKernelStack
<1>8. v \in Pages /\ 0 \notin OwnKernelStackArea
  BY PageFacts, LayoutAssumption DEF OwnKernelStackArea
<1>9. z.mem = u.mem
  BY <1>6 DEF CallerUnmapped, vmmngr_unmap_virt
<1>10. MemOK(s.mem)
  BY SoundMem DEF MemOK
<1>11. Left(s.mem)
  <2>1. Takes(s.mem, k.s.mem)
    BY <1>10, KernelProcessTakes
  <2> QED
    BY <1>10, <2>1, LeftBefore DEF Takes, MemOK
<1>12. CASE stack = 0
  <2>1. PICK b : b = create_address_space(s, cur)
    OBVIOUS
  <2>5. d = b.dir /\ y = b.s
    BY <1>1, <1>3, <1>4, <1>12, <2>1 DEF CallerMapped
  <2>2. /\ Sound(y, kt, AllPages)
        /\ d \in Frame \ {0} /\ d \notin DOMAIN s.dirs
        /\ DOMAIN y.dirs = DOMAIN s.dirs \cup {d}
        /\ \A e \in DOMAIN s.dirs : y.dirs[e] = s.dirs[e]
        /\ \A w \in Pages : y.dirs[d].pages[w] = 0
    BY <1>11, <2>1, <2>5, NewSpaceSound
  <2>3. Filled(y, z, kt, AllPages, d, {v})
    BY <1>5, <1>8, <2>2, AllocFills DEF AllPages
  <2>4. u = z
    BY <1>6, <1>12 DEF CallerUnmapped
  <2> QED
    BY <1>2, <1>7, <1>8, <2>2, <2>3, <2>4 DEF Filled
<1>13. CASE stack # 0
  <2>1. stack \in OwnKernelStackArea /\ stack \in Pages /\ s.dirs[cur].pages[stack] # 0
    BY <1>13, PageFacts
  <2> DEFINE H == AllPages \ {<<d, stack>>}
  <2>2. /\ Sound(y, kt, H)
        /\ d \in Frame \ {0} /\ d \notin DOMAIN s.dirs
        /\ DOMAIN y.dirs = DOMAIN s.dirs \cup {d}
        /\ \A e \in DOMAIN s.dirs : y.dirs[e] = s.dirs[e]
        /\ \A w \in Pages : w # stack => y.dirs[d].pages[w] = 0
        /\ Left(y.mem) => y.dirs[d].pages[stack] # 0
    <3>1. Started(s, c, kt, AllPages, stack)
      BY <1>1, <1>11, <1>13, <2>1, CallerMapSound
    <3> QED
      BY <1>3, <1>4, <3>1 DEF Started
  <2>3. Left(y.mem)
    <3>1. MemOK(y.mem)
      BY <2>2, SoundMem DEF MemOK
    <3>2. Takes(y.mem, z.mem)
      BY <1>5, <3>1, PageTakes
    <3>3. Left(z.mem)
      BY <1>7, <1>9
    <3> QED
      BY <3>1, <3>2, <3>3, LeftBefore DEF Takes, MemOK
  <2>4. v # stack
    BY <1>2, <1>3, <1>4, <2>2, <2>3
  <2>5. <<d, v>> \in H /\ <<d, stack>> \notin H
    BY <1>8, <2>2, <2>4 DEF AllPages
  <2>6. Filled(y, z, kt, H, d, {v})
    <3> HIDE DEF H
    <3> QED
      BY <1>5, <1>8, <2>2, <2>5, AllocFills
  <2>7. Sound(z, kt, H) /\ d \in DOMAIN z.dirs
    BY <2>2, <2>6 DEF Filled
  <2>8. u = vmmngr_unmap_virt(z, d, stack)
    BY <1>6, <1>13 DEF CallerUnmapped
  <2>9. Lent(z, u, kt, H, d, stack, 0) /\ u.dirs[d].pages[stack] = 0
    <3> HIDE DEF H
    <3> QED
      BY <2>1, <2>5, <2>7, <2>8, Unmapped
  <2>10. Sound(u, kt, H) /\ DOMAIN u.dirs = DOMAIN s.dirs \cup {d}
         /\ (\A e \in DOMAIN s.dirs : u.dirs[e] = s.dirs[e])
         /\ \A w \in Pages : w # v /\ w # stack => u.dirs[d].pages[w] = 0
    <3> HIDE DEF H
    <3> QED
      BY <2>2, <2>6, <2>9 DEF Filled, Lent
  <2>11. u.dirs[d].pages[v] # 0
    <3>1. z.dirs[d].pages[v] # 0
      BY <1>7, <1>9, <2>6 DEF Filled
    <3> HIDE DEF H
    <3> QED
      BY <1>8, <2>4, <2>9, <3>1 DEF Lent
  <2>12. Sound(u, kt, AllPages)
    <3>1. \A e \in DOMAIN u.dirs, w \in Pages :
              u.dirs[e].pages[w] # 0 => (<<e, w>> \in H <=> <<e, w>> \in AllPages)
      BY <2>9
    <3> HIDE DEF H
    <3> QED
      BY <2>10, <3>1, OtherOwners
  <2> QED
    BY <1>7, <1>8, <2>2, <2>9, <2>10, <2>11, <2>12
<1> QED
  BY <1>12, <1>13

\* The kernel's directory, with the frame of the table that all share.
LEMMA KernelSpaceSound ==
    ASSUME NEW c, c = create_address_space([mem |-> BootMap, dirs |-> <<>>], 0),
           NEW z, z = KernelSpace(c), Left(z.mem)
    PROVE  \E kt :
              /\ Sound(z, kt, AllPages)
              /\ c.dir \in Frame \ {0} /\ DOMAIN z.dirs = {c.dir}
              /\ \A v \in Pages : z.dirs[c.dir].pages[v] # 0 => v = OwnKernelStacks
<1>1. PICK a : a = pmmngr_alloc_block(BootMap)
  OBVIOUS
<1>2. PICK d : d = a.frame
  OBVIOUS
<1>3. PICK x : x = c.s
  OBVIOUS
<1>4. PICK y : y = WithTable(x, d, 0)
  OBVIOUS
<1>5. PICK dir : dir = [tables |-> [t \in Tables |-> 0], pages |-> [v \in Pages |-> 0]]
  OBVIOUS
<1>6. /\ c.dir = d /\ x.mem = a.mem
      /\ x.dirs = [e \in {d} |-> dir]
  <2>1. c.dir = d /\ x.mem = a.mem
    BY <1>1, <1>2, <1>3 DEF create_address_space, NewSpace
  <2>2. DOMAIN <<>> = {}
    OBVIOUS
  <2>3. x.dirs = [e \in DOMAIN <<>> \cup {d} |-> IF e = d THEN dir ELSE <<>>[e]]
    BY <1>1, <1>2, <1>3, <1>5 DEF create_address_space, NewSpace
  <2>4. DOMAIN <<>> \cup {d} = {d}
    BY <2>2
  <2> QED
    BY <2>1, <2>3, <2>4
<1>7. z = vmmngr_alloc_virt(y, d, OwnKernelStacks)
  BY <1>3, <1>4, <1>6 DEF KernelSpace
<1>8. MemOK(BootMap)
  BY BootAssumption DEF MemOK
<1>9. Takes(BootMap, x.mem)
  BY <1>1, <1>6, <1>8, AllocTakes
<1>10. Takes(x.mem, y.mem)
  BY <1>4, <1>9, TableTakes DEF Takes
<1>11. Takes(y.mem, z.mem)
  BY <1>7, <1>10, PageTakes DEF Takes
<1>12. Left(y.mem) /\ Left(x.mem) /\ Left(BootMap)
  BY <1>8, <1>9, <1>10, <1>11, LeftBefore DEF Takes, MemOK
<1>13. d \in Frame \ BootMap.map /\ d # 0
       /\ x.mem = [map |-> BootMap.map \cup {d}, used |-> BootMap.used + 1]
  BY <1>1, <1>2, <1>6, <1>8, <1>12, AllocBlock DEF MemOK
<1>14. PICK b : b = pmmngr_alloc_block(x.mem)
  OBVIOUS
<1>15. PICK kt : kt = b.frame
  OBVIOUS
<1>16. kt \in Frame \ x.mem.map /\ kt # 0
       /\ b.mem = [map |-> x.mem.map \cup {kt}, used |-> x.mem.used + 1]
  BY <1>9, <1>12, <1>14, <1>15, AllocBlock DEF Takes, MemOK
<1>17. dir \in Dir /\ (\A t \in Tables : dir.tables[t] = 0) /\ \A v \in Pages : dir.pages[v] = 0
  BY <1>5, FrameFacts DEF Dir
<1>18. DirsOK(x) /\ d \in DOMAIN x.dirs
  BY <1>6, <1>13, <1>17 DEF DirsOK, Dir
<1>19. y.mem = b.mem /\ y.dirs = [x.dirs EXCEPT ![d].tables[0] = kt]
  <2>1. x.dirs[d].tables[0] = 0
    BY <1>6, <1>17, PageFacts
  <2>2. y = GivenTable(x, d, 0, b)
    BY <1>4, <1>14, <2>1 DEF WithTable
  <2> QED
    BY <1>15, <1>16, <2>2 DEF GivenTable
<1>20. Changed(x.dirs, y.dirs, d, Put(x.dirs[d].tables, 0, kt), x.dirs[d].pages)
  BY <1>16, <1>18, <1>19, TableSet, PageFacts
<1>21. /\ DOMAIN y.dirs = {d} /\ y.dirs[d] \in Dir /\ y.dirs[d].tables[0] = kt
       /\ \A t \in Tables : t # 0 => y.dirs[d].tables[t] = 0
       /\ \A v \in Pages : y.dirs[d].pages[v] = 0
  BY <1>6, <1>17, <1>20, PageFacts DEF Changed, Put, Dir
<1> DEFINE B == BootMap.map \cup {kt}
           spot == <<d, "dir", 0>>
           g == [u \in Spot |-> 0]
<1>22. spot \in Spot
  BY <1>13, SpotFacts
<1>23. Owns([map |-> B, used |-> BootMap.used + 1], B, g)
  <2>1. kt \notin BootMap.map /\ kt \in Frame /\ BootMap.map \subseteq Frame
    BY <1>13, <1>16, BootAssumption
  <2>2. Cardinality(B) = Cardinality(BootMap.map) + 1 /\ Cardinality(BootMap.map) \in Nat
    BY <2>1, FrameFacts, FS_AddElement
  <2>3. BootMap.used + 1 - Cardinality(B) = BootMap.used - Cardinality(BootMap.map)
    BY <2>2, BootAssumption
  <2>4. g \in [Spot -> Frame] /\ \A u \in Spot : g[u] = 0
    BY FrameFacts
  <2>5. B \subseteq Frame /\ 0 \in B /\ BootMap.used + 1 \in Int
    BY <2>1, BootAssumption
  <2>6. PICK m : m = [map |-> B, used |-> BootMap.used + 1]
    OBVIOUS
  <2>7. m.map = B /\ m.used = BootMap.used + 1
    BY <2>6
  <2> HIDE DEF B, g
  <2>8. Owns(m, B, g)
    <3>1. m.used - Cardinality(m.map) = BootMap.used - Cardinality(BootMap.map)
      <4>1. Cardinality(m.map) = Cardinality(BootMap.map) + 1
        BY <2>2, <2>7, Zenon
      <4> QED
        BY <2>2, <2>7, <4>1, BootAssumption
    <3>2. m.map \subseteq Frame /\ m.used \in Int /\ 0 \in B /\ B \subseteq m.map
      BY <2>5, <2>7
    <3>3. m.map \ B = {}
      BY <2>7
    <3> QED
      BY <2>4, <3>1, <3>2, <3>3 DEF Owns
  <2> QED
    BY <2>6, <2>8
<1>24. Owns(y.mem, B, [g EXCEPT ![spot] = d])
  <2>1. d \in Frame \ B
    BY <1>13, <1>16
  <2>2. g[spot] = 0
    BY <1>22
  <2>3. y.mem = [map |-> B \cup {d}, used |-> (BootMap.used + 1) + 1]
    <3>1. (BootMap.map \cup {d}) \cup {kt} = B \cup {d}
      OBVIOUS
    <3>2. x.mem.map = BootMap.map \cup {d} /\ x.mem.used = BootMap.used + 1
      BY <1>13
    <3>3. y.mem = [map |-> x.mem.map \cup {kt}, used |-> x.mem.used + 1]
      BY <1>16, <1>19
    <3> HIDE DEF B
    <3> QED
      BY <3>1, <3>2, <3>3
  <2>4. PICK m : m = [map |-> B, used |-> BootMap.used + 1]
    OBVIOUS
  <2>5. m.map = B /\ m.used = BootMap.used + 1
    BY <2>4
  <2> HIDE DEF B, g, spot
  <2>6. Owns([map |-> m.map \cup {d}, used |-> m.used + 1], B, [g EXCEPT ![spot] = d])
    BY <1>22, <1>23, <2>1, <2>2, <2>4, <2>5, Gain
  <2> QED
    BY <2>3, <2>5, <2>6
<1>25. Holding(y, AllPages) = [g EXCEPT ![spot] = d]
  <2>1. ASSUME NEW u \in Spot PROVE At(y, AllPages, u) = IF u = spot THEN d ELSE 0
    <3>1. u = <<u[1], u[2], u[3]>> /\ u[2] \in {"dir", "table", "page"}
      BY SpotFacts
    <3> QED
      BY <1>21, <3>1 DEF At
  <2> QED
    BY <2>1 DEF Holding
<1>26. Sound(y, kt, AllPages)
  <2>1. DirsOK(y)
    BY <1>13, <1>18, <1>20 DEF DirsOK, Changed, Dir
  <2> HIDE DEF g, spot
  <2> QED
    BY <1>16, <1>21, <1>24, <1>25, <2>1 DEF Sound
<1>27. OwnKernelStacks \in Pages
  BY LayoutAssumption DEF Pages
<1>28. Filled(y, z, kt, AllPages, d, {OwnKernelStacks})
  <2>1. d \in DOMAIN y.dirs /\ <<d, OwnKernelStacks>> \in AllPages
    BY <1>13, <1>21, <1>27 DEF AllPages
  <2> QED
    BY <1>7, <1>26, <1>27, <2>1, AllocFills
<1> QED
  BY <1>6, <1>13, <1>21, <1>28 DEF Filled

\* SpaceInit: the launcher, the server and the shell have their own
\* directories, and no page but a kernel stack is mapped.
LEMMA InitInv == SpaceInit => SpaceInv
<1> SUFFICES ASSUME SpaceInit PROVE SpaceInv
  OBVIOUS
<1>1. PICK c : c = create_address_space([mem |-> BootMap, dirs |-> <<>>], 0)
  OBVIOUS
<1>2. PICK z : z = KernelSpace(c)
  OBVIOUS
<1>3. PICK l \in createKernelProcess(z, c.dir, 0) :
      \E w \in createKernelProcess(l.s, c.dir, 0) :
      \E sh \in createKernelProcess(w.s, l.dir, l.stack) :
            /\ spMem = sh.s.mem /\ spDirs = sh.s.dirs /\ Left(spMem)
            /\ spKernel = [winsys |-> w.dir, shell |-> sh.dir, stack |-> sh.stack]
            /\ spCur = sh.dir
  BY <1>1, <1>2 DEF SpaceInit
<1>4. PICK w \in createKernelProcess(l.s, c.dir, 0) :
      \E sh \in createKernelProcess(w.s, l.dir, l.stack) :
            /\ spMem = sh.s.mem /\ spDirs = sh.s.dirs /\ Left(spMem)
            /\ spKernel = [winsys |-> w.dir, shell |-> sh.dir, stack |-> sh.stack]
            /\ spCur = sh.dir
  BY <1>3
<1>5. PICK sh \in createKernelProcess(w.s, l.dir, l.stack) :
            /\ spMem = sh.s.mem /\ spDirs = sh.s.dirs /\ Left(spMem)
            /\ spKernel = [winsys |-> w.dir, shell |-> sh.dir, stack |-> sh.stack]
            /\ spCur = sh.dir
  BY <1>4
<1>6. /\ spProcs = [p \in Slot |-> NoProc] /\ spWins = <<>>
      /\ Winsys = w.dir /\ Shell = sh.dir /\ spKernel.stack = sh.stack
  BY <1>5 DEF SpaceInit, Winsys, Shell
<1>7. Takes(l.s.mem, w.s.mem) /\ Takes(w.s.mem, sh.s.mem) /\ MemOK(l.s.mem) /\ MemOK(z.mem)
      /\ Takes(z.mem, l.s.mem)
  <2>1. MemOK(c.s.mem)
    <3>1. MemOK(BootMap)
      BY BootAssumption DEF MemOK
    <3>2. PICK a : a = pmmngr_alloc_block(BootMap)
      OBVIOUS
    <3>3. c.s.mem = a.mem
      BY <1>1, <3>2 DEF create_address_space, NewSpace
    <3> QED
      BY <3>1, <3>2, <3>3, AllocTakes DEF Takes
  <2>2. MemOK(z.mem)
    <3>1. PICK y : y = WithTable(c.s, c.dir, 0)
      OBVIOUS
    <3>2. MemOK(y.mem)
      BY <2>1, <3>1, TableTakes DEF Takes
    <3>3. z = vmmngr_alloc_virt(y, c.dir, OwnKernelStacks)
      BY <1>2, <3>1 DEF KernelSpace
    <3> QED
      BY <3>2, <3>3, PageTakes DEF Takes
  <2>3. Takes(z.mem, l.s.mem)
    BY <2>2, KernelProcessTakes
  <2>4. Takes(l.s.mem, w.s.mem)
    BY <2>3, KernelProcessTakes DEF Takes
  <2>5. Takes(w.s.mem, sh.s.mem)
    BY <2>4, KernelProcessTakes DEF Takes
  <2> QED
    BY <2>2, <2>3, <2>4, <2>5 DEF Takes
<1>8. Left(sh.s.mem) /\ Left(w.s.mem) /\ Left(l.s.mem) /\ Left(z.mem)
  BY <1>5, <1>7, LeftBefore DEF Takes, MemOK
<1>9. PICK kt : /\ Sound(z, kt, AllPages)
                /\ c.dir \in Frame \ {0} /\ DOMAIN z.dirs = {c.dir}
                /\ \A v \in Pages : z.dirs[c.dir].pages[v] # 0 => v = OwnKernelStacks
  BY <1>1, <1>2, <1>8, KernelSpaceSound
<1>10. /\ Sound(l.s, kt, AllPages) /\ l.dir \notin {c.dir}
       /\ DOMAIN l.s.dirs = {c.dir, l.dir}
       /\ l.s.dirs[c.dir] = z.dirs[c.dir]
       /\ l.stack \in OwnKernelStackArea
       /\ \A v \in Pages : l.s.dirs[l.dir].pages[v] # 0 <=> v = l.stack
  BY <1>8, <1>9, KernelProcessSound
<1>11. /\ Sound(w.s, kt, AllPages) /\ w.dir \notin {c.dir, l.dir}
       /\ DOMAIN w.s.dirs = {c.dir, l.dir, w.dir}
       /\ w.s.dirs[c.dir] = z.dirs[c.dir] /\ w.s.dirs[l.dir] = l.s.dirs[l.dir]
       /\ w.stack \in OwnKernelStackArea
       /\ \A v \in Pages : w.s.dirs[w.dir].pages[v] # 0 <=> v = w.stack
  BY <1>8, <1>10, KernelProcessSound
<1>12. /\ Sound(sh.s, kt, AllPages) /\ sh.dir \notin {c.dir, l.dir, w.dir}
       /\ DOMAIN sh.s.dirs = {c.dir, l.dir, w.dir, sh.dir}
       /\ sh.s.dirs[c.dir] = z.dirs[c.dir] /\ sh.s.dirs[l.dir] = l.s.dirs[l.dir]
       /\ sh.s.dirs[w.dir] = w.s.dirs[w.dir]
       /\ sh.stack \in OwnKernelStackArea
       /\ \A v \in Pages : sh.s.dirs[sh.dir].pages[v] # 0 <=> v = sh.stack
  <2>1. l.dir \in DOMAIN w.s.dirs /\ w.s.dirs[l.dir].pages[l.stack] # 0
    BY <1>10, <1>11, PageFacts
  <2> QED
    BY <1>8, <1>10, <1>11, <2>1, KernelProcessSound
<1>13. Space.mem = sh.s.mem /\ Space.dirs = sh.s.dirs
  BY <1>5 DEF Space
<1>14. Sound(Space, kt, AllPages)
  <2>1. Holding(Space, AllPages) = Holding(sh.s, AllPages)
    BY <1>13 DEF Holding, At
  <2> QED
    BY <1>12, <1>13, <2>1 DEF Sound, DirsOK
<1>15. Sound(Space, kt, Steady(Winsys))
  <2>1. \A d \in DOMAIN Space.dirs, v \in Pages :
            Space.dirs[d].pages[v] # 0 => v \in OwnKernelStackArea
    <3>1. OwnKernelStacks \in OwnKernelStackArea
      BY LayoutAssumption DEF OwnKernelStackArea
    <3> QED
      BY <1>9, <1>10, <1>11, <1>12, <1>13, <3>1
  <2>2. OwnKernelStackArea \cap WindowArea = {}
    BY LayoutAssumption DEF OwnKernelStackArea, WindowArea
  <2>3. \A d \in DOMAIN Space.dirs : d \in Frame
    BY <1>14, SoundMem
  <2>4. \A d \in DOMAIN Space.dirs, v \in Pages :
            Space.dirs[d].pages[v] # 0 => (<<d, v>> \in AllPages <=> <<d, v>> \in Steady(Winsys))
    BY <2>1, <2>2, <2>3 DEF AllPages, Steady
  <2> QED
    BY <1>14, <2>4, OtherOwners
<1>16. KernelTable = kt
  BY <1>6, <1>12, <1>13, <1>14, SoundMem DEF KernelTable, Space
<1>17. KernelOK(spKernel, spDirs)
  <2>1. spDirs = sh.s.dirs
    BY <1>5
  <2>2. spKernel.winsys = w.dir /\ spKernel.shell = sh.dir
    BY <1>5
  <2>3. sh.stack \in Pages
    BY <1>12, PageFacts
  <2> QED
    BY <1>6, <1>12, <2>1, <2>2, <2>3 DEF KernelOK
<1>18. spCur \in DOMAIN spDirs
  BY <1>5, <1>12
<1>19. \A p \in Slot : spProcs[p].state = "none"
  BY <1>6 DEF NoProc
<1>20. \A p \in Slot : ProcOK(spProcs[p], spDirs, Winsys, Shell)
  BY <1>6, <1>19 DEF ProcOK, IsProc, NoProc
<1>21. WinsOK(spWins)
  <2>1. spWins \in Seq({})
    BY <1>6
  <2> QED
    BY <2>1 DEF WinsOK
<1>22. spProcs = [p \in Slot |-> spProcs[p]]
  BY <1>6
<1> QED
  BY <1>15, <1>16, <1>17, <1>18, <1>19, <1>20, <1>21, <1>22 DEF SpaceInv
-----------------------------------------------------------------------------
(***************************************************************************)
(* Threads' stacks and windows' buffers                                    *)
(***************************************************************************)
\* create_user_stack and create_user_kernel_stack find pages that were
\* absent.
LEMMA StacksFill ==
    ASSUME NEW s, NEW kt, NEW H, Sound(s, kt, H), NEW d \in DOMAIN s.dirs,
           \A v \in UserStackArea \cup KernelStackArea :
               <<d, v>> \in H \/ s.dirs[d].pages[v] # 0,
           NEW k \in WithStacks(s, d)
    PROVE  /\ k.thread \in [user : UserStackArea, kernel : KernelStackArea]
           /\ Filled(s, k.s, kt, H, d, {k.thread.user, k.thread.kernel})
           /\ s.dirs[d].pages[k.thread.user] = 0 /\ s.dirs[d].pages[k.thread.kernel] = 0
<1>1. PICK us \in UserStackArea : s.dirs[d].pages[us] = 0
              /\ k \in AndKernelStack(vmmngr_alloc_virt(s, d, us), d, us)
  BY DEF WithStacks, create_user_stack, LastAbsent, vmmngr_check_virt_present
<1>2. PICK y : y = vmmngr_alloc_virt(s, d, us)
  OBVIOUS
<1>3. PICK ks \in KernelStackArea : y.dirs[d].pages[ks] = 0 /\ k = ThreadAt(y, d, us, ks)
  BY <1>1, <1>2 DEF AndKernelStack, FirstAbsent, vmmngr_check_virt_present
<1>4. PICK z : z = vmmngr_alloc_virt(y, d, ks)
  OBVIOUS
<1>5. k.s = z /\ k.thread = [user |-> us, kernel |-> ks]
  BY <1>3, <1>4 DEF ThreadAt
<1>6. us \in Pages /\ ks \in Pages /\ <<d, us>> \in H
  BY <1>1, PageFacts
<1>7. Filled(s, y, kt, H, d, {us})
  BY <1>2, <1>6, AllocFills
<1>8. s.dirs[d].pages[ks] = 0
  BY <1>3, <1>6, <1>7 DEF Filled
<1>9. <<d, ks>> \in H /\ Sound(y, kt, H) /\ d \in DOMAIN y.dirs
  BY <1>7, <1>8 DEF Filled
<1>10. Filled(y, z, kt, H, d, {ks})
  BY <1>4, <1>6, <1>9, AllocFills
<1>11. Filled(s, z, kt, H, d, {us} \cup {ks})
  BY <1>6, <1>7, <1>10, FilledMore
<1>12. {us} \cup {ks} = {us, ks}
  OBVIOUS
<1>13. Filled(s, z, kt, H, d, {us, ks})
  BY <1>11, <1>12, Zenon
<1> QED
  BY <1>1, <1>5, <1>8, <1>13

\* From s to z page v of d is a guest's, and page w of e has its frame.
Handed(s, z, kt, H, d, v, e, w) ==
    /\ Sound(z, kt, H \ {<<d, v>>}) /\ Grows(s.mem, z.mem)
    /\ DOMAIN z.dirs = DOMAIN s.dirs
    /\ \A x \in DOMAIN s.dirs : x # e => z.dirs[x] = s.dirs[x]
    /\ \A u \in Pages : u # w => z.dirs[e].pages[u] = s.dirs[e].pages[u]

\* vmmngr_mmap_virt2virt of a page to a page that is absent: the receiver
\* owns the frame now.
LEMMA ShareMoves ==
    ASSUME NEW s, NEW kt, NEW H, Sound(s, kt, H), NEW d \in DOMAIN s.dirs, NEW v \in Pages,
           <<d, v>> \in H, NEW e \in DOMAIN s.dirs, e # d, NEW w \in Pages, <<e, w>> \in H,
           s.dirs[e].pages[w] = 0, NEW z, z = Share(s, d, v, e, w), Left(z.mem)
    PROVE  Handed(s, z, kt, H, d, v, e, w)
<1>1. PICK f : f = s.dirs[d].pages[v]
  OBVIOUS
<1>2. PICK y : y = WithTable(s, e, TableOf(w))
  OBVIOUS
<1>3. z = Mapped(y, e, f, w)
  BY <1>1, <1>2 DEF Share, vmmngr_map_page
<1>4. Filled(s, y, kt, H, e, {}) /\ (Left(y.mem) => y.dirs[e].tables[TableOf(w)] # 0)
  BY <1>2, WithTableFills, PageFacts
<1>5. z.mem = y.mem
  BY <1>3 DEF Mapped
<1>6. HasTable(y, e, w)
  BY <1>4, <1>5 DEF HasTable
<1>7. z.dirs = [y.dirs EXCEPT ![e].pages[w] = f]
  BY <1>3, <1>6 DEF Mapped
<1>8. /\ Sound(y, kt, H) /\ Grows(s.mem, y.mem) /\ DOMAIN y.dirs = DOMAIN s.dirs
      /\ \A x \in DOMAIN s.dirs : x # e => y.dirs[x] = s.dirs[x]
      /\ \A u \in Pages : y.dirs[e].pages[u] = s.dirs[e].pages[u]
  BY <1>4 DEF Filled
<1>9. DirsOK(y) /\ y.dirs[e] \in Dir /\ e \in Frame /\ d \in Frame
      /\ \A x \in DOMAIN y.dirs : y.dirs[x].tables[0] = kt
  BY <1>8, SoundMem
<1>10. f = y.dirs[d].pages[v] /\ f \in Frame
  <2>1. f = y.dirs[d].pages[v] /\ y.dirs[d] \in Dir
    BY <1>1, <1>8, SoundMem
  <2> QED
    BY <2>1 DEF Dir
<1>11. Changed(y.dirs, z.dirs, e, y.dirs[e].tables, Put(y.dirs[e].pages, w, f))
  BY <1>7, <1>8, <1>9, <1>10, PageSet
<1>12. \A u \in Pages : z.dirs[e].pages[u] = IF u = w THEN f ELSE y.dirs[e].pages[u]
  BY <1>9, <1>11 DEF Changed, Put, Dir
<1> DEFINE from == <<d, "page", v>>
           to == <<e, "page", w>>
           g == Holding(y, H)
           h == [u \in Spot |-> IF u = from THEN 0 ELSE IF u = to THEN g[from] ELSE g[u]]
<1>13. from \in Spot /\ to \in Spot /\ from # to /\ g[from] = f /\ g[to] = 0
  BY <1>8, <1>9, <1>10, SpotFacts DEF Holding, At
<1>14. Owns(y.mem, BootMap.map \cup {kt}, h)
  <2>1. Owns(y.mem, BootMap.map \cup {kt}, g)
    BY <1>8 DEF Sound
  <2> HIDE DEF g, from, to
  <2> QED
    BY <1>13, <2>1, Move
<1>15. Holding(z, H \ {<<d, v>>}) = h
  <2>1. ASSUME NEW u \in Spot
        PROVE  At(z, H \ {<<d, v>>}, u) =
                   IF u = from THEN 0 ELSE IF u = to THEN f ELSE At(y, H, u)
    <3>1. u = <<u[1], u[2], u[3]>> /\ u[2] \in {"dir", "table", "page"}
      BY SpotFacts
    <3>2. DOMAIN z.dirs = DOMAIN y.dirs
          /\ (\A x \in DOMAIN y.dirs : x # e => z.dirs[x] = y.dirs[x])
          /\ z.dirs[e].tables = y.dirs[e].tables
      BY <1>11 DEF Changed
    <3>3. CASE u[2] = "dir"
      BY <3>1, <3>2, <3>3 DEF At
    <3>4. CASE u[2] = "table"
      <4>1. At(z, H \ {<<d, v>>}, u) = At(y, H, u)
        BY <3>2, <3>4 DEF At
      <4> QED
        BY <3>1, <3>4, <4>1
    <3>5. CASE u[2] = "page"
      <4>1. CASE u[1] = e
        <5>1. u = to <=> u[3] = w
          BY <3>1, <3>5, <4>1
        <5>2. u # from /\ (<<u[1], u[3]>> \in H \ {<<d, v>>} <=> <<u[1], u[3]>> \in H)
          BY <3>1, <4>1
        <5> HIDE DEF from, to
        <5> QED
          BY <1>8, <1>12, <3>2, <3>5, <4>1, <5>1, <5>2 DEF At
      <4>2. CASE u[1] # e
        <5>1. u # to /\ (u = from <=> u[1] = d /\ u[3] = v)
          BY <3>1, <3>5, <4>2
        <5>2. <<u[1], u[3]>> \in H \ {<<d, v>>} <=> <<u[1], u[3]>> \in H /\ u # from
          BY <3>1, <5>1
        <5> HIDE DEF from, to
        <5> QED
          BY <3>2, <3>5, <4>2, <5>1, <5>2 DEF At
      <4> QED
        BY <4>1, <4>2
    <3> QED
      BY <3>1, <3>3, <3>4, <3>5
  <2>2. \A u \in Spot : g[u] = At(y, H, u)
    BY DEF Holding
  <2> HIDE DEF g, from, to
  <2> QED
    BY <1>13, <2>1, <2>2 DEF Holding
<1>16. DirsOK(z) /\ \A x \in DOMAIN z.dirs : z.dirs[x].tables[0] = kt
  <2>1. DirsOK(z)
    BY <1>9, <1>11 DEF Changed, DirsOK, Dir
  <2> QED
    BY <1>8, <1>9, <1>11, <2>1 DEF Changed
<1>17. Sound(z, kt, H \ {<<d, v>>})
  <2> HIDE DEF h
  <2> QED
    BY <1>5, <1>8, <1>14, <1>15, <1>16 DEF Sound
<1> QED
  BY <1>5, <1>8, <1>11, <1>12, <1>17 DEF Changed, Handed
-----------------------------------------------------------------------------
(***************************************************************************)
(* Steps of processes                                                      *)
(***************************************************************************)
\* Soundness is about the memory and the directories only.
LEMMA SoundSame ==
    ASSUME NEW s, NEW z, NEW kt, NEW H, Sound(s, kt, H), z.mem = s.mem, z.dirs = s.dirs
    PROVE  Sound(z, kt, H)
<1>1. Holding(z, H) = Holding(s, H)
  BY DEF Holding, At
<1> QED
  BY <1>1 DEF Sound, DirsOK

\* A process whose directory is the same.
LEMMA ProcSame ==
    ASSUME NEW q, NEW dirs, NEW after, NEW w, NEW sh, ProcOK(q, dirs, w, sh),
           q.state # "none" => q.dir \in DOMAIN after /\ after[q.dir] = dirs[q.dir]
    PROVE  ProcOK(q, after, w, sh)
BY DEF ProcOK

\* What a step has to keep.
LEMMA NextSpace ==
    ASSUME SpaceInv, NEW s, BecomesSpace(s), spKernel' = spKernel,
           Sound(s, KernelTable, Steady(Winsys)),
           Winsys \in DOMAIN s.dirs, Shell \in DOMAIN s.dirs, s.dirs[Shell] = spDirs[Shell],
           spCur' \in DOMAIN s.dirs, WinsOK(spWins'),
           spProcs' = [p \in Slot |-> spProcs'[p]],
           \A p \in Slot : ProcOK(spProcs'[p], s.dirs, Winsys, Shell),
           \A p, q \in Slot : /\ p # q /\ spProcs'[p].state # "none" /\ spProcs'[q].state # "none"
                              => spProcs'[p].dir # spProcs'[q].dir
    PROVE  SpaceInv'
<1>1. spMem' = s.mem /\ spDirs' = s.dirs
  BY DEF BecomesSpace
<1>2. Winsys' = Winsys /\ Shell' = Shell
  BY DEF Winsys, Shell
<1>3. Space'.mem = s.mem /\ Space'.dirs = s.dirs
  BY <1>1 DEF Space
<1>4. KernelTable' = KernelTable
  <2>1. s.dirs[Winsys].tables[0] = KernelTable
    BY SoundMem
  <2> QED
    BY <1>1, <1>2, <2>1 DEF KernelTable
<1>5. Sound(Space', KernelTable', Steady(Winsys'))
  <2>1. Sound(Space', KernelTable, Steady(Winsys))
    BY <1>3, SoundSame
  <2> QED
    BY <1>2, <1>4, <2>1
<1>6. KernelOK(spKernel', spDirs')
  BY <1>1 DEF SpaceInv, KernelOK, Winsys, Shell
<1>7. \A p \in Slot : ProcOK(spProcs'[p], spDirs', Winsys', Shell')
  BY <1>1, <1>2
<1> QED
  BY <1>1, <1>2, <1>3, <1>5, <1>6, <1>7 DEF SpaceInv

\* A step of process p, which becomes q, in its directory d and in windows
\* of the server.
ProcessStep(p, q, d, s) ==
    /\ BecomesSpace(s) /\ spKernel' = spKernel /\ spCur' = spCur /\ WinsOK(spWins')
    /\ spProcs' = [spProcs EXCEPT ![p] = q]
    /\ Sound(s, KernelTable, Steady(Winsys))
    /\ IF spProcs[p].state = "none" THEN d \notin DOMAIN spDirs ELSE d = spProcs[p].dir
    /\ \A e \in DOMAIN spDirs : e # d /\ e # Winsys => e \in DOMAIN s.dirs /\ s.dirs[e] = spDirs[e]
    /\ Winsys \in DOMAIN s.dirs
    /\ spCur = d => d \in DOMAIN s.dirs
    /\ ProcOK(q, s.dirs, Winsys, Shell)
    /\ q.state # "none" => q.dir = d

\* A step that leaves the loaded directory and changes one process and what its
\* directory holds keeps the invariant.
LEMMA NextProcess ==
    ASSUME SpaceInv, NEW p \in Slot, NEW q, NEW d, NEW s, ProcessStep(p, q, d, s)
    PROVE  SpaceInv'
<1> USE DEF ProcessStep
<1>1. /\ KernelOK(spKernel, spDirs) /\ spCur \in DOMAIN spDirs
      /\ \A r \in Slot : ProcOK(spProcs[r], spDirs, Winsys, Shell)
      /\ \A r, t \in Slot : /\ r # t /\ spProcs[r].state # "none" /\ spProcs[t].state # "none"
                            => spProcs[r].dir # spProcs[t].dir
      /\ spProcs = [r \in Slot |-> spProcs[r]]
  BY DEF SpaceInv
<1>2. Winsys \in DOMAIN spDirs /\ Shell \in DOMAIN spDirs /\ Shell # Winsys
  BY <1>1 DEF KernelOK, Winsys, Shell
<1>3. d # Shell /\ d # Winsys
  BY <1>1, <1>2 DEF ProcOK
<1>4. Shell \in DOMAIN s.dirs /\ s.dirs[Shell] = spDirs[Shell]
  BY <1>2, <1>3
<1>5. spCur' \in DOMAIN s.dirs
  BY <1>1
<1>6. spProcs' = [r \in Slot |-> spProcs'[r]] /\ spProcs'[p] = q
      /\ \A r \in Slot : r # p => spProcs'[r] = spProcs[r]
  BY <1>1
<1>7. ASSUME NEW r \in Slot, r # p, spProcs[r].state # "none"
      PROVE  spProcs[r].dir # d /\ spProcs[r].dir # Winsys /\ spProcs[r].dir \in DOMAIN spDirs
  BY <1>1, <1>7 DEF ProcOK
<1>8. ASSUME NEW r \in Slot, r # p PROVE ProcOK(spProcs'[r], s.dirs, Winsys, Shell)
  <2>1. spProcs[r].state # "none" =>
            spProcs[r].dir \in DOMAIN s.dirs /\ s.dirs[spProcs[r].dir] = spDirs[spProcs[r].dir]
    BY <1>7, <1>8
  <2>2. ProcOK(spProcs[r], s.dirs, Winsys, Shell)
    BY <1>1, <2>1, ProcSame
  <2> QED
    BY <1>6, <1>8, <2>2
<1>9. \A r \in Slot : ProcOK(spProcs'[r], s.dirs, Winsys, Shell)
  BY <1>6, <1>8
<1>10. \A r, t \in Slot : /\ r # t /\ spProcs'[r].state # "none" /\ spProcs'[t].state # "none"
                          => spProcs'[r].dir # spProcs'[t].dir
  BY <1>1, <1>6, <1>7
<1> QED
  BY <1>2, <1>4, <1>5, <1>6, <1>9, <1>10, NextSpace
-----------------------------------------------------------------------------
(***************************************************************************)
(* createProcess                                                           *)
(***************************************************************************)
LEMMA TakesMore ==
    ASSUME NEW m, NEW n, NEW o, Takes(m, n), Takes(n, o), MemOK(m)
    PROVE  Takes(m, o)
BY DEF Takes, MemOK, Grows

\* Nothing done takes nothing.
LEMMA TakesNone ==
    ASSUME NEW m, MemOK(m)
    PROVE  Takes(m, m)
BY DEF Takes, MemOK, Grows

\* What is left at the end was left before.
LEMMA TakesLeft ==
    ASSUME NEW m, NEW n, MemOK(m), Takes(m, n), Left(n)
    PROVE  Left(m)
BY LeftBefore DEF Takes, MemOK

\* A directory with the creator's stack only takes memory,
LEMMA CallerTakes ==
    ASSUME NEW s, MemOK(s.mem), NEW cur, NEW stack,
           NEW c, c = CallerMapped(create_address_space(s, cur), cur, stack)
    PROVE  Takes(s.mem, c.s.mem)
<1>1. PICK b : b = create_address_space(s, cur)
  OBVIOUS
<1>2. Takes(s.mem, b.s.mem)
  BY <1>1, AllocTakes DEF create_address_space, NewSpace
<1>3. PICK y : y = b.s
  OBVIOUS
<1>4. PICK d : d = b.dir
  OBVIOUS
<1>5. PICK f : f = y.dirs[cur].pages[stack]
  OBVIOUS
<1>6. c.s = y \/ c.s = vmmngr_map_page(y, d, f, stack)
  BY <1>1, <1>3, <1>4, <1>5 DEF CallerMapped, Share
<1>7. MemOK(y.mem)
  BY <1>2, <1>3 DEF Takes
<1>8. Takes(y.mem, c.s.mem)
  BY <1>6, <1>7, MapTakes, TakesNone
<1> QED
  BY <1>2, <1>3, <1>8, TakesMore

\* as does the loop over pages,
LEMMA AllocPagesTakes ==
    ASSUME NEW s, MemOK(s.mem), NEW d, NEW from \in Nat, NEW to \in Int
    PROVE  Takes(s.mem, AllocPages(s, d, from, to).mem)
<1>1. CASE to < from
  BY <1>1, TakesNone DEF AllocPages
<1>2. CASE ~(to < from)
  <2>1. PICK f : /\ PageLoop(f, s, d, from, to)
                 /\ AllocPages(s, d, from, to) = f[to]
    <3>1. PICK f : f = CHOOSE g : PageLoop(g, s, d, from, to)
      OBVIOUS
    <3>2. PageLoop(f, s, d, from, to)
      <4>1. to \in Nat
        BY <1>2
      <4>2. \E h : PageLoop(h, s, d, from, to)
        BY <4>1, PageLoopExists
      <4> QED
        BY <3>1, <4>2, Zenon
    <3>3. AllocPages(s, d, from, to) = f[to]
      BY <1>2, <3>1 DEF AllocPages, PageLoop
    <3> QED
      BY <3>2, <3>3
  <2> DEFINE Good == {v \in from - 1 .. to : Takes(s.mem, f[v].mem)}
  <2>2. from - 1 \in Good
    <3>1. f[from - 1] = s
      BY <1>2, <2>1 DEF PageLoop
    <3> QED
      BY <1>2, <3>1, TakesNone
  <2>3. ASSUME NEW v \in from - 1 .. to - 1, v \in Good PROVE v + 1 \in Good
    <3>1. PICK y : y = f[v]
      OBVIOUS
    <3>2. PICK z : z = vmmngr_alloc_virt(y, d, v + 1)
      OBVIOUS
    <3>3. f[v + 1] = z
      BY <2>1, <3>1, <3>2 DEF PageLoop
    <3>4. Takes(s.mem, y.mem)
      BY <2>3, <3>1
    <3>5. Takes(y.mem, z.mem)
      BY <3>2, <3>4, PageTakes DEF Takes
    <3>6. Takes(s.mem, z.mem)
      BY <3>4, <3>5, TakesMore
    <3> QED
      BY <3>3, <3>6
  <2> HIDE DEF Good
  <2>4. \A v \in from - 1 .. to : v \in Good
    BY <2>2, <2>3, IntervalInduction
  <2>5. to \in Good
    BY <1>2, <2>4
  <2> QED
    BY <2>1, <2>5 DEF Good
<1> QED
  BY <1>1, <1>2

\* the loader
LEMMA LoadTakes ==
    ASSUME NEW s, MemOK(s.mem), NEW d, NEW x \in Images
    PROVE  Takes(s.mem, load_executable(s, d, x).mem)
<1>1. PICK len : len = Len(x.sections)
  OBVIOUS
<1>2. /\ len \in Nat
      /\ \A i \in 1 .. len : SectionFrom(x, x.sections[i]) \in Nat /\ SectionTo(x, x.sections[i]) \in Nat
  BY <1>1, ImageFacts
<1>3. PICK f : SectionLoop(f, s, d, x, len) /\ load_executable(s, d, x) = f[len]
  <2>1. PICK f : f = CHOOSE g : SectionLoop(g, s, d, x, len)
    OBVIOUS
  <2>2. SectionLoop(f, s, d, x, len)
    <3>1. \E h : SectionLoop(h, s, d, x, len)
      BY <1>2, SectionLoopExists
    <3> QED
      BY <2>1, <3>1, Zenon
  <2>3. load_executable(s, d, x) = f[len]
    BY <1>1, <2>1 DEF load_executable, SectionLoop
  <2> QED
    BY <2>2, <2>3
<1> DEFINE Good == {i \in 0 .. len : Takes(s.mem, f[i].mem)}
<1>4. 0 \in Good
  <2>1. f[0] = s
    BY <1>2, <1>3 DEF SectionLoop
  <2> QED
    BY <1>2, <2>1, TakesNone
<1>5. ASSUME NEW i \in 0 .. len - 1, i \in Good PROVE i + 1 \in Good
  <2>1. PICK y : y = f[i]
    OBVIOUS
  <2>2. i + 1 \in 1 .. len
    BY <1>2
  <2>3. PICK z : z = AllocPages(y, d, SectionFrom(x, x.sections[i + 1]),
                                SectionTo(x, x.sections[i + 1]))
    OBVIOUS
  <2>4. f[i + 1] = z
    <3>1. i + 1 \in 0 .. len /\ i + 1 # 0 /\ (i + 1) - 1 = i
      BY <1>2
    <3>2. f[i + 1] = LoadSection(f[i], d, x, x.sections[i + 1])
      BY <1>3, <3>1 DEF SectionLoop
    <3> QED
      BY <2>1, <2>3, <3>2 DEF LoadSection
  <2>5. Takes(s.mem, y.mem)
    BY <1>5, <2>1
  <2>6. Takes(y.mem, z.mem)
    <3>1. SectionFrom(x, x.sections[i + 1]) \in Nat /\ SectionTo(x, x.sections[i + 1]) \in Int
      BY <1>2, <2>2
    <3> QED
      BY <2>3, <2>5, <3>1, AllocPagesTakes DEF Takes
  <2>7. Takes(s.mem, z.mem)
    BY <2>5, <2>6, TakesMore
  <2> QED
    BY <1>2, <2>2, <2>4, <2>7
<1> HIDE DEF Good
<1>6. \A i \in 0 .. len : i \in Good
  BY <1>2, <1>4, <1>5, IntervalInduction
<1>7. len \in Good
  BY <1>2, <1>6
<1> QED
  BY <1>2, <1>3, <1>7 DEF Good

\* and a thread's two stacks.
LEMMA StacksTake ==
    ASSUME NEW s, MemOK(s.mem), NEW d, NEW k \in WithStacks(s, d)
    PROVE  Takes(s.mem, k.s.mem)
<1>1. PICK us : k \in AndKernelStack(vmmngr_alloc_virt(s, d, us), d, us)
  BY DEF WithStacks
<1>2. PICK y : y = vmmngr_alloc_virt(s, d, us)
  OBVIOUS
<1>3. PICK ks : k = ThreadAt(y, d, us, ks)
  BY <1>1, <1>2 DEF AndKernelStack
<1>4. PICK z : z = vmmngr_alloc_virt(y, d, ks)
  OBVIOUS
<1>5. k.s = z
  BY <1>3, <1>4 DEF ThreadAt
<1>6. Takes(s.mem, y.mem)
  BY <1>2, PageTakes
<1>7. Takes(y.mem, z.mem)
  BY <1>4, <1>6, PageTakes DEF Takes
<1> QED
  BY <1>5, <1>6, <1>7, TakesMore

\* Stacks, images and kernel stacks belong to their directory, windows to
\* the server.
LEMMA AreaFacts ==
    /\ \A w : \A d \in Frame, v \in UserStackArea \cup KernelStackArea \cup OwnKernelStackArea :
           <<d, v>> \in Steady(w)
    /\ \A w \in Frame, v \in Pages : <<w, v>> \in Steady(w)
    /\ \A w : \A d \in Frame, v \in WindowArea : <<d, v>> \in Steady(w) => d = w
    /\ UserStackArea \cap KernelStackArea = {} /\ UserStackArea \cap OwnKernelStackArea = {}
    /\ UserStackArea \cap WindowArea = {} /\ KernelStackArea \cap WindowArea = {}
    /\ OwnKernelStackArea \cap WindowArea = {}
    /\ 0 \notin UserStackArea /\ 0 \notin KernelStackArea /\ 0 \notin OwnKernelStackArea
<1>1. /\ UserStackArea \cap KernelStackArea = {} /\ UserStackArea \cap OwnKernelStackArea = {}
      /\ UserStackArea \cap WindowArea = {} /\ KernelStackArea \cap WindowArea = {}
      /\ OwnKernelStackArea \cap WindowArea = {}
      /\ 0 \notin UserStackArea /\ 0 \notin KernelStackArea /\ 0 \notin OwnKernelStackArea
  BY LayoutAssumption DEF UserStackArea, KernelStackArea, OwnKernelStackArea, WindowArea
<1> QED
  BY <1>1, PageFacts DEF Steady

\* The calling thread's kernel stack is mapped where it runs.
LEMMA CallerStackFacts ==
    ASSUME SpaceInv, NEW stack \in CallerStacks
    PROVE  stack \in KernelStackArea \cup OwnKernelStackArea /\ spDirs[spCur].pages[stack] # 0
<1>1. CASE spCur = Shell
  BY <1>1 DEF CallerStacks, SpaceInv, KernelOK, Shell
<1>2. CASE spCur # Shell
  <2>1. PICK q \in Slot : Running(q) /\ \E t \in spProcs[q].threads : stack = t.kernel
    BY <1>2 DEF CallerStacks
  <2>2. ProcOK(spProcs[q], spDirs, Winsys, Shell) /\ spProcs[q].state = "active"
        /\ spCur = spProcs[q].dir
    BY <2>1 DEF SpaceInv, Running
  <2>3. spProcs[q].threads \subseteq [user : UserStackArea, kernel : KernelStackArea]
        /\ \A t \in spProcs[q].threads : spDirs[spProcs[q].dir].pages[t.kernel] # 0
    BY <2>2 DEF ProcOK
  <2> QED
    BY <2>1, <2>2, <2>3
<1> QED
  BY <1>1, <1>2

\* createProcess: the new directory has the image, the stacks and nothing of
\* the caller's any more.
LEMMA CreateInv ==
    ASSUME SpaceInv, NEW p \in Slot, NEW image \in Images, createProcess(p, image)
    PROVE  SpaceInv'
<1>1. PICK stack \in CallerStacks :
         \E c \in {CallerMapped(create_address_space(Space, spCur), spCur, stack)} :
         \E k \in WithStacks(load_executable(c.s, c.dir, image), c.dir) :
            /\ Left(k.s.mem)
            /\ BecomesSpace(vmmngr_unmap_virt(k.s, c.dir, stack))
            /\ spProcs' = [spProcs EXCEPT ![p] =
                   [state |-> "active", pid |-> getFreeID, dir |-> c.dir, image |-> image,
                    brk |-> image.base + image.size, threads |-> {k.thread}]]
  BY DEF createProcess
<1>2. PICK c : c = CallerMapped(create_address_space(Space, spCur), spCur, stack)
  OBVIOUS
<1>3. PICK d : d = c.dir
  OBVIOUS
<1>4. PICK x : x = c.s
  OBVIOUS
<1>5. PICK y : y = load_executable(x, d, image)
  OBVIOUS
<1>6. PICK k \in WithStacks(y, d) :
            /\ Left(k.s.mem)
            /\ BecomesSpace(vmmngr_unmap_virt(k.s, d, stack))
            /\ spProcs' = [spProcs EXCEPT ![p] =
                   [state |-> "active", pid |-> getFreeID, dir |-> d, image |-> image,
                    brk |-> image.base + image.size, threads |-> {k.thread}]]
  BY <1>1, <1>2, <1>3, <1>4, <1>5
<1>7. PICK u : u = k.s
  OBVIOUS
<1>8. PICK z : z = vmmngr_unmap_virt(u, d, stack)
  OBVIOUS
<1>9. PICK kt : kt = KernelTable
  OBVIOUS
<1>10. PICK w : w = Winsys
  OBVIOUS
<1>11. PICK H : H = Steady(w)
  OBVIOUS
<1>12. PICK H1 : H1 = H \ {<<d, stack>>}
  OBVIOUS
<1>13. /\ spProcs[p].state = "none" /\ spWins' = spWins /\ spCur' = spCur /\ spKernel' = spKernel
       /\ Sound(Space, kt, H) /\ Space.dirs = spDirs /\ spCur \in DOMAIN spDirs
       /\ w \in DOMAIN spDirs /\ Shell \in DOMAIN spDirs /\ WinsOK(spWins)
  BY <1>9, <1>10, <1>11 DEF createProcess, SpaceInv, Space, KernelOK, Winsys, Shell
<1>14. /\ stack \in KernelStackArea \cup OwnKernelStackArea /\ spDirs[spCur].pages[stack] # 0
       /\ stack \in Pages /\ stack # 0 /\ stack \notin UserStackArea
  <2>1. stack \in KernelStackArea \cup OwnKernelStackArea /\ spDirs[spCur].pages[stack] # 0
    BY CallerStackFacts
  <2>2. stack \in Pages
    BY <2>1, PageFacts
  <2>3. stack # 0 /\ stack \notin UserStackArea
    BY <2>1, AreaFacts
  <2> QED
    BY <2>1, <2>2, <2>3
<1>15. Takes(Space.mem, x.mem) /\ Takes(x.mem, y.mem) /\ Takes(y.mem, u.mem) /\ MemOK(Space.mem)
  <2>1. MemOK(Space.mem)
    BY <1>13, SoundMem DEF MemOK
  <2>2. Takes(Space.mem, x.mem)
    BY <1>2, <1>4, <2>1, CallerTakes
  <2>3. Takes(x.mem, y.mem)
    BY <1>5, <2>2, LoadTakes DEF Takes
  <2>4. Takes(y.mem, u.mem)
    BY <1>6, <1>7, <2>3, StacksTake DEF Takes
  <2> QED
    BY <2>1, <2>2, <2>3, <2>4
<1>16. Left(u.mem) /\ Left(y.mem) /\ Left(x.mem) /\ Left(Space.mem)
  BY <1>6, <1>7, <1>15, TakesLeft DEF Takes
<1>17. Started(Space, c, kt, H, stack)
  BY <1>2, <1>13, <1>14, <1>16, CallerMapSound
<1>18. /\ Sound(x, kt, H1) /\ d \in Frame \ {0} /\ d \notin DOMAIN spDirs
       /\ DOMAIN x.dirs = DOMAIN spDirs \cup {d}
       /\ \A e \in DOMAIN spDirs : x.dirs[e] = spDirs[e]
       /\ \A v \in Pages : x.dirs[d].pages[v] # 0 <=> v = stack
  BY <1>3, <1>4, <1>12, <1>13, <1>14, <1>16, <1>17 DEF Started
<1>19. \A v \in UserStackArea \cup KernelStackArea : v # stack => <<d, v>> \in H1
  BY <1>11, <1>12, <1>18, AreaFacts
<1>20. SectionPages(image) \subseteq ImagePages(image) /\ ImagePages(image) \subseteq UserStackArea
       /\ UserStackArea \subseteq Pages
  BY ImageFacts, PageFacts
<1>21. Filled(x, y, kt, H1, d, SectionPages(image))
  <2>1. \A v \in SectionPages(image) : <<d, v>> \in H1
    BY <1>14, <1>19, <1>20
  <2> QED
    BY <1>5, <1>18, <2>1, LoadFills
<1>22. Sound(y, kt, H1) /\ d \in DOMAIN y.dirs /\ y.dirs[d].pages[stack] # 0
  BY <1>14, <1>18, <1>21 DEF Filled
<1>23. /\ k.thread \in [user : UserStackArea, kernel : KernelStackArea]
       /\ Filled(y, u, kt, H1, d, {k.thread.user, k.thread.kernel})
       /\ y.dirs[d].pages[k.thread.user] = 0 /\ y.dirs[d].pages[k.thread.kernel] = 0
  <2>1. \A v \in UserStackArea \cup KernelStackArea : <<d, v>> \in H1 \/ y.dirs[d].pages[v] # 0
    BY <1>19, <1>22
  <2> QED
    <3>1. /\ k.thread \in [user : UserStackArea, kernel : KernelStackArea]
          /\ Filled(y, k.s, kt, H1, d, {k.thread.user, k.thread.kernel})
          /\ y.dirs[d].pages[k.thread.user] = 0 /\ y.dirs[d].pages[k.thread.kernel] = 0
      BY <1>22, <2>1, StacksFill
    <3> QED
      BY <1>7, <3>1
<1>24. k.thread.user \in UserStackArea /\ k.thread.kernel \in KernelStackArea
       /\ k.thread.kernel # stack /\ k.thread.user \in Pages /\ k.thread.kernel \in Pages
  BY <1>22, <1>23, PageFacts
<1>25. Lent(u, z, kt, H1, d, stack, 0) /\ z.dirs[d].pages[stack] = 0
  <2>1. Sound(u, kt, H1) /\ d \in DOMAIN u.dirs /\ <<d, stack>> \notin H1
    BY <1>12, <1>22, <1>23 DEF Filled
  <2> QED
    BY <1>8, <1>14, <2>1, Unmapped
<1>26. /\ Sound(z, kt, H1) /\ DOMAIN z.dirs = DOMAIN spDirs \cup {d}
       /\ \A e \in DOMAIN spDirs : z.dirs[e] = spDirs[e]
       /\ \A v \in Pages : v # stack => z.dirs[d].pages[v] = u.dirs[d].pages[v]
  BY <1>18, <1>21, <1>23, <1>25 DEF Filled, Lent
<1>27. \A v \in Pages :
           z.dirs[d].pages[v] # 0 => v \in SectionPages(image) \cup {k.thread.user, k.thread.kernel}
  BY <1>18, <1>21, <1>23, <1>25, <1>26 DEF Filled
<1>28. \A v \in SectionPages(image) \cup {k.thread.user, k.thread.kernel} : z.dirs[d].pages[v] # 0
  <2>1. \A v \in SectionPages(image) : v \in Pages /\ v # stack /\ u.dirs[d].pages[v] # 0
    BY <1>14, <1>16, <1>20, <1>21, <1>23 DEF Filled
  <2>2. u.dirs[d].pages[k.thread.user] # 0 /\ u.dirs[d].pages[k.thread.kernel] # 0
    BY <1>16, <1>23 DEF Filled
  <2> QED
    BY <1>14, <1>24, <1>26, <2>1, <2>2
<1>29. Sound(z, kt, H)
  <2>1. \A e \in DOMAIN z.dirs, v \in Pages : z.dirs[e].pages[v] # 0 => (<<e, v>> \in H1 <=> <<e, v>> \in H)
    BY <1>12, <1>25
  <2> QED
    BY <1>26, <2>1, OtherOwners
<1>30. PICK q : q = [state |-> "active", pid |-> getFreeID, dir |-> d, image |-> image,
                     brk |-> image.base + image.size, threads |-> {k.thread}]
  OBVIOUS
<1>31. /\ q.state = "active" /\ q.dir = d /\ q.image = image /\ q.brk = image.base + image.size
       /\ q.threads = {k.thread} /\ IsProc(q)
  BY <1>30 DEF IsProc
<1>32. ProgramPages(q) = SectionPages(image)
  <2>1. PICK n \in Nat : n = image.base + image.size
    BY ImagesAssumption
  <2>3. n .. n - 1 = {}
    OBVIOUS
  <2>2. q.image.base + q.image.size .. q.brk - 1 = {}
    <3>1. q.image.base + q.image.size = n /\ q.brk = n
      BY <1>31, <2>1
    <3> QED
      BY <2>3, <3>1, Zenon
  <2> QED
    BY <1>31, <2>2 DEF ProgramPages
<1>33. ProcOK(q, z.dirs, w, Shell)
  <2>1. q.brk \in Nat /\ image.base + image.size <= q.brk /\ q.brk <= image.base + image.size + SbrkLim
    BY <1>31, ImagesAssumption
  <2>2. d \in DOMAIN z.dirs /\ d # w /\ d # Shell
    BY <1>13, <1>18, <1>26
  <2>3. \A v \in Pages : z.dirs[d].pages[v] # 0 => v \in ProcPages(q)
    BY <1>20, <1>27, <1>31 DEF ProcPages
  <2>4. \A t \in q.threads : z.dirs[d].pages[t.kernel] # 0
    BY <1>28, <1>31
  <2>5. \A v \in ProgramPages(q) : z.dirs[d].pages[v] # 0
    BY <1>28, <1>32
  <2>6. q.threads \subseteq [user : UserStackArea, kernel : KernelStackArea]
    BY <1>23, <1>31
  <2> QED
    BY <1>31, <2>1, <2>2, <2>3, <2>4, <2>5, <2>6 DEF ProcOK
<1>34. BecomesSpace(z) /\ spProcs' = [spProcs EXCEPT ![p] = q]
  BY <1>6, <1>7, <1>8, <1>30
<1>35. Sound(z, KernelTable, Steady(Winsys)) /\ ProcOK(q, z.dirs, Winsys, Shell) /\ Winsys \in DOMAIN z.dirs
  BY <1>9, <1>10, <1>11, <1>13, <1>26, <1>29, <1>33
<1> QED
  <2>1. ProcessStep(p, q, d, z)
    BY <1>13, <1>18, <1>26, <1>31, <1>34, <1>35 DEF ProcessStep
  <2> QED
    BY <2>1, NextProcess

\* A failed start gives everything back: the frames are those of before.
LEMMA CreateFailsInv ==
    ASSUME SpaceInv, CreateFails
    PROVE  SpaceInv'
<1>1. PICK stack \in CallerStacks :
         \E c \in {CallerMapped(create_address_space(Space, spCur), spCur, stack)} :
            /\ Left(c.s.mem)
            /\ BecomesSpace(vmmngr_free_pdir(clear_kernel_space(c.s, c.dir), c.dir))
  BY DEF CreateFails
<1>2. PICK c : c = CallerMapped(create_address_space(Space, spCur), spCur, stack)
  OBVIOUS
<1>3. PICK d : d = c.dir
  OBVIOUS
<1>4. PICK x : x = c.s
  OBVIOUS
<1>5. PICK z : z = vmmngr_free_pdir(clear_kernel_space(x, d), d)
  OBVIOUS
<1>6. Left(x.mem) /\ BecomesSpace(z)
  BY <1>1, <1>2, <1>3, <1>4, <1>5
<1>7. PICK kt : kt = KernelTable
  OBVIOUS
<1>8. PICK H : H = Steady(Winsys)
  OBVIOUS
<1>9. PICK H1 : H1 = H \ {<<d, stack>>}
  OBVIOUS
<1>10. /\ spProcs' = spProcs /\ spWins' = spWins /\ spCur' = spCur /\ spKernel' = spKernel
       /\ Sound(Space, kt, H) /\ Space.dirs = spDirs /\ spCur \in DOMAIN spDirs
       /\ Winsys \in DOMAIN spDirs /\ Shell \in DOMAIN spDirs /\ WinsOK(spWins)
  BY <1>7, <1>8 DEF CreateFails, SpaceInv, Space, KernelOK, Winsys, Shell
<1>11. stack \in Pages /\ stack # 0 /\ spDirs[spCur].pages[stack] # 0
  <2>1. stack \in KernelStackArea \cup OwnKernelStackArea /\ spDirs[spCur].pages[stack] # 0
    BY CallerStackFacts
  <2>2. stack \in Pages
    BY <2>1, PageFacts
  <2>3. stack # 0
    BY <2>1, AreaFacts
  <2> QED
    BY <2>1, <2>2, <2>3
<1>12. Left(Space.mem)
  <2>1. MemOK(Space.mem)
    BY <1>10, SoundMem DEF MemOK
  <2>2. Takes(Space.mem, x.mem)
    BY <1>2, <1>4, <2>1, CallerTakes
  <2> QED
    BY <1>6, <2>1, <2>2, TakesLeft
<1>13. Started(Space, c, kt, H, stack)
  BY <1>2, <1>10, <1>11, <1>12, CallerMapSound
<1>14. /\ Sound(x, kt, H1) /\ d \notin DOMAIN spDirs
       /\ DOMAIN x.dirs = DOMAIN spDirs \cup {d}
       /\ \A e \in DOMAIN spDirs : x.dirs[e] = spDirs[e]
       /\ \A v \in Pages : <<d, v>> \in H1 => x.dirs[d].pages[v] = 0
  BY <1>3, <1>4, <1>9, <1>10, <1>13 DEF Started
<1>15. Sound(z, kt, H1) /\ DOMAIN z.dirs = DOMAIN spDirs
       /\ \A e \in DOMAIN spDirs : z.dirs[e] = spDirs[e]
  <2>1. d \in DOMAIN x.dirs
    BY <1>14
  <2>2. Sound(z, kt, H1) /\ DOMAIN z.dirs = DOMAIN x.dirs \ {d}
        /\ \A e \in DOMAIN x.dirs : e # d => z.dirs[e] = x.dirs[e]
    BY <1>5, <1>14, <2>1, FreeDir
  <2> QED
    BY <1>14, <2>2
<1>16. Sound(z, kt, H)
  <2>1. \A e \in DOMAIN z.dirs, v \in Pages : z.dirs[e].pages[v] # 0 => (<<e, v>> \in H1 <=> <<e, v>> \in H)
    BY <1>9, <1>14, <1>15
  <2> QED
    BY <1>15, <2>1, OtherOwners
<1>17. \A r \in Slot : ProcOK(spProcs[r], z.dirs, Winsys, Shell)
  <2> SUFFICES ASSUME NEW r \in Slot PROVE ProcOK(spProcs[r], z.dirs, Winsys, Shell)
    OBVIOUS
  <2>1. ProcOK(spProcs[r], spDirs, Winsys, Shell)
    BY DEF SpaceInv
  <2>2. spProcs[r].state # "none" => spProcs[r].dir \in DOMAIN spDirs
    BY <2>1 DEF ProcOK
  <2> QED
    BY <1>15, <2>1, <2>2, ProcSame
<1>18. Sound(z, KernelTable, Steady(Winsys))
  BY <1>7, <1>8, <1>16
<1>19. spProcs' = [r \in Slot |-> spProcs'[r]]
       /\ \A r, t \in Slot : /\ r # t /\ spProcs'[r].state # "none" /\ spProcs'[t].state # "none"
                             => spProcs'[r].dir # spProcs'[t].dir
  BY <1>10 DEF SpaceInv
<1> QED
  BY <1>6, <1>10, <1>15, <1>17, <1>18, <1>19, NextSpace
-----------------------------------------------------------------------------
(***************************************************************************)
(* Quarters of pages                                                       *)
(***************************************************************************)
\* PageOf and FromPageEnd are the division and what is missing to the next
\* page.
LEMMA Quarters ==
    ASSUME NEW a \in Nat
    PROVE  /\ PageOf(a) \in Nat /\ FromPageEnd(a) \in Nat
           /\ a + FromPageEnd(a) \in Nat /\ (a + FromPageEnd(a)) % 4 = 0
BY DEF PageOf, FromPageEnd

\* Rounding to pages keeps the order.
LEMMA QuartersOrder ==
    ASSUME NEW a \in Nat, NEW b \in Nat
    PROVE  /\ a <= b => PageOf(a) <= PageOf(b)
           /\ a < b => PageOf(a) <= PageOf(b + FromPageEnd(b)) - 1
           /\ a <= b /\ b % 4 = 0 => a + FromPageEnd(a) <= b
BY DEF PageOf, FromPageEnd

\* The image's pages and the heap's lie in the pages that the end of the
\* process frees.
LEMMA HeapFacts ==
    ASSUME NEW x \in Images, NEW brk \in Nat, brk <= x.base + x.size + SbrkLim
    PROVE  /\ brk + FromPageEnd(brk) <= HeapEnd(x)
           /\ \A v \in Nat : PageOf(x.base) <= v /\ v <= PageOf(brk + FromPageEnd(brk)) - 1
                             => v \in ImagePages(x)
<1>1. x.base \in Nat /\ x.base % 4 = 0 /\ x.size \in Nat /\ SbrkLim \in Nat
  BY ImagesAssumption
<1>2. PICK fs : fs = FromPageEnd(x.size)
  OBVIOUS
<1>3. PICK fl : fl = FromPageEnd(SbrkLim)
  OBVIOUS
<1>4. fs \in Nat /\ fl \in Nat /\ (x.size + fs) % 4 = 0 /\ (SbrkLim + fl) % 4 = 0
  BY <1>1, <1>2, <1>3, Quarters
<1>5. PICK end : end = HeapEnd(x)
  OBVIOUS
<1>6. end = x.base + x.size + fs + SbrkLim + fl
  BY <1>2, <1>3, <1>5 DEF HeapEnd
<1>7. end \in Nat /\ end % 4 = 0 /\ brk <= end
  BY <1>1, <1>4, <1>6
<1>8. PICK up : up = brk + FromPageEnd(brk)
  OBVIOUS
<1>9. up \in Nat /\ up <= end
  BY <1>7, <1>8, Quarters, QuartersOrder
<1>10. /\ PageOf(up) <= PageOf(end) /\ PageOf(end) \in Nat
       /\ PageOf(x.base) \in Nat /\ PageOf(up) \in Nat
  BY <1>1, <1>7, <1>9, Quarters, QuartersOrder
<1>11. ASSUME NEW v \in Nat, PageOf(x.base) <= v, v <= PageOf(up) - 1
       PROVE  v \in ImagePages(x)
  BY <1>5, <1>10, <1>11 DEF ImagePages
<1> QED
  BY <1>5, <1>8, <1>9, <1>11

\* A program's pages are pages.
LEMMA ProgramPagesFacts ==
    ASSUME NEW q, q.image \in Images, q.brk \in Nat,
           q.brk <= q.image.base + q.image.size + SbrkLim
    PROVE  ProgramPages(q) \subseteq ImagePages(q.image) /\ ProgramPages(q) \subseteq Pages
<1>1. PICK x \in Images : x = q.image
  OBVIOUS
<1>2. x.base \in Nat /\ x.size \in Nat
  BY ImagesAssumption
<1>3. ASSUME NEW byte \in x.base + x.size .. q.brk - 1 PROVE PageOf(byte) \in ImagePages(x)
  <2>1. byte \in Nat /\ x.base <= byte /\ byte < q.brk
    BY <1>2
  <2>2. PageOf(byte) \in Nat /\ PageOf(x.base) <= PageOf(byte)
        /\ PageOf(byte) <= PageOf(q.brk + FromPageEnd(q.brk)) - 1
    BY <1>2, <2>1, Quarters, QuartersOrder
  <2> QED
    BY <1>1, <2>2, HeapFacts
<1>4. SectionPages(x) \subseteq ImagePages(x) /\ ImagePages(x) \subseteq Pages
  BY ImageFacts, PageFacts
<1>5. ProgramPages(q) = SectionPages(x) \cup {PageOf(byte) : byte \in x.base + x.size .. q.brk - 1}
  BY <1>1 DEF ProgramPages
<1> QED
  BY <1>1, <1>3, <1>4, <1>5
-----------------------------------------------------------------------------
(***************************************************************************)
(* What processes do while they run                                        *)
(***************************************************************************)
LEMMA ProcFacts ==
    ASSUME SpaceInv, NEW p \in Slot, spProcs[p].state # "none"
    PROVE  /\ ProcOK(spProcs[p], spDirs, Winsys, Shell)
           /\ spProcs[p].dir \in DOMAIN spDirs /\ spProcs[p].dir # Winsys
           /\ spProcs[p].dir \in Frame /\ Winsys \in Frame
           /\ Sound(Space, KernelTable, Steady(Winsys)) /\ Space.dirs = spDirs
           /\ Winsys \in DOMAIN spDirs /\ WinsOK(spWins)
           /\ spProcs = [r \in Slot |-> spProcs[r]]
<1>1. /\ ProcOK(spProcs[p], spDirs, Winsys, Shell)
      /\ Sound(Space, KernelTable, Steady(Winsys)) /\ Space.dirs = spDirs
      /\ Winsys \in DOMAIN spDirs /\ WinsOK(spWins)
      /\ spProcs = [r \in Slot |-> spProcs[r]]
  BY DEF SpaceInv, KernelOK, Space, Winsys
<1>2. spProcs[p].dir \in DOMAIN spDirs /\ spProcs[p].dir # Winsys
  BY <1>1 DEF ProcOK
<1>3. spProcs[p].dir \in Frame /\ Winsys \in Frame
  BY <1>1, <1>2, SoundMem
<1> QED
  BY <1>1, <1>2, <1>3

\* fork keeps the invariant: the new stacks lie apart from the old.
LEMMA ForkInv ==
    ASSUME SpaceInv, NEW p \in Slot, fork(p)
    PROVE  SpaceInv'
<1>1. PICK k \in WithStacks(Space, spCur) :
            /\ Left(k.s.mem) /\ BecomesSpace(k.s)
            /\ spProcs' = [spProcs EXCEPT ![p].threads = @ \cup {k.thread}]
  BY DEF fork
<1>2. PICK old : old = spProcs[p]
  OBVIOUS
<1>3. PICK d : d = spCur
  OBVIOUS
<1>4. PICK z : z = k.s
  OBVIOUS
<1>5. PICK H : H = Steady(Winsys)
  OBVIOUS
<1>6. PICK kt : kt = KernelTable
  OBVIOUS
<1>7. /\ old.state = "active" /\ d = old.dir /\ spWins' = spWins /\ spCur' = spCur
      /\ spKernel' = spKernel
  BY <1>2, <1>3 DEF fork, Running
<1>8. /\ ProcOK(old, spDirs, Winsys, Shell) /\ d \in DOMAIN spDirs /\ d # Winsys /\ d \in Frame
      /\ Sound(Space, kt, H) /\ Space.dirs = spDirs /\ Winsys \in DOMAIN spDirs /\ WinsOK(spWins)
  BY <1>2, <1>5, <1>6, <1>7, ProcFacts
<1>9. /\ k.thread \in [user : UserStackArea, kernel : KernelStackArea]
      /\ Filled(Space, z, kt, H, d, {k.thread.user, k.thread.kernel})
  <2>1. \A v \in UserStackArea \cup KernelStackArea : <<d, v>> \in H \/ Space.dirs[d].pages[v] # 0
    BY <1>5, <1>8, AreaFacts
  <2>2. /\ k.thread \in [user : UserStackArea, kernel : KernelStackArea]
        /\ Filled(Space, k.s, kt, H, d, {k.thread.user, k.thread.kernel})
    BY <1>1, <1>3, <1>8, <2>1, StacksFill
  <2> QED
    BY <1>4, <2>2
<1>10. PICK q : q = [old EXCEPT !.threads = @ \cup {k.thread}]
  OBVIOUS
<1>11. IsProc(old) /\ old.threads \subseteq [user : UserStackArea, kernel : KernelStackArea]
  BY <1>7, <1>8 DEF ProcOK
<1>12. /\ q.state = "active" /\ q.dir = d /\ q.image = old.image /\ q.brk = old.brk
       /\ q.threads = old.threads \cup {k.thread} /\ IsProc(q)
  BY <1>7, <1>10, <1>11 DEF IsProc
<1>13. BecomesSpace(z) /\ spProcs' = [spProcs EXCEPT ![p] = q]
  BY <1>1, <1>2, <1>4, <1>10
<1>14. k.thread.user \in Pages /\ k.thread.kernel \in Pages
  BY <1>9, PageFacts
<1>15. \A v \in Pages : z.dirs[d].pages[v] # 0 => v \in ProcPages(q)
  <2>1. \A v \in Pages : spDirs[d].pages[v] # 0 => v \in ProcPages(old)
    BY <1>7, <1>8 DEF ProcOK
  <2>2. ProcPages(old) \cup {k.thread.user, k.thread.kernel} \subseteq ProcPages(q)
    BY <1>7, <1>12 DEF ProcPages
  <2> QED
    BY <1>8, <1>9, <2>1, <2>2 DEF Filled
<1>16. \A v \in Pages : spDirs[d].pages[v] # 0 => z.dirs[d].pages[v] # 0
  BY <1>8, <1>9 DEF Filled
<1>17. z.dirs[d].pages[k.thread.kernel] # 0
  BY <1>1, <1>4, <1>9 DEF Filled
<1>18. \A t \in q.threads : z.dirs[d].pages[t.kernel] # 0
  <2>1. \A t \in old.threads : spDirs[d].pages[t.kernel] # 0 /\ t.kernel \in Pages
    BY <1>7, <1>8, <1>11, PageFacts DEF ProcOK
  <2> QED
    BY <1>12, <1>16, <1>17, <2>1
<1>19. ProgramPages(q) = ProgramPages(old)
  BY <1>12 DEF ProgramPages
<1>20. \A v \in ProgramPages(q) : z.dirs[d].pages[v] # 0
  BY <1>7, <1>8, <1>19, <1>16, ProgramPagesFacts DEF ProcOK
<1>21. DOMAIN z.dirs = DOMAIN spDirs /\ Sound(z, kt, H)
       /\ \A e \in DOMAIN spDirs : e # d => z.dirs[e] = spDirs[e]
  BY <1>8, <1>9 DEF Filled
<1>22. ProcOK(q, z.dirs, Winsys, Shell)
  <2>1. q.threads \subseteq [user : UserStackArea, kernel : KernelStackArea]
    BY <1>9, <1>11, <1>12
  <2>2. /\ q.dir \in DOMAIN z.dirs /\ q.dir # Winsys /\ q.dir # Shell /\ q.image \in Images
        /\ q.brk \in Nat /\ q.image.base + q.image.size <= q.brk
        /\ q.brk <= q.image.base + q.image.size + SbrkLim
    BY <1>7, <1>8, <1>12, <1>21 DEF ProcOK
  <2> QED
    BY <1>12, <1>15, <1>18, <1>20, <2>1, <2>2 DEF ProcOK
<1> QED
  <2>1. ProcessStep(p, q, d, z)
    BY <1>2, <1>5, <1>6, <1>7, <1>8, <1>12, <1>13, <1>21, <1>22 DEF ProcessStep
  <2> QED
    BY <2>1, NextProcess

\* An end inside a page: the page is mapped already.
LEMMA InPage ==
    ASSUME NEW old \in Nat, NEW inc \in Nat, ~NewPages(old, inc), old % 4 # 0,
           NEW byte \in old .. old + inc - 1
    PROVE  PageOf(byte) = PageOf(old) /\ (old > 0 => PageOf(old - 1) = PageOf(old))
BY DEF NewPages, PageOf

\* The page of the old end is one that the program has, unless that end is
\* on a page's boundary.
LEMMA LastPage ==
    ASSUME NEW q, q.image \in Images, q.brk \in Nat, q.image.base + q.image.size <= q.brk,
           NEW inc \in Nat, ~NewPages(q.brk, inc), q.brk % 4 # 0,
           NEW byte \in q.brk .. q.brk + inc - 1
    PROVE  PageOf(byte) \in ProgramPages(q)
<1>1. PICK x \in Images : x = q.image
  OBVIOUS
<1>2. PICK b : b = q.brk
  OBVIOUS
<1>3. PICK n : n = x.base + x.size
  OBVIOUS
<1>4. b \in Nat /\ n \in Nat /\ n <= b
  BY <1>1, <1>2, <1>3, ImagesAssumption
<1>5. PageOf(byte) = PageOf(b) /\ (b > 0 => PageOf(b - 1) = PageOf(b))
  BY <1>2, <1>4, InPage
<1>6. CASE b = n
  <2>1. PageOf(n) \in SectionPages(x)
    BY <1>2, <1>3, <1>6, ImagesAssumption
  <2> QED
    BY <1>1, <1>5, <1>6, <2>1 DEF ProgramPages
<1>7. CASE b # n
  <2>1. b - 1 \in n .. b - 1 /\ b > 0
    BY <1>4, <1>7
  <2> QED
    BY <1>1, <1>2, <1>3, <1>5, <2>1 DEF ProgramPages
<1> QED
  BY <1>6, <1>7

\* inc_proc_brk keeps the invariant: the pages up to the new end are there, those
\* that were not mapped because the end stays in its page included.
LEMMA BrkInv ==
    ASSUME SpaceInv, NEW p \in Slot, NEW inc \in Increments, inc_proc_brk(p, inc)
    PROVE  SpaceInv'
<1>1. PICK old : old = spProcs[p]
  OBVIOUS
<1>2. PICK new : new = old.brk + inc
  OBVIOUS
<1>3. PICK grows : grows = (NewPages(old.brk, inc) \/ old.brk % 4 = 0)
  OBVIOUS
<1>4. PICK z : z = Grown(old.brk, new, grows)
  OBVIOUS
<1>5. PICK d : d = spCur
  OBVIOUS
<1>6. PICK H : H = Steady(Winsys)
  OBVIOUS
<1>7. PICK kt : kt = KernelTable
  OBVIOUS
<1>8. PICK x : x = old.image
  OBVIOUS
<1>9. /\ old.state = "active" /\ d = old.dir /\ spWins' = spWins /\ spCur' = spCur
      /\ spKernel' = spKernel /\ new <= x.base + x.size + SbrkLim
      /\ spProcs' = [spProcs EXCEPT ![p].brk = new] /\ Left(z.mem) /\ BecomesSpace(z)
  BY <1>1, <1>2, <1>3, <1>4, <1>5, <1>8 DEF inc_proc_brk, GrowTo, Running
<1>10. /\ ProcOK(old, spDirs, Winsys, Shell) /\ d \in DOMAIN spDirs /\ d # Winsys /\ d \in Frame
       /\ Sound(Space, kt, H) /\ Space.dirs = spDirs /\ Winsys \in DOMAIN spDirs /\ WinsOK(spWins)
  BY <1>1, <1>6, <1>7, <1>9, ProcFacts
<1>11. /\ x \in Images /\ old.brk \in Nat /\ x.base + x.size <= old.brk /\ inc \in Nat
       /\ old.brk <= x.base + x.size + SbrkLim
       /\ new \in Nat /\ old.brk <= new /\ x.base \in Nat /\ x.base <= old.brk /\ x.size \in Nat
  <2>1. x \in Images /\ old.brk \in Nat /\ x.base + x.size <= old.brk
        /\ old.brk <= x.base + x.size + SbrkLim
    BY <1>8, <1>9, <1>10 DEF ProcOK
  <2>2. inc \in Nat /\ x.base \in Nat /\ x.size \in Nat
    BY <2>1, ImagesAssumption
  <2> QED
    BY <1>2, <2>1, <2>2
<1>12. PICK from : from = PageOf(old.brk)
  OBVIOUS
<1>13. PICK to : to = PageOf(new + FromPageEnd(new)) - 1
  OBVIOUS
<1>14. from \in Nat /\ to \in Int /\ from .. to \subseteq ImagePages(x)
  <2>1. from \in Nat /\ PageOf(x.base) <= from /\ PageOf(x.base) \in Nat
    BY <1>11, <1>12, Quarters, QuartersOrder
  <2>2. to \in Int
    BY <1>11, <1>13, Quarters
  <2>3. \A v \in Nat : PageOf(x.base) <= v /\ v <= to => v \in ImagePages(x)
    BY <1>9, <1>11, <1>13, HeapFacts
  <2>4. ASSUME NEW v \in from .. to PROVE v \in Nat /\ PageOf(x.base) <= v /\ v <= to
    BY <2>1, <2>2
  <2> QED
    BY <2>1, <2>2, <2>3, <2>4
<1>15. ImagePages(x) \subseteq UserStackArea /\ ImagePages(x) \subseteq Pages
       /\ SectionPages(x) \subseteq ImagePages(x)
  BY <1>11, ImageFacts, PageFacts
<1>16. PICK U : U = IF grows THEN from .. to ELSE {}
  OBVIOUS
<1>17. U \subseteq ImagePages(x)
  BY <1>14, <1>16
<1>18. Filled(Space, z, kt, H, d, U)
  <2>1. CASE grows
    <3>1. z = AllocPages(Space, d, from, to)
      BY <1>4, <1>5, <1>12, <1>13, <2>1 DEF Grown
    <3>2. \A v \in from .. to : <<d, v>> \in H
      BY <1>6, <1>10, <1>14, <1>15, AreaFacts
    <3>3. from .. to \subseteq Pages
      BY <1>14, <1>15
    <3>4. Filled(Space, z, kt, H, d, from .. to)
      BY <1>10, <1>14, <3>1, <3>2, <3>3, AllocPagesFills
    <3> QED
      BY <1>16, <2>1, <3>4
  <2>2. CASE ~grows
    <3>1. z = Space /\ U = {}
      BY <1>4, <1>16, <2>2 DEF Grown
    <3> QED
      BY <1>10, <3>1, FilledNone
  <2> QED
    BY <2>1, <2>2
<1>19. PICK q : q = [old EXCEPT !.brk = new]
  OBVIOUS
<1>20. IsProc(old) /\ old.threads \subseteq [user : UserStackArea, kernel : KernelStackArea]
  BY <1>9, <1>10 DEF ProcOK
<1>21. /\ q.state = "active" /\ q.dir = d /\ q.image = x /\ q.brk = new
       /\ q.threads = old.threads /\ IsProc(q)
  BY <1>8, <1>9, <1>19, <1>20 DEF IsProc
<1>22. spProcs' = [spProcs EXCEPT ![p] = q]
  BY <1>1, <1>9, <1>19
<1>23. \A v \in Pages : z.dirs[d].pages[v] # 0 => v \in ProcPages(q)
  <2>1. \A v \in Pages : spDirs[d].pages[v] # 0 => v \in ProcPages(old)
    BY <1>9, <1>10 DEF ProcOK
  <2>2. ProcPages(old) \cup U \subseteq ProcPages(q)
    BY <1>8, <1>9, <1>17, <1>21 DEF ProcPages
  <2> QED
    BY <1>10, <1>18, <2>1, <2>2 DEF Filled
<1>24. \A v \in Pages : spDirs[d].pages[v] # 0 => z.dirs[d].pages[v] # 0
  BY <1>10, <1>18 DEF Filled
<1>25. \A v \in ProgramPages(old) : z.dirs[d].pages[v] # 0
  BY <1>8, <1>9, <1>10, <1>11, <1>24, ProgramPagesFacts DEF ProcOK
<1>26. \A v \in ProgramPages(q) : z.dirs[d].pages[v] # 0
  <2> SUFFICES ASSUME NEW v \in ProgramPages(q) PROVE z.dirs[d].pages[v] # 0
    OBVIOUS
  <2>1. CASE v \in SectionPages(x)
    BY <1>8, <1>25, <2>1 DEF ProgramPages
  <2>2. CASE v \notin SectionPages(x)
    <3>1. PICK byte \in x.base + x.size .. new - 1 : v = PageOf(byte)
      BY <1>21, <2>2 DEF ProgramPages
    <3>2. byte \in Nat /\ x.base + x.size <= byte /\ byte < new /\ byte \in Int
      BY <1>11
    <3>3. CASE byte < old.brk
      <4>1. byte \in old.image.base + old.image.size .. old.brk - 1
        BY <1>8, <1>11, <3>2, <3>3
      <4>2. v \in ProgramPages(old)
        BY <3>1, <4>1 DEF ProgramPages
      <4> QED
        BY <1>25, <4>2
    <3>4. CASE ~(byte < old.brk) /\ grows
      <4>1. from <= v /\ v <= to /\ v \in Nat
        <5>1. old.brk <= byte
          BY <1>11, <3>2, <3>4
        <5>2. from <= v /\ v \in Nat
          BY <1>11, <1>12, <3>1, <3>2, <5>1, Quarters, QuartersOrder
        <5>3. v <= to
          BY <1>11, <1>13, <3>1, <3>2, QuartersOrder
        <5> QED
          BY <5>2, <5>3
      <4>2. v \in U
        BY <1>14, <1>16, <3>4, <4>1
      <4> QED
        BY <1>9, <1>18, <4>2 DEF Filled
    <3>5. CASE ~(byte < old.brk) /\ ~grows
      <4>1. byte \in old.brk .. old.brk + inc - 1
        BY <1>2, <1>11, <3>2, <3>5
      <4>2. v \in ProgramPages(old)
        BY <1>3, <1>8, <1>11, <3>1, <3>5, <4>1, LastPage
      <4> QED
        BY <1>25, <4>2
    <3> QED
      BY <3>3, <3>4, <3>5
  <2> QED
    BY <2>1, <2>2
<1>27. \A t \in q.threads : z.dirs[d].pages[t.kernel] # 0
  BY <1>9, <1>10, <1>20, <1>21, <1>24, PageFacts DEF ProcOK
<1>28. DOMAIN z.dirs = DOMAIN spDirs /\ Sound(z, kt, H)
       /\ \A e \in DOMAIN spDirs : e # d => z.dirs[e] = spDirs[e]
  BY <1>10, <1>18 DEF Filled
<1>29. ProcOK(q, z.dirs, Winsys, Shell)
  <2>1. /\ q.dir \in DOMAIN z.dirs /\ q.dir # Winsys /\ q.dir # Shell /\ q.image \in Images
        /\ q.brk \in Nat /\ q.image.base + q.image.size <= q.brk
        /\ q.brk <= q.image.base + q.image.size + SbrkLim
    <3>1. x.base + x.size <= new
      BY <1>11
    <3> QED
      BY <1>9, <1>10, <1>11, <1>21, <1>28, <3>1 DEF ProcOK
  <2> QED
    BY <1>20, <1>21, <1>23, <1>26, <1>27, <2>1 DEF ProcOK
<1> QED
  <2>1. spProcs[p].state # "none" /\ d = spProcs[p].dir
    BY <1>1, <1>9
  <2>2. Sound(z, KernelTable, Steady(Winsys)) /\ Winsys \in DOMAIN z.dirs /\ d \in DOMAIN z.dirs
    BY <1>6, <1>7, <1>10, <1>28
  <2>3. WinsOK(spWins') /\ BecomesSpace(z) /\ spCur' = spCur /\ spKernel' = spKernel
    BY <1>9, <1>10
  <2>4. \A e \in DOMAIN spDirs : e # d /\ e # Winsys => e \in DOMAIN z.dirs /\ z.dirs[e] = spDirs[e]
    BY <1>28
  <2>5. q.dir = d
    BY <1>21
  <2>6. ProcessStep(p, q, d, z)
    BY <1>22, <1>29, <2>1, <2>2, <2>3, <2>4, <2>5 DEF ProcessStep
  <2> QED
    BY <2>6, NextProcess
-----------------------------------------------------------------------------
(***************************************************************************)
(* Windows                                                                 *)
(***************************************************************************)
LEMMA WinsAppend ==
    ASSUME NEW wins, WinsOK(wins), NEW e, e.page \in Pages
    PROVE  WinsOK(Append(wins, e))
<1>1. PICK S : wins \in Seq(S) /\ \A x \in S : x.page \in Pages
  BY DEF WinsOK
<1>2. wins \in Seq(S \cup {e})
  BY <1>1
<1>3. Append(wins, e) \in Seq(S \cup {e})
  BY <1>2
<1> QED
  BY <1>1, <1>3 DEF WinsOK

\* Marking a window keeps the list one of windows,
LEMMA WinsRemoving ==
    ASSUME NEW wins, WinsOK(wins), NEW i \in DOMAIN wins
    PROVE  WinsOK(Removing(wins, i))
<1>1. PICK S : wins \in Seq(S) /\ \A x \in S : x.page \in Pages
  BY DEF WinsOK
<1>2. PICK e : e = [wins[i] EXCEPT !.removing = TRUE]
  OBVIOUS
<1>3. wins[i] \in S
  BY <1>1
<1>4. e.page \in Pages
  BY <1>1, <1>2, <1>3
<1>5. Removing(wins, i) = [wins EXCEPT ![i] = e]
  BY <1>2 DEF Removing
<1>6. [wins EXCEPT ![i] = e] \in Seq(S \cup {e})
  BY <1>1
<1> QED
  BY <1>1, <1>4, <1>5, <1>6 DEF WinsOK

\* and so does taking one out.
LEMMA WinsRemoveAt ==
    ASSUME NEW wins, WinsOK(wins), NEW i \in DOMAIN wins
    PROVE  WinsOK(RemoveAt(wins, i))
<1>1. PICK S : wins \in Seq(S) /\ \A x \in S : x.page \in Pages
  BY DEF WinsOK
<1>2. i \in 1 .. Len(wins) /\ Len(wins) \in Nat
  BY <1>1
<1>3. SubSeq(wins, 1, i - 1) \in Seq(S) /\ SubSeq(wins, i + 1, Len(wins)) \in Seq(S)
  BY <1>1, <1>2
<1>4. RemoveAt(wins, i) \in Seq(S)
  BY <1>3 DEF RemoveAt
<1> QED
  BY <1>1, <1>4 DEF WinsOK

\* The window with the lowest index of those of a process, if it has any.
LEMMA WinsByPid ==
    ASSUME WinsOK(spWins), NEW pid
    PROVE  WinsOK(winsys_remove_windows_by_pid(pid))
<1> DEFINE mine == {i \in DOMAIN spWins : spWins[i].pid = pid}
<1>1. CASE mine = {}
  BY <1>1 DEF winsys_remove_windows_by_pid
<1>2. CASE mine # {}
  <2>1. mine \subseteq Nat
    <3>1. PICK S : spWins \in Seq(S)
      BY DEF WinsOK
    <3>2. DOMAIN spWins = 1 .. Len(spWins) /\ Len(spWins) \in Nat
      BY <3>1
    <3> QED
      BY <3>2
  <2>2. PICK i : i = CHOOSE k \in mine : \A j \in mine : k <= j
    OBVIOUS
  <2>3. i \in mine
    <3>1. \E j \in mine : \A k \in mine : j <= k
      <4> HIDE DEF mine
      <4> QED
        BY <1>2, <2>1, LeastFrame
    <3> HIDE DEF mine
    <3> QED
      BY <2>2, <3>1, Zenon
  <2>4. winsys_remove_windows_by_pid(pid) = Removing(spWins, i)
    BY <1>2, <2>2 DEF winsys_remove_windows_by_pid
  <2> QED
    BY <2>3, <2>4, WinsRemoving
<1> QED
  BY <1>1, <1>2

\* A window's buffer: the page that the program allocated is the server's as
\* soon as it is shared.
LEMMA CreateWinInv ==
    ASSUME SpaceInv, NEW p \in Slot, winsys_create_win_user(p)
    PROVE  SpaceInv'
<1>1. PICK q : q = spProcs[p]
  OBVIOUS
<1>2. PICK d : d = spCur
  OBVIOUS
<1>3. PICK w : w = Winsys
  OBVIOUS
<1>4. PICK v \in find_user_space_pages(Space, d) :
       \E s \in {vmmngr_alloc_virt(Space, d, v)} :
       \E u \in find_user_space_pages(s, w) :
       \E z \in {Share(s, d, v, w, u)} :
            /\ Left(z.mem) /\ BecomesSpace(z)
            /\ spWins' = Append(spWins, [page |-> u, pid |-> spProcs[p].pid, removing |-> FALSE])
  BY <1>2, <1>3 DEF winsys_create_win_user
<1>5. PICK s : s = vmmngr_alloc_virt(Space, d, v)
  OBVIOUS
<1>6. PICK u \in find_user_space_pages(s, w) :
       \E z \in {Share(s, d, v, w, u)} :
            /\ Left(z.mem) /\ BecomesSpace(z)
            /\ spWins' = Append(spWins, [page |-> u, pid |-> spProcs[p].pid, removing |-> FALSE])
  BY <1>4, <1>5
<1>7. PICK z : z = Share(s, d, v, w, u)
  OBVIOUS
<1>8. /\ Left(z.mem) /\ BecomesSpace(z)
      /\ spWins' = Append(spWins, [page |-> u, pid |-> spProcs[p].pid, removing |-> FALSE])
  BY <1>6, <1>7
<1>9. PICK H : H = Steady(w)
  OBVIOUS
<1>10. PICK H2 : H2 = H \cup {<<d, v>>}
  OBVIOUS
<1>11. PICK kt : kt = KernelTable
  OBVIOUS
<1>12. /\ q.state = "active" /\ d = q.dir /\ spProcs' = spProcs /\ spCur' = spCur
       /\ spKernel' = spKernel
  BY <1>1, <1>2 DEF winsys_create_win_user, Running
<1>13. /\ ProcOK(q, spDirs, w, Shell) /\ d \in DOMAIN spDirs /\ d # w /\ d \in Frame
       /\ Sound(Space, kt, H) /\ Space.dirs = spDirs /\ w \in DOMAIN spDirs /\ w \in Frame
       /\ WinsOK(spWins) /\ spProcs = [r \in Slot |-> spProcs[r]]
  BY <1>1, <1>3, <1>9, <1>11, <1>12, ProcFacts
<1>14. v \in WindowArea /\ v \in Pages /\ spDirs[d].pages[v] = 0
  BY <1>4, <1>13, PageFacts DEF find_user_space_pages, FirstAbsent, vmmngr_check_virt_present
<1>15. u \in WindowArea /\ u \in Pages /\ s.dirs[w].pages[u] = 0
  BY <1>6, PageFacts DEF find_user_space_pages, FirstAbsent, vmmngr_check_virt_present
<1>16. Sound(Space, kt, H2)
  <2>1. \A e \in DOMAIN Space.dirs, x \in Pages :
            Space.dirs[e].pages[x] # 0 => (<<e, x>> \in H <=> <<e, x>> \in H2)
    BY <1>10, <1>13, <1>14
  <2> QED
    BY <1>13, <2>1, OtherOwners
<1>17. Filled(Space, s, kt, H2, d, {v})
  BY <1>5, <1>10, <1>13, <1>14, <1>16, AllocFills
<1>18. Sound(s, kt, H2) /\ DOMAIN s.dirs = DOMAIN spDirs
       /\ \A e \in DOMAIN spDirs : e # d => s.dirs[e] = spDirs[e]
  BY <1>13, <1>17 DEF Filled
<1>19. <<d, v>> \in H2 /\ <<w, u>> \in H2 /\ H2 \ {<<d, v>>} = H
  <2>1. <<w, u>> \in H /\ <<d, v>> \notin H
    BY <1>9, <1>13, <1>14, <1>15, AreaFacts
  <2> QED
    BY <1>10, <2>1
<1>20. /\ Sound(z, kt, H2 \ {<<d, v>>})
       /\ DOMAIN z.dirs = DOMAIN s.dirs
       /\ \A x \in DOMAIN s.dirs : x # w => z.dirs[x] = s.dirs[x]
  <2>1. /\ Sound(s, kt, H2) /\ d \in DOMAIN s.dirs /\ v \in Pages /\ <<d, v>> \in H2
        /\ w \in DOMAIN s.dirs /\ w # d /\ u \in Pages /\ <<w, u>> \in H2
        /\ s.dirs[w].pages[u] = 0 /\ Left(z.mem)
    BY <1>8, <1>13, <1>14, <1>15, <1>18, <1>19
  <2>2. Handed(s, z, kt, H2, d, v, w, u)
    BY <1>7, <2>1, ShareMoves
  <2> QED
    BY <2>2 DEF Handed
<1>21. Sound(z, kt, H)
  BY <1>19, <1>20, Zenon
<1>22. z.dirs[d] = s.dirs[d]
  BY <1>13, <1>18, <1>20
<1>23. \A x \in Pages : spDirs[d].pages[x] # 0 => z.dirs[d].pages[x] # 0
  BY <1>13, <1>17, <1>22 DEF Filled
<1>24. \A x \in Pages : z.dirs[d].pages[x] # 0 => x \in ProcPages(q)
  <2>1. \A x \in Pages : spDirs[d].pages[x] # 0 => x \in ProcPages(q)
    BY <1>12, <1>13 DEF ProcOK
  <2>2. v \in ProcPages(q)
    BY <1>14 DEF ProcPages
  <2> QED
    BY <1>13, <1>17, <1>22, <2>1, <2>2 DEF Filled
<1>25. ProcOK(q, z.dirs, w, Shell)
  <2>1. /\ \A t \in q.threads : spDirs[d].pages[t.kernel] # 0 /\ t.kernel \in Pages
        /\ \A x \in ProgramPages(q) : spDirs[d].pages[x] # 0 /\ x \in Pages
    BY <1>12, <1>13, ProgramPagesFacts, PageFacts DEF ProcOK
  <2>2. /\ \A t \in q.threads : z.dirs[d].pages[t.kernel] # 0
        /\ \A x \in ProgramPages(q) : z.dirs[d].pages[x] # 0
    BY <1>23, <2>1
  <2>3. d \in DOMAIN z.dirs
    BY <1>13, <1>18, <1>20
  <2> QED
    BY <1>12, <1>13, <1>24, <2>2, <2>3 DEF ProcOK
<1>26. ProcessStep(p, q, d, z)
  <2>1. spProcs' = [spProcs EXCEPT ![p] = q]
    BY <1>1, <1>12, <1>13
  <2>2. WinsOK(spWins')
    BY <1>8, <1>13, <1>15, WinsAppend
  <2>3. Sound(z, KernelTable, Steady(Winsys)) /\ ProcOK(q, z.dirs, Winsys, Shell)
        /\ Winsys \in DOMAIN z.dirs /\ d \in DOMAIN z.dirs
    BY <1>3, <1>9, <1>11, <1>13, <1>18, <1>20, <1>21, <1>25
  <2>4. \A e \in DOMAIN spDirs : e # d /\ e # Winsys => e \in DOMAIN z.dirs /\ z.dirs[e] = spDirs[e]
    BY <1>3, <1>18, <1>20
  <2> QED
    BY <1>1, <1>8, <1>12, <2>1, <2>2, <2>3, <2>4 DEF ProcessStep
<1> QED
  BY <1>26, NextProcess

\* The window's operation is only enqueued.
LEMMA RemoveWindowInv ==
    ASSUME SpaceInv, NEW p \in Slot, NEW i, winsys_remove_window(p, i)
    PROVE  SpaceInv'
<1>1. WinsOK(spWins')
  BY WinsRemoving DEF SpaceInv, winsys_remove_window
<1>2. /\ spMem' = spMem /\ spDirs' = spDirs /\ spProcs' = spProcs /\ spCur' = spCur
      /\ spKernel' = spKernel
  BY DEF winsys_remove_window
<1> QED
  BY <1>1, <1>2 DEF SpaceInv, Space, KernelTable, Winsys, Shell

\* The server gives the window's frame back.
LEMMA RemoveWindowUserInv ==
    ASSUME SpaceInv, NEW i, winsys_remove_window_user(i)
    PROVE  SpaceInv'
<1>1. PICK U : U = {spWins[i].page}
  OBVIOUS
<1>2. PICK z : z = vmmngr_free_virt(Space, Winsys, U)
  OBVIOUS
<1>3. PICK kt : kt = KernelTable
  OBVIOUS
<1>4. PICK H : H = Steady(Winsys)
  OBVIOUS
<1>5. /\ BecomesSpace(z) /\ spWins' = RemoveAt(spWins, i) /\ spProcs' = spProcs
      /\ spCur' = spCur /\ spKernel' = spKernel /\ i \in DOMAIN spWins
  BY <1>1, <1>2 DEF winsys_remove_window_user
<1>6. /\ Sound(Space, kt, H) /\ Space.dirs = spDirs /\ WinsOK(spWins)
      /\ Winsys \in DOMAIN spDirs /\ Shell \in DOMAIN spDirs /\ Winsys # Shell
      /\ spCur \in DOMAIN spDirs /\ spProcs = [r \in Slot |-> spProcs[r]]
      /\ \A r \in Slot : ProcOK(spProcs[r], spDirs, Winsys, Shell)
  BY <1>3, <1>4 DEF SpaceInv, KernelOK, Space, Winsys, Shell
<1>7. U \subseteq Pages
  <2>1. PICK S : spWins \in Seq(S) /\ \A x \in S : x.page \in Pages
    BY <1>6 DEF WinsOK
  <2>2. spWins[i] \in S
    BY <1>5, <2>1
  <2> QED
    BY <1>1, <2>1, <2>2
<1>8. Emptied(Space, z, kt, H, Winsys, U)
  <2>1. Winsys \in Frame
    BY <1>6, SoundMem
  <2>2. \A v \in U : <<Winsys, v>> \in H
    BY <1>4, <1>7, <2>1, AreaFacts
  <2> QED
    BY <1>2, <1>6, <1>7, <2>2, FreeEmpties
<1>9. /\ Sound(z, kt, H) /\ DOMAIN z.dirs = DOMAIN spDirs
      /\ \A e \in DOMAIN spDirs : e # Winsys => z.dirs[e] = spDirs[e]
  BY <1>6, <1>8 DEF Emptied
<1>10. \A r \in Slot : ProcOK(spProcs'[r], z.dirs, Winsys, Shell)
  <2> SUFFICES ASSUME NEW r \in Slot PROVE ProcOK(spProcs[r], z.dirs, Winsys, Shell)
    BY <1>5
  <2>1. spProcs[r].state # "none" => spProcs[r].dir \in DOMAIN spDirs /\ spProcs[r].dir # Winsys
    BY <1>6 DEF ProcOK
  <2>2. spProcs[r].state # "none" => spProcs[r].dir \in DOMAIN z.dirs
                                     /\ z.dirs[spProcs[r].dir] = spDirs[spProcs[r].dir]
    BY <1>9, <2>1
  <2> QED
    BY <1>6, <2>2, ProcSame
<1>11. \A r, t \in Slot : /\ r # t /\ spProcs'[r].state # "none" /\ spProcs'[t].state # "none"
                          => spProcs'[r].dir # spProcs'[t].dir
  BY <1>5 DEF SpaceInv
<1>12. WinsOK(spWins')
  BY <1>5, <1>6, WinsRemoveAt
<1>13. Sound(z, KernelTable, Steady(Winsys))
  BY <1>3, <1>4, <1>9
<1> QED
  BY <1>5, <1>6, <1>9, <1>10, <1>11, <1>12, <1>13, NextSpace
-----------------------------------------------------------------------------
(***************************************************************************)
(* The end of a process                                                    *)
(***************************************************************************)
\* terminateProcessById: only kernel stacks and windows' pages stay.
LEMMA TerminateInv ==
    ASSUME SpaceInv, NEW p \in Slot, terminateProcessById(p)
    PROVE  SpaceInv'
<1>1. PICK old : old = spProcs[p]
  OBVIOUS
<1>2. PICK d : d = old.dir
  OBVIOUS
<1>3. PICK U : U = ImagePages(old.image) \cup {t.user : t \in old.threads}
  OBVIOUS
<1>4. PICK z : z = vmmngr_free_virt(Space, d, U)
  OBVIOUS
<1>5. PICK kt : kt = KernelTable
  OBVIOUS
<1>6. PICK H : H = Steady(Winsys)
  OBVIOUS
<1>7. /\ old.state = "active" /\ BecomesSpace(z)
      /\ spWins' = winsys_remove_windows_by_pid(old.pid)
      /\ spProcs' = [spProcs EXCEPT ![p].state = "terminated"]
      /\ spCur' = spCur /\ spKernel' = spKernel
  BY <1>1, <1>2, <1>3, <1>4 DEF terminateProcessById
<1>8. /\ ProcOK(old, spDirs, Winsys, Shell) /\ d \in DOMAIN spDirs /\ d # Winsys /\ d \in Frame
      /\ Sound(Space, kt, H) /\ Space.dirs = spDirs /\ Winsys \in DOMAIN spDirs /\ WinsOK(spWins)
  BY <1>1, <1>2, <1>5, <1>6, <1>7, ProcFacts
<1>9. old.image \in Images /\ IsProc(old)
      /\ old.threads \subseteq [user : UserStackArea, kernel : KernelStackArea]
  BY <1>7, <1>8 DEF ProcOK
<1>10. U \subseteq UserStackArea /\ U \subseteq Pages
  <2>1. ImagePages(old.image) \subseteq UserStackArea
    BY <1>9, ImageFacts
  <2>2. \A t \in old.threads : t.user \in UserStackArea
    BY <1>9
  <2> QED
    BY <1>3, <2>1, <2>2, PageFacts
<1>11. Emptied(Space, z, kt, H, d, U)
  <2>1. \A v \in U : <<d, v>> \in H
    BY <1>6, <1>8, <1>10, AreaFacts
  <2> QED
    BY <1>4, <1>8, <1>10, <2>1, FreeEmpties
<1>12. /\ Sound(z, kt, H) /\ DOMAIN z.dirs = DOMAIN spDirs
       /\ \A e \in DOMAIN spDirs : e # d => z.dirs[e] = spDirs[e]
       /\ \A v \in Pages : z.dirs[d].pages[v] # 0 => v \notin U /\ spDirs[d].pages[v] # 0
  BY <1>8, <1>11 DEF Emptied
<1>13. PICK q : q = [old EXCEPT !.state = "terminated"]
  OBVIOUS
<1>14. /\ q.state = "terminated" /\ q.dir = d /\ q.image = old.image /\ q.brk = old.brk
       /\ q.threads = old.threads /\ IsProc(q)
  BY <1>2, <1>9, <1>13 DEF IsProc
<1>15. \A v \in Pages : z.dirs[d].pages[v] # 0 => v \in ProcPages(q)
  <2>1. \A v \in Pages : spDirs[d].pages[v] # 0 => v \in ProcPages(old)
    BY <1>2, <1>7, <1>8 DEF ProcOK
  <2>2. ProcPages(old) \ U \subseteq ProcPages(q)
    BY <1>3, <1>7, <1>14 DEF ProcPages
  <2> QED
    BY <1>12, <2>1, <2>2
<1>16. ProcOK(q, z.dirs, Winsys, Shell)
  <2>1. /\ q.dir \in DOMAIN z.dirs /\ q.dir # Winsys /\ q.dir # Shell /\ q.image \in Images
        /\ q.brk \in Nat /\ q.image.base + q.image.size <= q.brk
        /\ q.brk <= q.image.base + q.image.size + SbrkLim
    BY <1>2, <1>7, <1>8, <1>12, <1>14 DEF ProcOK
  <2> QED
    BY <1>9, <1>14, <1>15, <2>1 DEF ProcOK
<1>17. ProcessStep(p, q, d, z)
  <2>1. spProcs' = [spProcs EXCEPT ![p] = q]
    BY <1>1, <1>7, <1>13
  <2>2. WinsOK(spWins')
    BY <1>7, <1>8, WinsByPid
  <2>3. Sound(z, KernelTable, Steady(Winsys)) /\ Winsys \in DOMAIN z.dirs /\ d \in DOMAIN z.dirs
    BY <1>5, <1>6, <1>8, <1>12
  <2>4. spProcs[p].state # "none" /\ d = spProcs[p].dir
    BY <1>1, <1>2, <1>7
  <2> QED
    BY <1>7, <1>12, <1>14, <1>16, <2>1, <2>2, <2>3, <2>4 DEF ProcessStep
<1> QED
  BY <1>17, NextProcess

\* The dispatcher frees a kernel stack and with the last one the directory:
\* nothing of the process is left in it but windows, which the server owns.
LEMMA DispatchInv ==
    ASSUME SpaceInv, NEW p \in Slot, NEW t \in spProcs[p].threads, DispatchTerminated(p, t)
    PROVE  SpaceInv'
<1>1. PICK old : old = spProcs[p]
  OBVIOUS
<1>2. PICK d : d = old.dir
  OBVIOUS
<1>3. PICK U : U = {t.kernel}
  OBVIOUS
<1>4. PICK s : s = vmmngr_free_virt(Space, d, U)
  OBVIOUS
<1>5. PICK z : z = vmmngr_free_pdir(clear_kernel_space(s, d), d)
  OBVIOUS
<1>6. PICK kt : kt = KernelTable
  OBVIOUS
<1>7. PICK H : H = Steady(Winsys)
  OBVIOUS
<1>8. /\ old.state = "terminated" /\ spCur # d
      /\ spCur' = spCur /\ spKernel' = spKernel /\ spWins' = spWins
      /\ \/ /\ old.threads = {t} /\ BecomesSpace(z)
            /\ spProcs' = [spProcs EXCEPT ![p] = NoProc]
         \/ /\ old.threads # {t} /\ BecomesSpace(s)
            /\ spProcs' = [spProcs EXCEPT ![p].threads = @ \ {t}]
  BY <1>1, <1>2, <1>3, <1>4, <1>5 DEF DispatchTerminated
<1>9. /\ ProcOK(old, spDirs, Winsys, Shell) /\ d \in DOMAIN spDirs /\ d # Winsys /\ d \in Frame
      /\ Sound(Space, kt, H) /\ Space.dirs = spDirs /\ Winsys \in DOMAIN spDirs /\ WinsOK(spWins)
  BY <1>1, <1>2, <1>6, <1>7, <1>8, ProcFacts
<1>10. IsProc(old) /\ old.threads \subseteq [user : UserStackArea, kernel : KernelStackArea]
       /\ t.kernel \in KernelStackArea
  BY <1>1, <1>8, <1>9 DEF ProcOK
<1>11. U \subseteq Pages /\ U \subseteq KernelStackArea
  BY <1>3, <1>10, PageFacts
<1>12. Emptied(Space, s, kt, H, d, U)
  <2>1. \A v \in U : <<d, v>> \in H
    BY <1>7, <1>9, <1>11, AreaFacts
  <2> QED
    BY <1>4, <1>9, <1>11, <2>1, FreeEmpties
<1>13. /\ Sound(s, kt, H) /\ DOMAIN s.dirs = DOMAIN spDirs
       /\ \A e \in DOMAIN spDirs : e # d => s.dirs[e] = spDirs[e]
       /\ \A v \in Pages : s.dirs[d].pages[v] # 0 => v \notin U /\ spDirs[d].pages[v] # 0
  BY <1>9, <1>12 DEF Emptied
<1>14. \A v \in Pages : s.dirs[d].pages[v] # 0 =>
           v \in WindowArea \cup {r.kernel : r \in old.threads \ {t}}
  <2>1. \A v \in Pages : spDirs[d].pages[v] # 0 => v \in ProcPages(old)
    BY <1>2, <1>8, <1>9 DEF ProcOK
  <2>2. ProcPages(old) \ U \subseteq WindowArea \cup {r.kernel : r \in old.threads \ {t}}
    BY <1>3, <1>8 DEF ProcPages
  <2> QED
    BY <1>13, <2>1, <2>2
<1>15. spProcs[p].state # "none" /\ d = spProcs[p].dir /\ spCur # d
  BY <1>1, <1>2, <1>8
<1>16. CASE old.threads = {t}
  <2>1. BecomesSpace(z) /\ spProcs' = [spProcs EXCEPT ![p] = NoProc]
    BY <1>8, <1>16
  <2>2. \A v \in Pages : <<d, v>> \in H => s.dirs[d].pages[v] = 0
    <3>1. \A v \in Pages : s.dirs[d].pages[v] # 0 => v \in WindowArea
      BY <1>14, <1>16
    <3> QED
      BY <1>7, <1>9, <3>1, AreaFacts
  <2>3. Sound(z, kt, H) /\ DOMAIN z.dirs = DOMAIN s.dirs \ {d}
        /\ \A e \in DOMAIN s.dirs : e # d => z.dirs[e] = s.dirs[e]
    BY <1>5, <1>9, <1>13, <2>2, FreeDir
  <2>4. ProcOK(NoProc, z.dirs, Winsys, Shell) /\ NoProc.state = "none"
    BY DEF ProcOK, IsProc, NoProc
  <2>5. Sound(z, KernelTable, Steady(Winsys)) /\ Winsys \in DOMAIN z.dirs
    BY <1>6, <1>7, <1>9, <1>13, <2>3
  <2>6. \A e \in DOMAIN spDirs : e # d /\ e # Winsys => e \in DOMAIN z.dirs /\ z.dirs[e] = spDirs[e]
    BY <1>13, <2>3
  <2>7. WinsOK(spWins')
    BY <1>8, <1>9
  <2>8. ProcessStep(p, NoProc, d, z)
    <3> HIDE DEF NoProc
    <3> QED
      BY <1>8, <1>15, <2>1, <2>4, <2>5, <2>6, <2>7 DEF ProcessStep
  <2> QED
    BY <2>8, NextProcess
<1>17. CASE old.threads # {t}
  <2>1. PICK q : q = [old EXCEPT !.threads = @ \ {t}]
    OBVIOUS
  <2>2. BecomesSpace(s) /\ spProcs' = [spProcs EXCEPT ![p] = q]
    BY <1>1, <1>8, <1>17, <2>1
  <2>3. /\ q.state = "terminated" /\ q.dir = d /\ q.image = old.image /\ q.brk = old.brk
        /\ q.threads = old.threads \ {t} /\ IsProc(q)
    BY <1>2, <1>8, <1>10, <2>1 DEF IsProc
  <2>4. \A v \in Pages : s.dirs[d].pages[v] # 0 => v \in ProcPages(q)
    BY <1>14, <2>3 DEF ProcPages
  <2>5. /\ q.dir \in DOMAIN s.dirs /\ q.dir # Winsys /\ q.dir # Shell /\ q.image \in Images
        /\ q.brk \in Nat /\ q.image.base + q.image.size <= q.brk
        /\ q.brk <= q.image.base + q.image.size + SbrkLim
    BY <1>2, <1>8, <1>9, <1>13, <2>3 DEF ProcOK
  <2>6. ProcOK(q, s.dirs, Winsys, Shell)
    BY <1>10, <2>3, <2>4, <2>5 DEF ProcOK
  <2>7. Sound(s, KernelTable, Steady(Winsys)) /\ Winsys \in DOMAIN s.dirs
    BY <1>6, <1>7, <1>9, <1>13
  <2>8. WinsOK(spWins')
    BY <1>8, <1>9
  <2>9. ProcessStep(p, q, d, s)
    BY <1>8, <1>13, <1>15, <2>2, <2>3, <2>6, <2>7, <2>8 DEF ProcessStep
  <2> QED
    BY <2>9, NextProcess
<1> QED
  BY <1>16, <1>17

\* Loading another directory keeps the invariant: it is one that exists.
LEMMA SwitchInv ==
    ASSUME SpaceInv, NEW d, vmmngr_switch_pdirectory(d)
    PROVE  SpaceInv'
<1>1. spCur' \in DOMAIN spDirs
  <2>1. CASE d \in {Shell, Winsys}
    BY <2>1 DEF vmmngr_switch_pdirectory, SpaceInv, KernelOK, Winsys, Shell
  <2>2. CASE d \notin {Shell, Winsys}
    <3>1. PICK p \in Slot : spProcs[p].state = "active" /\ d = spProcs[p].dir
      BY <2>2 DEF vmmngr_switch_pdirectory, Listed
    <3> QED
      BY <3>1 DEF vmmngr_switch_pdirectory, SpaceInv, ProcOK
  <2> QED
    BY <2>1, <2>2
<1>2. /\ spMem' = spMem /\ spDirs' = spDirs /\ spProcs' = spProcs /\ spWins' = spWins
      /\ spKernel' = spKernel
  BY DEF vmmngr_switch_pdirectory
<1> QED
  BY <1>1, <1>2 DEF SpaceInv, Space, KernelTable, Winsys, Shell
-----------------------------------------------------------------------------
\* Every step of processes, the window server and the dispatcher keeps the
\* invariant.
LEMMA StepInv == SpaceInv /\ [SpaceNext]_spaceVars => SpaceInv'
<1> SUFFICES ASSUME SpaceInv, [SpaceNext]_spaceVars PROVE SpaceInv'
  OBVIOUS
<1>1. ASSUME NEW p \in Slot, NEW image \in Images, createProcess(p, image) PROVE SpaceInv'
  BY <1>1, CreateInv
<1>2. CASE CreateFails
  BY <1>2, CreateFailsInv
<1>3. ASSUME NEW p \in Slot, fork(p) PROVE SpaceInv'
  BY <1>3, ForkInv
<1>4. ASSUME NEW p \in Slot, winsys_create_win_user(p) PROVE SpaceInv'
  BY <1>4, CreateWinInv
<1>5. ASSUME NEW p \in Slot, terminateProcessById(p) PROVE SpaceInv'
  BY <1>5, TerminateInv
<1>6. ASSUME NEW p \in Slot, NEW inc \in Increments, inc_proc_brk(p, inc) PROVE SpaceInv'
  BY <1>6, BrkInv
<1>7. ASSUME NEW p \in Slot, NEW i, winsys_remove_window(p, i) PROVE SpaceInv'
  BY <1>7, RemoveWindowInv
<1>8. ASSUME NEW i, winsys_remove_window_user(i) PROVE SpaceInv'
  BY <1>8, RemoveWindowUserInv
<1>9. ASSUME NEW p \in Slot, NEW t \in spProcs[p].threads, DispatchTerminated(p, t) PROVE SpaceInv'
  BY <1>9, DispatchInv
<1>10. ASSUME NEW d, vmmngr_switch_pdirectory(d) PROVE SpaceInv'
  BY <1>10, SwitchInv
<1>11. CASE UNCHANGED spaceVars
  BY <1>11 DEF spaceVars, SpaceInv, Space, KernelTable, Winsys, Shell
<1> QED
  BY <1>1, <1>2, <1>3, <1>4, <1>5, <1>6, <1>7, <1>8, <1>9, <1>10, <1>11 DEF SpaceNext

\* The agreement of memory, directories and processes holds in every state:
\* the inductive invariant of the address spaces.
THEOREM SpaceInvariant == SpaceSpec => []SpaceInv
<1>1. SpaceInit => SpaceInv
  BY InitInv
<1>2. SpaceInv /\ [SpaceNext]_spaceVars => SpaceInv'
  BY StepInv
<1> QED
  BY <1>1, <1>2, PTL DEF SpaceSpec
-----------------------------------------------------------------------------
(***************************************************************************)
(* What follows from the invariant                                         *)
(***************************************************************************)
LEMMA TypeFollows == SpaceInv => SpaceTypeOK
<1> SUFFICES ASSUME SpaceInv PROVE SpaceTypeOK
  OBVIOUS
<1> DEFINE B == BootMap.map \cup {KernelTable}
           g == Holding(Space, Steady(Winsys))
<1>1. Sound(Space, KernelTable, Steady(Winsys)) /\ Space.mem = spMem /\ Space.dirs = spDirs
  BY DEF SpaceInv, Space
<1>2. /\ spMem.map \subseteq Frame /\ spMem.used \in Int /\ 0 \in spMem.map
      /\ \A d \in DOMAIN spDirs : d \in Frame \ {0} /\ spDirs[d] \in Dir
  BY <1>1, SoundMem
<1>3. Owns(spMem, B, g)
  BY <1>1 DEF Sound
<1>4. BootMap.map \subseteq spMem.map
      /\ spMem.used - Cardinality(spMem.map) = BootMap.used - Cardinality(BootMap.map)
  <2> HIDE DEF g
  <2> QED
    BY <1>3 DEF Owns
<1>5. spMem.used \in Nat
  <2>1. IsFiniteSet(spMem.map) /\ Cardinality(spMem.map) \in Nat
    BY <1>2, FrameFacts
  <2>2. Cardinality(BootMap.map) <= Cardinality(spMem.map) /\ Cardinality(BootMap.map) \in Nat
    BY <1>2, <1>4, <2>1, FS_Subset, FrameFacts
  <2> QED
    BY <1>2, <1>4, <2>1, <2>2, BootAssumption
<1>6. \A d \in DOMAIN spDirs : /\ spDirs[d].tables \in [Tables -> Frame]
                               /\ spDirs[d].pages \in [Pages -> Frame]
  BY <1>2 DEF Dir
<1>7. \A p \in Slot : spProcs[p].state \in {"none", "active", "terminated"}
  BY DEF SpaceInv, ProcOK
<1>8. spCur \in Frame /\ spKernel.winsys \in Frame /\ spKernel.shell \in Frame
  BY <1>2 DEF SpaceInv, KernelOK
<1> QED
  BY <1>2, <1>5, <1>6, <1>7, <1>8 DEF SpaceTypeOK

\* The spots that hold a frame are what the directories own.
LEMMA OwnedSpots ==
    ASSUME SpaceInv, NEW g, g = Holding(Space, Steady(Winsys))
    PROVE  /\ Owned = {x \in Spot : g[x] # 0}
           /\ \A o \in Owned : FrameOf(o) = g[o]
<1>1. Sound(Space, KernelTable, Steady(Winsys)) /\ Space.mem = spMem /\ Space.dirs = spDirs
  BY DEF SpaceInv, Space
<1>2. \A d \in DOMAIN spDirs : d \in Frame \ {0} /\ spDirs[d] \in Dir
  BY <1>1, SoundMem
<1>3. ASSUME NEW d \in DOMAIN spDirs, NEW o \in OwnedBy(d)
      PROVE  o \in Spot /\ g[o] # 0 /\ FrameOf(o) = g[o]
  <2>1. CASE o = <<d, "dir", 0>>
    <3>1. o \in Spot
      BY <1>2, <2>1, SpotFacts
    <3> QED
      BY <1>1, <1>2, <2>1, <3>1 DEF Holding, At, FrameOf
  <2>2. CASE \E t \in Tables \ {0} : spDirs[d].tables[t] # 0 /\ o = <<d, "table", t>>
    <3>1. PICK t \in Tables \ {0} : spDirs[d].tables[t] # 0 /\ o = <<d, "table", t>>
      BY <2>2
    <3>2. o \in Spot
      BY <1>2, <3>1, SpotFacts
    <3> QED
      BY <1>1, <3>1, <3>2 DEF Holding, At, FrameOf
  <2>3. CASE \E v \in Pages : /\ spDirs[d].pages[v] # 0 /\ (v \in WindowArea => d = Winsys)
                              /\ o = <<d, "page", v>>
    <3>1. PICK v \in Pages : /\ spDirs[d].pages[v] # 0 /\ (v \in WindowArea => d = Winsys)
                             /\ o = <<d, "page", v>>
      BY <2>3
    <3>2. o \in Spot
      BY <1>2, <3>1, SpotFacts
    <3>3. <<d, v>> \in Steady(Winsys)
      BY <1>2, <3>1 DEF Steady
    <3> QED
      BY <1>1, <3>1, <3>2, <3>3 DEF Holding, At, FrameOf
  <2> QED
    BY <1>3, <2>1, <2>2, <2>3 DEF OwnedBy
<1>4. ASSUME NEW x \in Spot, g[x] # 0
      PROVE  x \in Owned
  <2>1. x = <<x[1], x[2], x[3]>> /\ x[2] \in {"dir", "table", "page"}
    BY SpotFacts
  <2>2. At(Space, Steady(Winsys), x) # 0
    BY <1>4 DEF Holding
  <2>3. x[1] \in DOMAIN spDirs
    BY <1>1, <2>2 DEF At
  <2>4. x \in OwnedBy(x[1])
    <3>1. CASE x[2] = "dir"
      BY <2>1, <2>2, <3>1 DEF At, OwnedBy
    <3>2. CASE x[2] = "table"
      BY <1>1, <2>1, <2>2, <3>2 DEF At, OwnedBy
    <3>3. CASE x[2] = "page"
      <4>1. x[3] \in Pages /\ <<x[1], x[3]>> \in Steady(Winsys) /\ spDirs[x[1]].pages[x[3]] # 0
        BY <1>1, <2>1, <2>2, <3>3 DEF At
      <4>2. x[3] \in WindowArea => x[1] = Winsys
        BY <4>1 DEF Steady
      <4> QED
        BY <2>1, <3>3, <4>1, <4>2 DEF OwnedBy
    <3> QED
      BY <2>1, <3>1, <3>2, <3>3
  <2> QED
    BY <2>3, <2>4 DEF Owned
<1>5. \A o \in Owned : o \in Spot /\ g[o] # 0 /\ FrameOf(o) = g[o]
  BY <1>3 DEF Owned
<1> QED
  BY <1>4, <1>5

\* The invariant says more than FramesOwned: owners are spots that hold a frame,
\* and no two of them hold the same.
LEMMA OwnedFollows == SpaceInv => FramesOwned
<1> SUFFICES ASSUME SpaceInv PROVE FramesOwned
  OBVIOUS
<1>1. PICK g : g = Holding(Space, Steady(Winsys))
  OBVIOUS
<1>2. PICK B : B = BootMap.map \cup {KernelTable}
  OBVIOUS
<1>3. PICK S : S = {x \in Spot : g[x] # 0}
  OBVIOUS
<1>4. PICK F : F = {g[x] : x \in S}
  OBVIOUS
<1>5. Owns(spMem, B, g) /\ KernelTable = spDirs[Winsys].tables[0] /\ spCur \in DOMAIN spDirs
  BY <1>1, <1>2 DEF SpaceInv, Sound, Space, KernelTable
<1>6. Owned = S /\ \A o \in S : FrameOf(o) = g[o]
  BY <1>1, <1>3, OwnedSpots
<1>7. {FrameOf(o) : o \in Owned} = F
  BY <1>4, <1>6
<1>8. F \subseteq spMem.map \ B /\ spMem.map \ B \subseteq F
  <2>1. F \subseteq spMem.map \ B
    BY <1>3, <1>4, <1>5 DEF Owns
  <2>2. ASSUME NEW f \in spMem.map \ B PROVE f \in F
    <3>1. PICK x \in Spot : g[x] = f
      BY <1>5 DEF Owns
    <3>2. f # 0
      BY <1>5 DEF Owns
    <3> QED
      BY <1>3, <1>4, <3>1, <3>2
  <2> QED
    BY <2>1, <2>2
<1>9. spMem.map = B \cup F /\ B \cap F = {}
  BY <1>5, <1>8 DEF Owns
<1>10. \A x, y \in S : g[x] = g[y] => x = y
  BY <1>3, <1>5 DEF Owns
<1>11. IsFiniteSet(S)
  <2>1. IsFiniteSet(F)
    BY <1>5, <1>8, FrameFacts DEF Owns
  <2>2. PICK h : h = [f \in F |-> CHOOSE x \in S : g[x] = f]
    OBVIOUS
  <2>3. \A f \in F : \E x \in S : g[x] = f
    BY <1>4
  <2>4. \A f \in F : h[f] \in S /\ g[h[f]] = f
    BY <2>2, <2>3
  <2>5. h \in Surjection(F, S)
    <3>1. ASSUME NEW x \in S PROVE g[x] \in F /\ h[g[x]] = x
      BY <1>4, <1>10, <2>4
    <3> QED
      BY <2>2, <2>4, <3>1 DEF Surjection
  <2> QED
    BY <2>1, <2>5, FS_Surjection
<1>12. Cardinality(F) = Cardinality(S)
  <2>1. Cardinality({g[x] : x \in S}) = Cardinality(S)
    BY <1>10, <1>11, ImageSize
  <2> QED
    BY <1>4, <2>1
<1>13. spMem.used - Cardinality(spMem.map) = BootMap.used - Cardinality(BootMap.map)
  BY <1>5 DEF Owns
<1>14. SpaceTypeOK
  BY TypeFollows
<1>15. spMem.map = BootMap.map \cup {spDirs[Winsys].tables[0]} \cup {FrameOf(o) : o \in Owned}
       /\ (BootMap.map \cup {spDirs[Winsys].tables[0]}) \cap {FrameOf(o) : o \in Owned} = {}
  BY <1>2, <1>5, <1>7, <1>9
<1>16. Cardinality(Owned) = Cardinality({FrameOf(o) : o \in Owned})
  BY <1>6, <1>7, <1>12
<1> QED
  BY <1>5, <1>13, <1>14, <1>15, <1>16 DEF FramesOwned

\* The invariant says more than HeapMapped: ProcOK names the program's pages.
LEMMA HeapFollows == SpaceInv => HeapMapped
<1> SUFFICES ASSUME SpaceInv, NEW p \in Listed, NEW v \in ProgramPages(spProcs[p])
             PROVE  vmmngr_check_virt_present(Space, spProcs[p].dir, v)
  BY DEF HeapMapped
<1>1. p \in Slot /\ spProcs[p].state = "active"
  BY DEF Listed
<1>2. ProcOK(spProcs[p], spDirs, Winsys, Shell)
  BY <1>1 DEF SpaceInv
<1>3. spDirs[spProcs[p].dir].pages[v] # 0
  BY <1>1, <1>2 DEF ProcOK
<1> QED
  BY <1>3 DEF vmmngr_check_virt_present, Space

\* Every frame in use has one owner and every owned frame is in use: creating,
\* failing to create, forking, growing, killing and dispatching processes and
\* opening and closing windows neither leak a frame nor free one of another.
THEOREM FramesOwnedTheorem == SpaceSpec => []FramesOwned
BY SpaceInvariant, OwnedFollows, PTL

\* A running program has the pages of its sections and of its heap up to the
\* end that sbrk gave it, whatever other processes and their ends do.
THEOREM HeapMappedTheorem == SpaceSpec => []HeapMapped
BY SpaceInvariant, HeapFollows, PTL
=============================================================================
