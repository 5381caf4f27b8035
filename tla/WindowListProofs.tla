-------------------------- MODULE WindowListProofs --------------------------
(***************************************************************************)
(* Theorems about WindowList for any windows, programs and bounds.         *)
(***************************************************************************)
EXTENDS WindowList, TLAPS, FiniteSetTheorems, WellFoundedInduction

(***************************************************************************)
(* kcalloc does not hand out the very window at which the search of        *)
(* another running program for a free id stands (window_sys.c:251): one    *)
(* that was closed and freed meanwhile.  Otherwise the search, begun at    *)
(* the head of the list, may go on in a cleared window and return the      *)
(* desktop's id; a program that closes its window by that id then closes   *)
(* the desktop, and the list may become empty.                             *)
(***************************************************************************)
Fresh == \A p, q \in Program : Create(p) /\ pc[q] = "scan" /\ Runs(q) => mine'[p] # at[q]

NoReuse == [][Fresh]_vars

(***************************************************************************)
(* The inductive invariant.                                                *)
(***************************************************************************)
On(n, s) == {s[i] : i \in 1 .. n}

\* From h the pointers nx lead through s[1], ..., s[n].
Chain(h, nx, n, s) ==
  /\ \A i, j \in 1 .. n : s[i] = s[j] => i = j
  /\ s[1] = h
  /\ \A i \in 1 .. n - 1 : nx[s[i]] = s[i + 1]

\* The list; after its last node it ends or, under the lock, turns back.
Path(n, s) ==
  /\ Chain(head, next, n, s)
  /\ IF step = "cut" THEN s[n] = working /\ next[working] \in On(n, s) \cup {NoWin}
                     ELSE next[s[n]] = NoWin

\* Somebody is going to bring window w to the front.
Pending(w) ==
  \/ \E p \in Program : pc[p] = "announce" /\ mine[p] = w
  \/ \E k \in 1 .. Len(ops) : ops[k] = [op |-> "focus", wid |-> id[w]]
  \/ step = "focus" /\ wid = id[w]

\* The windows in front of the one with the focus.
Order(n, s) ==
  step # "detach" =>
    \A i, j \in 1 .. n : i < j /\ s[i] = working => Pending(s[j]) \/ id[s[j]] = id[working]

ListPath ==
  \E n \in 1 .. Cardinality(Window) : \E s \in [1 .. n -> Window] : Path(n, s) /\ Order(n, s)

\* Only the desktop has the first id, and nothing unlinks it for good.
Ids ==
  /\ Linked \subseteq used
  /\ \A w \in Linked : id[w] >= 1
  /\ \A w \in Window : id[w] = 1 => w = Desktop
  /\ id[Desktop] = 1 /\ owner[Desktop] = Kernel /\ Desktop \in used
  /\ Desktop \in Linked \/ (step = "append" /\ working = Desktop)
  /\ removing # Desktop
  /\ \A k \in 1 .. Len(ops) : ops[k].op = "remove" => ops[k].wid # 1
  /\ \A c \in Client : pc[c] \in {"release", "stop"} => victim[c] \in Program
  /\ \A p \in Program : 1 \notin handles[p]

\* A program that creates a window has it to itself.
Creators ==
  /\ \A p \in Program : pc[p] \in {"scan", "link"} =>
       /\ mine[p] \in used /\ mine[p] \notin Linked
       /\ mine[p] # removing /\ mine[p] # working
       /\ owner[mine[p]] = p /\ next[mine[p]] = NoWin
  /\ \A p \in Program : pc[p] = "scan" /\ p \notin dead =>
       best[p] >= 1 /\ (best[p] = 1 => at[p] # NoWin /\ id[at[p]] >= 1)
  /\ \A p \in Program : pc[p] = "link" => id[mine[p]] >= 2
  /\ \A p \in Program : pc[p] \in {"announce", "copy"} => mine[p] \in Window \ {Desktop}
  /\ \A h \in Handlers : pc[h] = "click" => at[h] \in Window
  /\ \A w \in used : \/ w \in Linked
                     \/ w = removing
                     \/ w = working /\ step = "append"
                     \/ \E p \in Program : mine[p] = w /\ pc[p] \in {"scan", "link"}

\* What the listener has in hand.
Hand ==
  /\ lock <=> step \in {"detach", "append", "cut"}
  /\ step = "idle" => removing = NoWin
  /\ step = "unlink" => removing \in Linked
  /\ step \in {"refocus", "free"} => removing # NoWin
  /\ step # "unlink" /\ removing # NoWin =>
       removing \in used /\ removing \notin Linked /\ (step # "refocus" => removing # working)
  /\ step = "refocus" => working \in Linked \cup {removing}
  /\ step = "append" => working \in used /\ working \notin Linked /\ id[working] >= 1
  /\ step = "append" => next[working] \in Linked \cup {NoWin}
  /\ step \in {"idle", "unlink", "free", "detach", "cut"} => working \in Linked
  /\ step = "detach" => next[head] # NoWin
  /\ step = "focus" =>
       IF removing = NoWin THEN working \in Linked
       ELSE working = NoWin /\ \E w \in Linked : id[w] = wid

IInv == TypeOK /\ ListPath /\ Ids /\ Creators /\ Hand
-----------------------------------------------------------------------------
(***************************************************************************)
(* A non-empty set of natural numbers has a least element.                 *)
(***************************************************************************)
LEMMA Least ==
  ASSUME NEW S, S \subseteq Nat, S # {}
  PROVE  \E i \in S : \A j \in S : i <= j
<1>1. PICK i \in S : \A j \in S : <<j, i>> \notin OpToRel(<, Nat)
  BY WFMin, NatLessThanWellFounded, Zenon
<1>2. ASSUME NEW j \in S, j < i
      PROVE  FALSE
  BY <1>1, <1>2, Zenon DEF OpToRel
<1>. QED
  BY <1>2

(***************************************************************************)
(* The recursion of Node defines it: the walk exists for any pointers.     *)
(***************************************************************************)
LEMMA WalkExists ==
  ASSUME NEW m \in Nat
  PROVE  \E f : f = [k \in 0 .. m |-> IF k = 0 THEN head ELSE After(f[k - 1])]
<1> DEFINE Walk(f, k) == f = [i \in 0 .. k |-> IF i = 0 THEN head ELSE After(f[i - 1])]
           Bad == {k \in Nat : ~ \E f : Walk(f, k)}
<1>1. ASSUME NEW k \in Nat, \A i \in Bad : k <= i
      PROVE  \E f : Walk(f, k)
  <2>1. CASE k = 0
    <3> DEFINE f == [i \in 0 .. 0 |-> head]
    <3>1. Walk(f, 0)
      OBVIOUS
    <3>. QED
      BY <2>1, <3>1
  <2>2. CASE k > 0
    <3>0. k - 1 \in Nat /\ ~ (k <= k - 1)
      BY <2>2
    <3>1. k - 1 \notin Bad
      <4> HIDE DEF Bad
      <4>. QED
        BY <3>0, <1>1
    <3>2. PICK f : Walk(f, k - 1)
      <4> HIDE DEF Walk
      <4>. QED
        BY <3>0, <3>1
    <3> HIDE DEF Bad
    <3> DEFINE g == [i \in 0 .. k |-> IF i < k THEN f[i] ELSE After(f[k - 1])]
    <3>3. ASSUME NEW i \in 0 .. k
          PROVE  g[i] = IF i = 0 THEN head ELSE After(g[i - 1])
      <4>1. CASE i = 0
        BY <4>1, <2>2, <3>2
      <4>2. CASE i > 0 /\ i < k
        <5>1. i \in 0 .. k - 1 /\ i - 1 \in 0 .. k /\ i - 1 < k
          BY <4>2
        <5>2. f[i] = After(f[i - 1]) /\ g[i] = f[i] /\ g[i - 1] = f[i - 1]
          BY <3>2, <5>1, <4>2
        <5>. QED
          BY <5>2, <4>2
      <4>3. CASE i = k
        <5>1. g[k] = After(f[k - 1]) /\ g[k - 1] = f[k - 1]
          BY <2>2
        <5>. QED
          BY <5>1, <4>3, <2>2
      <4>. QED
        BY <4>1, <4>2, <4>3
    <3>4. Walk(g, k)
      BY <3>3
    <3>. QED
      BY <3>4
  <2>. QED
    BY <2>1, <2>2
<1>2. Bad = {}
  <2>1. SUFFICES ASSUME Bad # {} PROVE FALSE
    OBVIOUS
  <2>2. PICK k \in Bad : \A i \in Bad : k <= i
    BY <2>1, Least
  <2>. QED
    BY <2>2, <1>1
<1>. QED
  BY <1>2

LEMMA NodeDef ==
  Node = [k \in 0 .. Cardinality(Window) |-> IF k = 0 THEN head ELSE After(Node[k - 1])]
<1>1. Cardinality(Window) \in Nat
  BY WindowAssumption, FS_CardinalityType
<1> DEFINE Walk(f) == f = [k \in 0 .. Cardinality(Window) |-> IF k = 0 THEN head ELSE After(f[k - 1])]
<1>2. \E f : Walk(f)
  BY <1>1, WalkExists
<1>3. Node = CHOOSE f : Walk(f)
  BY DEF Node, After
<1>4. Walk(CHOOSE f : Walk(f))
  <2> HIDE DEF Walk
  <2>. QED
    BY <1>2, Zenon
<1>. QED
  BY <1>3, <1>4
(***************************************************************************)
(* A set that holds 0 and with each number the next holds all up to m.     *)
(***************************************************************************)
LEMMA UpTo ==
  ASSUME NEW m \in Nat, NEW S, 0 \in S,
         \A k \in 0 .. m : k < m /\ k \in S => k + 1 \in S
  PROVE  \A k \in 0 .. m : k \in S
<1> DEFINE Bad == {k \in 0 .. m : k \notin S}
<1>1. SUFFICES ASSUME Bad # {} PROVE FALSE
  OBVIOUS
<1>2. PICK k \in Bad : \A i \in Bad : k <= i
  <2>1. Bad \subseteq Nat
    OBVIOUS
  <2> HIDE DEF Bad
  <2>. QED
    BY <2>1, <1>1, Least
<1>3. k \in 0 .. m /\ k # 0
  BY <1>2
<1>4. k - 1 \in 0 .. m /\ k - 1 < m /\ (k - 1) + 1 = k /\ ~ (k <= k - 1)
  BY <1>3
<1>5. k - 1 \in S
  BY <1>2, <1>4
<1>. QED
  BY <1>2, <1>4, <1>5

LEMMA WindowCount == Cardinality(Window) \in Nat
BY WindowAssumption, FS_CardinalityType

(***************************************************************************)
(* A reader of the list visits the nodes of the path, and no others.       *)
(***************************************************************************)
LEMMA PathLinked ==
  ASSUME NEW n \in 1 .. Cardinality(Window), NEW s \in [1 .. n -> Window],
         Path(n, s)
  PROVE  /\ Linked = On(n, s)
         /\ step # "cut" => Ends
         /\ \A w \in Linked : next[w] \in Linked \cup {NoWin}
<1> DEFINE C == Cardinality(Window)
<1>1. C \in Nat /\ n \in 1 .. C
  BY WindowCount
<1>2. /\ DOMAIN Node = 0 .. C
      /\ Node[0] = head
      /\ \A k \in 0 .. C : k < C => Node[k + 1] = After(Node[k])
  <2>1. Node = [k \in 0 .. C |-> IF k = 0 THEN head ELSE After(Node[k - 1])]
    BY NodeDef
  <2> HIDE DEF C
  <2>2. ASSUME NEW k \in 0 .. C, k < C
        PROVE  k + 1 \in 0 .. C /\ k + 1 # 0 /\ (k + 1) - 1 = k
    BY <1>1, <2>2
  <2>. QED
    BY <1>1, <2>1, <2>2
<1> HIDE DEF C
<1>3. \A i \in 1 .. n : s[i] \in Window /\ s[i] # NoWin
  BY WindowAssumption
<1>4. ASSUME NEW k \in 0 .. n - 1
      PROVE  Node[k] = s[k + 1]
  <2> DEFINE S == {i \in 0 .. n - 1 : Node[i] = s[i + 1]}
  <2>1. n - 1 \in Nat /\ 0 \in S
    BY <1>2, <1>1 DEF Path, Chain
  <2>2. ASSUME NEW i \in 0 .. n - 1, i < n - 1, i \in S
        PROVE  i + 1 \in S
    <3>1. i + 1 \in 1 .. n - 1 /\ i + 1 \in 0 .. n - 1 /\ i + 1 \in 1 .. n /\ i \in 0 .. C /\ i < C
      BY <2>2, <1>1
    <3>2. Node[i + 1] = After(s[i + 1])
      BY <3>1, <2>2, <1>2
    <3>3. After(s[i + 1]) = s[(i + 1) + 1]
      BY <3>1, <1>3 DEF After, Path, Chain
    <3>. QED
      BY <3>1, <3>2, <3>3
  <2>3. \A i \in 0 .. n - 1 : i \in S
    <3> HIDE DEF S
    <3>. QED
      BY <2>1, <2>2, UpTo
  <2>. QED
    BY <2>3
<1>5. s[n] \in On(n, s) /\ next[s[n]] \in On(n, s) \cup {NoWin}
  BY <1>1 DEF Path, Chain, On
<1>6. ASSUME NEW w \in On(n, s)
      PROVE  w # NoWin /\ next[w] \in On(n, s) \cup {NoWin}
  <2>1. PICK i \in 1 .. n : w = s[i]
    BY DEF On
  <2>2. CASE i = n
    BY <2>1, <2>2, <1>3, <1>5
  <2>3. CASE i < n
    <3>1. i \in 1 .. n - 1 /\ i + 1 \in 1 .. n
      BY <2>3
    <3>. QED
      BY <2>1, <3>1, <1>3 DEF Path, Chain, On
  <2>. QED
    BY <2>2, <2>3
<1>7. ASSUME NEW k \in 0 .. C
      PROVE  Node[k] \in On(n, s) \cup {NoWin}
  <2> DEFINE S == {i \in 0 .. C : Node[i] \in On(n, s) \cup {NoWin}}
  <2>1. 0 \in S
    <3>1. Node[0] = s[1] /\ 1 \in 1 .. n
      BY <1>2, <1>1 DEF Path, Chain
    <3>. QED
      BY <3>1, <1>1 DEF On
  <2>2. ASSUME NEW i \in 0 .. C, i < C, i \in S
        PROVE  i + 1 \in S
    <3>1. Node[i + 1] = After(Node[i]) /\ i + 1 \in 0 .. C
      BY <2>2, <1>2, <1>1
    <3>. QED
      BY <3>1, <2>2, <1>6 DEF After
  <2>3. \A i \in 0 .. C : i \in S
    <3> HIDE DEF S
    <3>. QED
      BY <1>1, <2>1, <2>2, UpTo
  <2>. QED
    BY <2>3
<1>8. Linked = On(n, s)
  <2>1. Linked \subseteq On(n, s)
    BY <1>2, <1>7 DEF Linked
  <2>2. ASSUME NEW w \in On(n, s)
        PROVE  w \in Linked
    <3>1. PICK i \in 1 .. n : w = s[i]
      BY DEF On
    <3>2. i - 1 \in 0 .. n - 1 /\ i - 1 \in 0 .. C /\ (i - 1) + 1 = i
      BY <1>1
    <3>3. Node[i - 1] = w
      BY <1>4, <3>1, <3>2
    <3>. QED
      BY <3>2, <3>3, <1>2, <1>6 DEF Linked
  <2>. QED
    BY <2>1, <2>2
<1>9. ASSUME step # "cut"
      PROVE  Node[C] = NoWin
  <2> DEFINE S == {i \in 0 .. C - n : Node[n + i] = NoWin}
  <2>1. C - n \in Nat
    BY <1>1
  <2>2. 0 \in S
    <3>1. n - 1 \in 0 .. n - 1 /\ (n - 1) + 1 = n /\ n - 1 \in 0 .. C /\ n - 1 < C
      BY <1>1
    <3>2. Node[n - 1] = s[n] /\ Node[n] = After(Node[n - 1])
      BY <3>1, <1>2, <1>4
    <3>3. After(s[n]) = NoWin
      BY <1>9, <1>3 DEF After, Path, Chain
    <3>4. n + 0 = n
      BY <1>1
    <3>. QED
      BY <2>1, <3>2, <3>3, <3>4
  <2>3. ASSUME NEW i \in 0 .. C - n, i < C - n, i \in S
        PROVE  i + 1 \in S
    <3>1. n + i \in 0 .. C /\ n + i < C /\ n + (i + 1) = (n + i) + 1
      BY <2>3, <1>1
    <3>2. Node[(n + i) + 1] = After(Node[n + i])
      BY <3>1, <1>2
    <3>3. Node[n + i] = NoWin
      BY <2>3
    <3>4. Node[n + (i + 1)] = NoWin
      BY <3>1, <3>2, <3>3 DEF After
    <3>5. i + 1 \in 0 .. C - n
      BY <2>3, <2>1, <1>1
    <3>. QED
      BY <3>4, <3>5
  <2>4. \A i \in 0 .. C - n : i \in S
    <3> HIDE DEF S
    <3>. QED
      BY <2>1, <2>2, <2>3, UpTo
  <2>5. C - n \in 0 .. C - n /\ n + (C - n) = C
    BY <1>1, <2>1
  <2>. QED
    BY <2>4, <2>5
<1>. QED
  BY <1>6, <1>8, <1>9 DEF Ends, C
-----------------------------------------------------------------------------
(***************************************************************************)
(* A chain without its j-th node: the node before it, or the head, leads   *)
(* past it.                                                                *)
(***************************************************************************)
Without(n, s, j) == [i \in 1 .. n - 1 |-> IF i < j THEN s[i] ELSE s[i + 1]]

Shortened(h, nx, n, s, j) ==
  LET r == Without(n, s, j)
  IN  /\ r \in [1 .. n - 1 -> Window]
      /\ Chain(h, nx, n - 1, r)
      /\ nx[r[n - 1]] = NoWin
      /\ On(n - 1, r) = On(n, s) \ {s[j]}
      /\ nx[s[j]] \in On(n - 1, r) \cup {NoWin}

LEMMA ChainWithout ==
  ASSUME NEW n \in Nat, n >= 2, NEW s \in [1 .. n -> Window], NEW j \in 1 .. n,
         NEW h, NEW nx \in [Window -> Pointer], NEW h2, NEW nx2,
         Chain(h, nx, n, s), nx[s[n]] = NoWin,
         IF j = 1 THEN h2 = nx[s[1]] /\ nx2 = nx
                  ELSE h2 = h /\ nx2 = [nx EXCEPT ![s[j - 1]] = nx[s[j]]]
  PROVE  Shortened(h2, nx2, n, s, j)
<1> DEFINE r == Without(n, s, j)
           place(i) == IF i < j THEN i ELSE i + 1
<1>1. ASSUME NEW i \in 1 .. n - 1
      PROVE  place(i) \in 1 .. n /\ place(i) # j /\ r[i] = s[place(i)]
  BY DEF Without
<1>2. r \in [1 .. n - 1 -> Window]
  BY <1>1 DEF Without
<1>3. ASSUME NEW i \in 1 .. n - 1, NEW k \in 1 .. n - 1, r[i] = r[k]
      PROVE  i = k
  <2>1. place(i) = place(k)
    BY <1>1, <1>3 DEF Chain
  <2>. QED
    BY <2>1
<1>4. r[1] = h2
  <2>0. 1 \in 1 .. n - 1
    OBVIOUS
  <2>1. CASE j = 1
    BY <2>1, <2>0 DEF Without, Chain
  <2>2. CASE j > 1
    BY <2>2, <2>0 DEF Without, Chain
  <2>. QED
    BY <2>1, <2>2
<1>5. ASSUME NEW i \in 1 .. n - 1
      PROVE  nx2[r[i]] = IF i = n - 1 THEN NoWin ELSE r[i + 1]
  <2>0. \A k \in 1 .. n : nx[s[k]] = IF k = n THEN NoWin ELSE s[k + 1]
    BY DEF Chain
  <2>1. CASE j = 1
    <3>1. r[i] = s[i + 1] /\ i + 1 \in 1 .. n /\ nx2 = nx
      BY <2>1 DEF Without
    <3>2. i # n - 1 => i + 1 \in 1 .. n - 1 /\ r[i + 1] = s[(i + 1) + 1]
      BY <2>1 DEF Without
    <3>. QED
      BY <3>1, <3>2, <2>0
  <2>2. CASE j > 1
    <3>1. j - 1 \in 1 .. n /\ nx2 = [nx EXCEPT ![s[j - 1]] = nx[s[j]]]
      BY <2>2
    <3>2. \A k \in 1 .. n : nx2[s[k]] = IF k = j - 1 THEN nx[s[j]] ELSE nx[s[k]]
      BY <3>1 DEF Chain
    <3>3. CASE i + 1 < j
      <4>1. r[i] = s[i] /\ r[i + 1] = s[i + 1] /\ i # n - 1 /\ i # j - 1 /\ i \in 1 .. n /\ i # n
        BY <3>3 DEF Without
      <4>. QED
        BY <4>1, <3>2, <2>0
    <3>4. CASE i + 1 = j
      <4>1. r[i] = s[i] /\ i = j - 1 /\ i \in 1 .. n
        BY <3>4 DEF Without
      <4>2. nx2[r[i]] = nx[s[j]]
        BY <4>1, <3>2
      <4>3. j = n <=> i = n - 1
        BY <3>4
      <4>4. i # n - 1 => r[i + 1] = s[j + 1]
        BY <3>4 DEF Without
      <4>. QED
        BY <4>2, <4>3, <4>4, <2>0
    <3>5. CASE i + 1 > j
      <4>1. r[i] = s[i + 1] /\ i + 1 # j - 1 /\ i + 1 \in 1 .. n
        BY <3>5 DEF Without
      <4>2. nx2[r[i]] = IF i + 1 = n THEN NoWin ELSE s[(i + 1) + 1]
        BY <4>1, <3>2, <2>0
      <4>3. i # n - 1 => i + 1 \in 1 .. n - 1 /\ r[i + 1] = s[(i + 1) + 1]
        BY <3>5 DEF Without
      <4>. QED
        BY <4>2, <4>3
    <3>. QED
      BY <3>3, <3>4, <3>5
  <2>. QED
    BY <2>1, <2>2
<1>6. Chain(h2, nx2, n - 1, r)
  <2>1. ASSUME NEW i \in 1 .. (n - 1) - 1
        PROVE  nx2[r[i]] = r[i + 1]
    <3>1. i \in 1 .. n - 1 /\ i # n - 1
      OBVIOUS
    <3>. QED
      BY <3>1, <1>5
  <2>. QED
    BY <2>1, <1>3, <1>4 DEF Chain
<1>7. nx2[r[n - 1]] = NoWin
  <2>1. n - 1 \in 1 .. n - 1
    OBVIOUS
  <2>. QED
    BY <2>1, <1>5
<1>8. On(n - 1, r) = On(n, s) \ {s[j]}
  <2>1. ASSUME NEW i \in 1 .. n - 1
        PROVE  r[i] \in On(n, s) /\ r[i] # s[j]
    BY <1>1 DEF Chain, On
  <2>2. ASSUME NEW k \in 1 .. n, k # j
        PROVE  \E i \in 1 .. n - 1 : r[i] = s[k]
    <3>1. CASE k < j
      <4>1. k \in 1 .. n - 1 /\ r[k] = s[k]
        BY <3>1 DEF Without
      <4>. QED
        BY <4>1
    <3>2. CASE k > j
      <4>1. k - 1 \in 1 .. n - 1 /\ ~ (k - 1 < j) /\ (k - 1) + 1 = k
        BY <3>2
      <4>2. r[k - 1] = s[k]
        BY <4>1 DEF Without
      <4>. QED
        BY <4>1, <4>2
    <3>. QED
      BY <2>2, <3>1, <3>2
  <2> HIDE DEF r
  <2>3. On(n - 1, r) \subseteq On(n, s) \ {s[j]}
    BY <2>1 DEF On
  <2>4. ASSUME NEW w \in On(n, s), w # s[j]
        PROVE  w \in On(n - 1, r)
    <3>1. PICK k \in 1 .. n : w = s[k]
      BY DEF On
    <3>2. PICK i \in 1 .. n - 1 : r[i] = s[k]
      BY <2>2, <2>4, <3>1
    <3>. QED
      BY <3>1, <3>2 DEF On
  <2>. QED
    BY <2>3, <2>4
<1>9. nx2[s[j]] \in On(n - 1, r) \cup {NoWin}
  <2>1. nx2[s[j]] = nx[s[j]]
    <3>1. j > 1 => j - 1 \in 1 .. n /\ j - 1 # j
      OBVIOUS
    <3>. QED
      BY <3>1 DEF Chain
  <2>2. CASE j = n
    BY <2>1, <2>2
  <2>3. CASE j < n
    <3>1. nx[s[j]] = s[j + 1] /\ j \in 1 .. n - 1 /\ r[j] = s[j + 1]
      BY <2>3 DEF Chain, Without
    <3>. QED
      BY <3>1, <2>1 DEF On
  <2>. QED
    BY <2>2, <2>3
<1>. QED
  BY <1>2, <1>6, <1>7, <1>8, <1>9 DEF Shortened
(***************************************************************************)
(* A chain with one node more at its end.                                  *)
(***************************************************************************)
With(n, s, w) == [i \in 1 .. n + 1 |-> IF i <= n THEN s[i] ELSE w]

LEMMA ChainWith ==
  ASSUME NEW n \in 1 .. Cardinality(Window), NEW s \in [1 .. n -> Window],
         NEW w \in Window, w \notin On(n, s),
         NEW h, NEW nx \in [Window -> Pointer], Chain(h, nx, n, s),
         NEW ny, ny = [nx EXCEPT ![s[n]] = w]
  PROVE  /\ n + 1 \in 1 .. Cardinality(Window)
         /\ With(n, s, w) \in [1 .. n + 1 -> Window]
         /\ Chain(h, ny, n + 1, With(n, s, w))
         /\ On(n + 1, With(n, s, w)) = On(n, s) \cup {w}
<1> DEFINE C == Cardinality(Window)
           r == With(n, s, w)
<1>0. C \in Nat /\ n \in 1 .. C
  BY WindowCount
<1> HIDE DEF C
<1>1. \A i \in 1 .. n : i \in 1 .. n + 1 /\ r[i] = s[i]
  BY <1>0 DEF With
<1>2. n + 1 \in 1 .. n + 1 /\ r[n + 1] = w
  BY <1>0 DEF With
<1>3. r \in [1 .. n + 1 -> Window]
  BY <1>0 DEF With
<1>4. \A i \in 1 .. n + 1 : i \in 1 .. n \/ i = n + 1
  BY <1>0
<1> HIDE DEF r
<1>5. On(n + 1, r) = On(n, s) \cup {w}
  <2>1. On(n + 1, r) \subseteq On(n, s) \cup {w}
    BY <1>1, <1>2, <1>4 DEF On
  <2>2. On(n, s) \cup {w} \subseteq On(n + 1, r)
    BY <1>1, <1>2 DEF On
  <2>. QED
    BY <2>1, <2>2
<1>6. ASSUME NEW i \in 1 .. n + 1, NEW j \in 1 .. n + 1, r[i] = r[j]
      PROVE  i = j
  <2>1. \A k \in 1 .. n : s[k] # w
    BY DEF On
  <2>. QED
    BY <2>1, <1>1, <1>2, <1>4, <1>6 DEF Chain
<1>7. n + 1 \in 1 .. C
  <2>1. r \in Injection(1 .. n + 1, Window)
    BY <1>3, <1>6 DEF Injection, IsInjective
  <2>2. Cardinality(1 .. n + 1) <= Cardinality(Window)
    BY <2>1, WindowAssumption, FS_Injection
  <2>3. Cardinality(1 .. n + 1) = n + 1
    <3>1. 1 \in Int /\ n + 1 \in Int /\ ~ (1 > n + 1) /\ (n + 1) - 1 + 1 = n + 1
      BY <1>0
    <3>. QED
      BY <3>1, FS_Interval
  <2>. QED
    BY <2>2, <2>3, <1>0 DEF C
<1>8. ASSUME NEW i \in 1 .. n
      PROVE  ny[r[i]] = r[i + 1]
  <2>1. CASE i = n
    BY <2>1, <1>1, <1>2
  <2>2. CASE i # n
    <3>1. i \in 1 .. n - 1 /\ i + 1 \in 1 .. n /\ n \in 1 .. n
      BY <2>2, <1>0
    <3>2. s[i] # s[n] /\ nx[s[i]] = s[i + 1]
      BY <3>1, <2>2 DEF Chain
    <3>. QED
      BY <3>1, <3>2, <1>1
  <2>. QED
    BY <2>1, <2>2
<1>9. Chain(h, ny, n + 1, r)
  <2>1. (n + 1) - 1 = n /\ 1 \in 1 .. n
    BY <1>0
  <2>. QED
    BY <2>1, <1>1, <1>6, <1>8 DEF Chain
<1>. QED
  BY <1>3, <1>5, <1>7, <1>9 DEF C, r
-----------------------------------------------------------------------------
(***************************************************************************)
(* The list in a state and in the next one.                                *)
(***************************************************************************)
Links(n, s) ==
  /\ Linked = On(n, s)
  /\ step # "cut" => Ends
  /\ \A w \in Linked : next[w] \in Linked \cup {NoWin}

LEMMA PathLinks ==
  ASSUME NEW n \in 1 .. Cardinality(Window), NEW s \in [1 .. n -> Window]
  PROVE  Path(n, s) => Links(n, s)
BY PathLinked DEF Links

LEMMA PathLinksNext ==
  ASSUME NEW n \in 1 .. Cardinality(Window), NEW s \in [1 .. n -> Window]
  PROVE  Path(n, s)' => Links(n, s)'
<1>1. Path(n, s) => Links(n, s)
  BY PathLinks
<1>. QED
  BY <1>1, PTL

LEMMA PathFacts ==
  ASSUME NEW n \in 1 .. Cardinality(Window), NEW s \in [1 .. n -> Window],
         Path(n, s)
  PROVE  /\ n \in Nat /\ 1 \in 1 .. n /\ n \in 1 .. n
         /\ Linked = On(n, s)
         /\ Linked \subseteq Window /\ NoWin \notin Linked
         /\ head = s[1] /\ head \in Linked
         /\ \A w \in Linked : next[w] \in Linked \cup {NoWin}
         /\ step # "cut" => Ends /\ Last = s[n] /\ Last \in Linked /\ next[Last] = NoWin
<1>1. /\ n \in Nat /\ 1 \in 1 .. n /\ n \in 1 .. n
  BY WindowCount
<1>2. Linked = On(n, s) /\ (step # "cut" => Ends) /\ \A w \in Linked : next[w] \in Linked \cup {NoWin}
  BY PathLinked
<1>3. On(n, s) \subseteq Window /\ NoWin \notin On(n, s) /\ head = s[1] /\ s[1] \in On(n, s)
  BY <1>1, WindowAssumption DEF On, Path, Chain
<1>4. ASSUME step # "cut"
      PROVE  Last = s[n] /\ next[Last] = NoWin
  <2>1. s[n] \in Linked /\ next[s[n]] = NoWin
    BY <1>1, <1>2, <1>4 DEF On, Path
  <2>2. ASSUME NEW w \in Linked, next[w] = NoWin
        PROVE  w = s[n]
    <3>1. PICK i \in 1 .. n : w = s[i]
      BY <1>2 DEF On
    <3>2. i # n => i \in 1 .. n - 1 /\ i + 1 \in 1 .. n
      BY <1>1
    <3>3. i # n => next[s[i]] \in Window
      BY <3>2 DEF Path, Chain
    <3>. QED
      BY <2>2, <3>1, <3>3, WindowAssumption
  <2>. QED
    BY <2>1, <2>2 DEF Last
<1>. QED
  BY <1>1, <1>2, <1>3, <1>4 DEF On

LEMMA ListFacts ==
  ASSUME ListPath
  PROVE  /\ Linked \subseteq Window /\ NoWin \notin Linked
         /\ head \in Linked
         /\ \A w \in Linked : next[w] \in Linked \cup {NoWin}
         /\ step # "cut" => Ends /\ Last \in Linked /\ next[Last] = NoWin
BY PathFacts DEF ListPath

LEMMA ListFactsNext ==
  ListPath' => /\ Linked' \subseteq Window /\ NoWin \notin Linked'
               /\ head' \in Linked'
               /\ \A w \in Linked' : next'[w] \in Linked' \cup {NoWin}
               /\ step' # "cut" => Ends' /\ Last' \in Linked' /\ next'[Last'] = NoWin
<1> DEFINE F == /\ Linked \subseteq Window /\ NoWin \notin Linked
                /\ head \in Linked
                /\ \A w \in Linked : next[w] \in Linked \cup {NoWin}
                /\ step # "cut" => Ends /\ Last \in Linked /\ next[Last] = NoWin
<1>1. ListPath => F
  BY ListFacts
<1>2. ListPath' => F'
  BY <1>1, PTL
<1>. QED
  BY <1>2

(***************************************************************************)
(* winsys_get_window_by_id finds a linked window with the id if there is   *)
(* one.                                                                    *)
(***************************************************************************)
LEMMA ByIdFacts ==
  ASSUME NEW i
  PROVE  \/ ById(i) \in Linked /\ ById(i) # NoWin /\ id[ById(i)] = i
         \/ ById(i) = NoWin /\ \A w \in Linked : id[w] # i
<1> DEFINE found == {k \in DOMAIN Node : Node[k] # NoWin /\ id[Node[k]] = i}
<1>0. ById(i) = IF found = {} THEN NoWin ELSE Node[CHOOSE k \in found : \A l \in found : k <= l]
  BY DEF ById
<1>1. DOMAIN Node \subseteq Nat
  BY NodeDef, WindowCount
<1>2. CASE found = {}
  BY <1>0, <1>2 DEF Linked
<1>3. CASE found # {}
  <2>1. \E k \in found : \A l \in found : k <= l
    <3>1. found \subseteq Nat
      BY <1>1
    <3> HIDE DEF found
    <3>. QED
      BY <3>1, <1>3, Least
  <2>2. PICK k \in found : ById(i) = Node[k]
    <3> HIDE DEF found
    <3>. QED
      BY <1>0, <1>3, <2>1
  <2>. QED
    BY <2>2 DEF Linked
<1>. QED
  BY <1>2, <1>3

(***************************************************************************)
(* A step that writes no pointer of the list leaves the path.              *)
(***************************************************************************)
LEMMA PathKept ==
  ASSUME NEW n \in 1 .. Cardinality(Window), NEW s \in [1 .. n -> Window],
         Path(n, s), head' = head, \A w \in Linked : next'[w] = next[w],
         (step # "cut" /\ step' # "cut") \/ UNCHANGED << step, working >>
  PROVE  Path(n, s)' /\ Linked' = Linked
<1>1. /\ n \in Nat /\ n \in 1 .. n /\ Linked = On(n, s)
  BY PathFacts
<1>2. \A i \in 1 .. n : s[i] \in Linked /\ next'[s[i]] = next[s[i]]
  BY <1>1 DEF On
<1>3. Chain(head, next, n, s)'
  <2>1. \A i \in 1 .. n - 1 : i \in 1 .. n
    BY <1>1
  <2>. QED
    BY <2>1, <1>2 DEF Path, Chain
<1>4. Path(n, s)'
  BY <1>1, <1>2, <1>3 DEF Path, On
<1>5. Links(n, s)'
  BY <1>4, PathLinksNext
<1>. QED
  BY <1>1, <1>4, <1>5 DEF Links, On

LEMMA ListKept ==
  ASSUME ListPath, head' = head,
         \A w \in Linked : next'[w] = next[w] /\ id'[w] = id[w],
         (step # "cut" /\ step' # "cut") \/ step' = step, working' = working,
         step' # "detach" => step # "detach",
         \A w \in Linked : Pending(w) => Pending(w)' \/ id[w] = id[working]
  PROVE  ListPath' /\ Linked' = Linked
<1>0. PICK n \in 1 .. Cardinality(Window) : \E s \in [1 .. n -> Window] : Path(n, s) /\ Order(n, s)
  BY DEF ListPath
<1>1. PICK s \in [1 .. n -> Window] : Path(n, s) /\ Order(n, s)
  BY <1>0
<1>2. Path(n, s)' /\ Linked' = Linked
  BY <1>1, PathKept
<1>3. Linked = On(n, s)
  BY <1>1, PathFacts
<1>4. Order(n, s)'
  <2>1. \A i \in 1 .. n : s[i] \in Linked
    BY <1>3 DEF On
  <2>. QED
    BY <2>1, <1>1 DEF Order
<1>. QED
  BY <1>2, <1>4 DEF ListPath
-----------------------------------------------------------------------------
(***************************************************************************)
(* The ring of operations.                                                 *)
(***************************************************************************)
Op == [op : {"focus", "remove"}, wid : Nat]

LEMMA EnqueueFacts ==
  ASSUME ops \in Seq(Op), NEW o \in {"focus", "remove"}, NEW i \in Nat,
         Enqueue(o, i)
  PROVE  /\ ops' \in Seq(Op)
         /\ \A k \in 1 .. Len(ops) : k \in 1 .. Len(ops') /\ ops'[k] = ops[k]
         /\ \E k \in 1 .. Len(ops') : ops'[k] = [op |-> o, wid |-> i]
         /\ \A k \in 1 .. Len(ops') : \/ k \in 1 .. Len(ops) /\ ops'[k] = ops[k]
                                      \/ ops'[k] = [op |-> o, wid |-> i]
<1> DEFINE x == [op |-> o, wid |-> i]
<1>1. x \in Op /\ ops' = Append(ops, x)
  BY DEF Op, Enqueue
<1> HIDE DEF x
<1>2. /\ ops' \in Seq(Op) /\ Len(ops) \in Nat /\ Len(ops') = Len(ops) + 1
      /\ ops'[Len(ops) + 1] = x
      /\ \A k \in 1 .. Len(ops) : ops'[k] = ops[k]
  BY <1>1
<1>3. \A k \in 1 .. Len(ops') : k \in 1 .. Len(ops) \/ k = Len(ops) + 1
  BY <1>2
<1>4. Len(ops) + 1 \in 1 .. Len(ops') /\ \A k \in 1 .. Len(ops) : k \in 1 .. Len(ops')
  BY <1>2
<1>. QED
  BY <1>2, <1>3, <1>4 DEF x

\* The same of an operation that a handler may have to drop.
LEMMA SendFacts ==
  ASSUME ops \in Seq(Op), NEW c, NEW o \in {"focus", "remove"}, NEW i \in Nat,
         Send(c, o, i)
  PROVE  /\ ops' \in Seq(Op)
         /\ \A k \in 1 .. Len(ops) : k \in 1 .. Len(ops') /\ ops'[k] = ops[k]
         /\ \A k \in 1 .. Len(ops') : \/ k \in 1 .. Len(ops) /\ ops'[k] = ops[k]
                                      \/ ops'[k] = [op |-> o, wid |-> i]
<1>1. CASE Enqueue(o, i)
  BY <1>1, EnqueueFacts
<1>2. CASE UNCHANGED ops
  BY <1>2
<1>. QED
  BY <1>1, <1>2 DEF Send

LEMMA DequeueFacts ==
  ASSUME ops \in Seq(Op), ops # << >>, ops' = Tail(ops)
  PROVE  /\ ops' \in Seq(Op) /\ Head(ops) \in Op
         /\ \A k \in 1 .. Len(ops') : k + 1 \in 1 .. Len(ops) /\ ops'[k] = ops[k + 1]
         /\ \A k \in 1 .. Len(ops) : \/ ops[k] = Head(ops)
                                     \/ k - 1 \in 1 .. Len(ops') /\ ops'[k - 1] = ops[k]
         /\ 1 \in 1 .. Len(ops) /\ Head(ops) = ops[1]
<1>1. /\ ops' \in Seq(Op) /\ Head(ops) \in Op /\ Len(ops) \in Nat
      /\ Len(ops) > 0 /\ Len(ops') = Len(ops) - 1
      /\ Head(ops) = ops[1]
      /\ \A k \in 1 .. Len(ops) - 1 : ops'[k] = ops[k + 1]
  <2> HIDE DEF Op
  <2>. QED
    OBVIOUS
<1>2. ASSUME NEW k \in 1 .. Len(ops), k # 1
      PROVE  k - 1 \in 1 .. Len(ops') /\ ops'[k - 1] = ops[k]
  <2>1. k - 1 \in 1 .. Len(ops) - 1 /\ (k - 1) + 1 = k
    BY <1>1, <1>2
  <2>. QED
    BY <1>1, <2>1
<1>. QED
  BY <1>1, <1>2

(***************************************************************************)
(* A step of a program or of the mouse that writes neither the list nor    *)
(* the listener's variables.                                               *)
(***************************************************************************)
LEMMA QuietStep ==
  ASSUME IInv, TypeOK', UNCHANGED << listVars, serverVars >>,
         \A k \in 1 .. Len(ops) : k \in 1 .. Len(ops') /\ ops'[k] = ops[k],
         \A k \in 1 .. Len(ops') : ops'[k].op = "remove" => ops'[k].wid # 1,
         \A c \in Client : pc'[c] \in {"release", "stop"} => victim'[c] \in Program,
         \A p \in Program : 1 \notin handles'[p],
         \A p \in Program : pc'[p] \in {"scan", "link"} => pc[p] = pc'[p] /\ mine'[p] = mine[p],
         \A p \in Program : pc[p] \in {"scan", "link"} => pc'[p] = pc[p],
         \A p \in Program : pc'[p] = "scan" /\ p \notin dead' =>
           best'[p] >= 1 /\ (best'[p] = 1 => at'[p] # NoWin /\ id[at'[p]] >= 1),
         \A p \in Program : pc'[p] \in {"announce", "copy"} =>
           pc[p] \in {"announce", "copy"} /\ mine'[p] = mine[p],
         \A p \in Program : pc[p] = "announce" =>
           \/ pc'[p] = "announce" /\ mine'[p] = mine[p]
           \/ \E k \in 1 .. Len(ops') : ops'[k] = [op |-> "focus", wid |-> id[mine[p]]],
         \A h \in Handlers : pc'[h] = "click" => at'[h] \in Window
  PROVE  IInv'
<1>1. ListPath /\ Ids /\ Creators /\ Hand
  BY DEF IInv
<1>2. UNCHANGED << head, next, id, owner, used, working, lock, step, wid, removing >>
  BY DEF listVars, serverVars
<1>3. \A w \in Linked : Pending(w) => Pending(w)'
  BY <1>2 DEF Pending
<1>4. ListPath' /\ Linked' = Linked
  BY <1>1, <1>2, <1>3, ListKept
<1>5. Ids'
  BY <1>1, <1>2, <1>4 DEF Ids
<1>6. Creators'
  BY <1>1, <1>2, <1>4 DEF Creators
<1>7. Hand'
  BY <1>1, <1>2, <1>4 DEF Hand
<1>. QED
  BY <1>4, <1>5, <1>6, <1>7 DEF IInv

(***************************************************************************)
(* The steps of programs and of the mouse that are of this kind.           *)
(***************************************************************************)
LEMMA ClientFacts == /\ \A h \in Handlers : h \in Client /\ h \notin Program
                     /\ \A p \in Program : p \in Client /\ p \notin Handlers /\ p # Kernel
                     /\ \A c \in Client : c \in Program \/ c \in Handlers
BY WindowAssumption DEF Client

LEMMA ScanStep ==
  ASSUME IInv, NEW p \in Program, Scan(p)
  PROVE  IInv'
<1>1. TypeOK /\ Ids /\ Creators
  BY DEF IInv
<1>2. /\ pc[p] = "scan" /\ p \notin dead /\ at[p] # NoWin /\ at[p] \in Window
      /\ best' = [best EXCEPT ![p] = IF id[at[p]] >= @ THEN id[at[p]] + 1 ELSE @]
      /\ at' = [at EXCEPT ![p] = next[@]]
      /\ UNCHANGED << listVars, serverVars, ops, pc, mine, handles, victim, dead >>
  BY <1>1, ClientFacts DEF Scan, Runs, TypeOK, Pointer
<1>3. best' \in [Program -> Nat] /\ best'[p] >= 2
  <2>1. best[p] \in Nat /\ best[p] >= 1 /\ id[at[p]] \in Nat
    BY <1>1, <1>2 DEF TypeOK, Creators
  <2>2. best[p] = 1 => id[at[p]] >= 1
    BY <1>1, <1>2 DEF Creators
  <2>. QED
    BY <1>1, <1>2, <2>1, <2>2 DEF TypeOK
<1>4. at' \in [Client -> Pointer]
  BY <1>1, <1>2, ClientFacts DEF TypeOK, Pointer
<1>5. TypeOK'
  BY <1>1, <1>2, <1>3, <1>4 DEF TypeOK, listVars, serverVars
<1>6. \A q \in Program : q # p => best'[q] = best[q] /\ at'[q] = at[q]
  BY <1>1, <1>2, ClientFacts DEF TypeOK
<1>7. \A h \in Handlers : at'[h] = at[h]
  BY <1>1, <1>2, ClientFacts DEF TypeOK
<1>8. \A q \in Program : pc'[q] = "scan" /\ q \notin dead' =>
        best'[q] >= 1 /\ (best'[q] = 1 => at'[q] # NoWin /\ id[at'[q]] >= 1)
  BY <1>1, <1>2, <1>3, <1>6 DEF Creators, TypeOK
<1>9. UNCHANGED << ops, pc, mine, handles, victim, listVars, serverVars >>
  BY <1>2
<1>. QED
  BY <1>1, <1>5, <1>7, <1>8, <1>9, QuietStep DEF Ids, Creators

LEMMA ReleasePassStep ==
  ASSUME IInv, NEW c \in Client, ReleasePass(c)
  PROVE  IInv'
<1>1. TypeOK /\ Ids /\ Creators
  BY DEF IInv
<1>2. /\ pc[c] = "release" /\ at[c] # NoWin /\ at[c] \in Window
      /\ at' = [at EXCEPT ![c] = next[@]]
      /\ UNCHANGED << listVars, serverVars, ops, pc, mine, handles, best, victim, dead >>
  BY <1>1 DEF ReleasePass, TypeOK, Pointer
<1>3. TypeOK'
  BY <1>1, <1>2 DEF TypeOK, listVars, serverVars, Pointer
<1>4. \A d \in Client : d # c => at'[d] = at[d]
  BY <1>1, <1>2 DEF TypeOK
<1>5. \A q \in Program : pc'[q] = "scan" /\ q \notin dead' =>
        best'[q] >= 1 /\ (best'[q] = 1 => at'[q] # NoWin /\ id[at'[q]] >= 1)
  BY <1>1, <1>2, <1>4, ClientFacts DEF Creators
<1>6. \A h \in Handlers : pc'[h] = "click" => at'[h] \in Window
  BY <1>1, <1>2, <1>4, ClientFacts DEF Creators
<1>. QED
  BY <1>1, <1>2, <1>3, <1>5, <1>6, QuietStep DEF Ids, Creators

\* A context that writes only its own place runs on, or stops its victim next.
LEMMA PlaceFacts ==
  ASSUME IInv, NEW c \in Client, NEW s \in {"run", "release", "stop", "click"},
         pc[c] \in {"run", "release", "click"},
         pc' = [pc EXCEPT ![c] = s],
         \A d \in Client : d # c => at'[d] = at[d] /\ victim'[d] = victim[d],
         s \in {"release", "stop"} => victim'[c] \in Program,
         s = "click" => c \in Handlers /\ at'[c] \in Window,
         UNCHANGED << listVars, best, dead >>
  PROVE  /\ pc' \in [Client -> {"run", "scan", "link", "announce", "copy", "release", "stop", "click"}]
         /\ \A d \in Client : pc'[d] \in {"release", "stop"} => victim'[d] \in Program
         /\ \A q \in Program : pc'[q] # pc[q] =>
              pc'[q] \in {"run", "release", "stop", "click"} /\ pc[q] \in {"run", "release", "click"}
         /\ \A q \in Program : pc'[q] = "scan" /\ q \notin dead' =>
              best'[q] >= 1 /\ (best'[q] = 1 => at'[q] # NoWin /\ id[at'[q]] >= 1)
         /\ \A h \in Handlers : pc'[h] = "click" => at'[h] \in Window
<1>1. TypeOK /\ Ids /\ Creators
  BY DEF IInv
<1>2. pc'[c] = s /\ \A d \in Client : d # c => pc'[d] = pc[d]
  BY <1>1 DEF TypeOK
<1>3. pc' \in [Client -> {"run", "scan", "link", "announce", "copy", "release", "stop", "click"}]
  BY <1>1 DEF TypeOK
<1>4. \A d \in Client : pc'[d] \in {"release", "stop"} => victim'[d] \in Program
  BY <1>1, <1>2 DEF Ids
<1>5. \A q \in Program : pc'[q] # pc[q] =>
        pc'[q] \in {"run", "release", "stop", "click"} /\ pc[q] \in {"run", "release", "click"}
  BY <1>2, ClientFacts
<1>6. \A q \in Program : pc'[q] = "scan" /\ q \notin dead' =>
        best'[q] >= 1 /\ (best'[q] = 1 => at'[q] # NoWin /\ id[at'[q]] >= 1)
  BY <1>1, <1>2, ClientFacts DEF Creators, listVars
<1>7. \A h \in Handlers : pc'[h] = "click" => at'[h] \in Window
  BY <1>1, <1>2, ClientFacts DEF Creators
<1>. QED
  BY <1>3, <1>4, <1>5, <1>6, <1>7

LEMMA ReleaseNoneStep ==
  ASSUME IInv, NEW c \in Client, ReleaseNone(c)
  PROVE  IInv'
<1>1. TypeOK /\ Ids /\ Creators
  BY DEF IInv
<1>2. /\ pc[c] = "release" /\ pc' = [pc EXCEPT ![c] = "stop"] /\ victim[c] \in Program
      /\ UNCHANGED << listVars, serverVars, ops, mine, handles, at, best, victim, dead >>
  BY <1>1 DEF ReleaseNone, Ids
<1>3. TypeOK'
  BY <1>1, <1>2 DEF TypeOK, listVars, serverVars
<1>4. /\ \A d \in Client : pc'[d] \in {"release", "stop"} => victim'[d] \in Program
      /\ \A q \in Program : pc'[q] # pc[q] =>
           pc'[q] \in {"run", "release", "stop", "click"} /\ pc[q] \in {"run", "release", "click"}
      /\ \A q \in Program : pc'[q] = "scan" /\ q \notin dead' =>
           best'[q] >= 1 /\ (best'[q] = 1 => at'[q] # NoWin /\ id[at'[q]] >= 1)
      /\ \A h \in Handlers : pc'[h] = "click" => at'[h] \in Window
  BY <1>2, PlaceFacts
<1>. QED
  BY <1>1, <1>2, <1>3, <1>4, QuietStep DEF Ids, Creators

LEMMA ReleaseFoundStep ==
  ASSUME IInv, NEW c \in Client, ReleaseFound(c)
  PROVE  IInv'
<1>1. TypeOK /\ Ids /\ Creators
  BY DEF IInv
<1>2. /\ pc[c] = "release" /\ at[c] # NoWin /\ owner[at[c]] = victim[c]
      /\ Send(c, "remove", id[at[c]])
      /\ at' = [at EXCEPT ![c] = NoWin] /\ pc' = [pc EXCEPT ![c] = "stop"]
      /\ UNCHANGED << listVars, serverVars, mine, handles, best, victim, dead >>
  BY DEF ReleaseFound
<1>3. /\ at[c] \in Window /\ victim[c] \in Program /\ id[at[c]] \in Nat /\ id[at[c]] # 1
  <2>1. at[c] \in Window /\ victim[c] \in Program
    BY <1>1, <1>2 DEF TypeOK, Pointer, Ids
  <2>2. at[c] # Desktop
    BY <1>1, <1>2, <2>1, ClientFacts DEF Ids
  <2>. QED
    BY <1>1, <2>1, <2>2 DEF Ids, TypeOK
<1>4. /\ ops' \in Seq(Op)
      /\ \A k \in 1 .. Len(ops) : k \in 1 .. Len(ops') /\ ops'[k] = ops[k]
      /\ \A k \in 1 .. Len(ops') : \/ k \in 1 .. Len(ops) /\ ops'[k] = ops[k]
                                   \/ ops'[k] = [op |-> "remove", wid |-> id[at[c]]]
  BY <1>1, <1>2, <1>3, SendFacts DEF TypeOK, Op
<1>5. \A k \in 1 .. Len(ops') : ops'[k].op = "remove" => ops'[k].wid # 1
  BY <1>1, <1>3, <1>4 DEF Ids
<1>6. \A d \in Client : d # c => at'[d] = at[d] /\ victim'[d] = victim[d]
  BY <1>1, <1>2 DEF TypeOK
<1>7. /\ pc' \in [Client -> {"run", "scan", "link", "announce", "copy", "release", "stop", "click"}]
      /\ \A d \in Client : pc'[d] \in {"release", "stop"} => victim'[d] \in Program
      /\ \A q \in Program : pc'[q] # pc[q] =>
           pc'[q] \in {"run", "release", "stop", "click"} /\ pc[q] \in {"run", "release", "click"}
      /\ \A q \in Program : pc'[q] = "scan" /\ q \notin dead' =>
           best'[q] >= 1 /\ (best'[q] = 1 => at'[q] # NoWin /\ id[at'[q]] >= 1)
      /\ \A h \in Handlers : pc'[h] = "click" => at'[h] \in Window
  BY <1>2, <1>3, <1>6, PlaceFacts
<1>8. TypeOK'
  BY <1>1, <1>2, <1>4, <1>7 DEF TypeOK, listVars, serverVars, Op, Pointer
<1>. QED
  BY <1>1, <1>2, <1>4, <1>5, <1>7, <1>8, QuietStep DEF Ids, Creators

\* The threads are marked; of the process only a window under creation is left.
LEMMA StopStep ==
  ASSUME IInv, NEW c \in Client, Stop(c)
  PROVE  IInv'
<1>1. TypeOK /\ Ids /\ Creators
  BY DEF IInv
<1>2. PICK p \in Program : p = victim[c]
  BY <1>1 DEF Stop, Ids
<1> DEFINE creating == pc[p] \in {"scan", "link", "announce"}
<1>3. /\ pc[c] = "stop" /\ dead' = dead \cup {p}
      /\ pc' = [pc EXCEPT ![c] = "run", ![p] = IF creating THEN @ ELSE "run"]
      /\ mine' = [mine EXCEPT ![p] = IF creating THEN @ ELSE NoWin]
      /\ handles' = [handles EXCEPT ![p] = {}]
      /\ at' = [at EXCEPT ![p] = NoWin]
      /\ best' = [best EXCEPT ![p] = 0]
      /\ victim' = [victim EXCEPT ![c] = Kernel, ![p] = Kernel]
      /\ UNCHANGED << listVars, serverVars, ops >>
  BY <1>2 DEF Stop
<1>4. p \in Client /\ p \notin Handlers
  BY ClientFacts
<1>5. /\ \A d \in Client : d # p /\ d # c =>
           pc'[d] = pc[d] /\ at'[d] = at[d] /\ victim'[d] = victim[d]
      /\ c # p => pc'[c] = "run" /\ at'[c] = at[c]
      /\ pc'[p] = IF creating THEN pc[p] ELSE "run"
  BY <1>1, <1>3, <1>4 DEF TypeOK
<1>6. /\ mine'[p] = IF creating THEN mine[p] ELSE NoWin
      /\ handles'[p] = {}
      /\ \A q \in Program : q # p =>
           mine'[q] = mine[q] /\ handles'[q] = handles[q] /\ best'[q] = best[q]
  BY <1>1, <1>3 DEF TypeOK
<1>7. TypeOK'
  <2>1. pc' \in [Client -> {"run", "scan", "link", "announce", "copy", "release", "stop", "click"}]
    BY <1>1, <1>3 DEF TypeOK
  <2>2. /\ mine' \in [Program -> Pointer] /\ handles' \in [Program -> SUBSET Nat]
        /\ at' \in [Client -> Pointer] /\ best' \in [Program -> Nat]
        /\ victim' \in [Client -> Program \cup {Kernel}] /\ dead' \subseteq Program
    BY <1>1, <1>3 DEF TypeOK, Pointer
  <2>. QED
    BY <1>1, <1>3, <2>1, <2>2 DEF TypeOK, listVars, serverVars
<1>8. \A d \in Client : pc'[d] \in {"release", "stop"} => victim'[d] \in Program
  BY <1>1, <1>5 DEF Ids
<1>9. \A q \in Program : 1 \notin handles'[q]
  BY <1>1, <1>6 DEF Ids
<1>10. \A q \in Program : pc[q] \in {"scan", "link", "announce"} \/ pc'[q] \in {"scan", "link", "announce", "copy"} =>
         pc'[q] = pc[q] /\ mine'[q] = mine[q]
  <2>1. SUFFICES ASSUME NEW q \in Program,
                        pc[q] \in {"scan", "link", "announce"} \/ pc'[q] \in {"scan", "link", "announce", "copy"}
                 PROVE  pc'[q] = pc[q] /\ mine'[q] = mine[q]
    OBVIOUS
  <2>2. CASE q = p
    BY <2>1, <2>2, <1>5, <1>6
  <2>3. CASE q # p
    BY <2>1, <2>3, <1>3, <1>5, <1>6, ClientFacts
  <2>. QED
    BY <2>2, <2>3
<1>11. \A q \in Program : pc'[q] = "scan" /\ q \notin dead' =>
         best'[q] >= 1 /\ (best'[q] = 1 => at'[q] # NoWin /\ id[at'[q]] >= 1)
  <2>1. SUFFICES ASSUME NEW q \in Program, pc'[q] = "scan", q \notin dead'
                 PROVE  best'[q] >= 1 /\ (best'[q] = 1 => at'[q] # NoWin /\ id[at'[q]] >= 1)
    OBVIOUS
  <2>2. q # p /\ q # c /\ q \notin dead /\ pc[q] = "scan" /\ best'[q] = best[q] /\ at'[q] = at[q]
    BY <2>1, <1>3, <1>5, <1>6, <1>10, ClientFacts
  <2>. QED
    BY <2>2, <1>1 DEF Creators
<1>12. \A h \in Handlers : pc'[h] = "click" => at'[h] \in Window
  BY <1>1, <1>4, <1>5, ClientFacts DEF Creators
<1>. QED
  BY <1>1, <1>3, <1>7, <1>8, <1>9, <1>10, <1>11, <1>12, QuietStep DEF Ids

LEMMA TerminateStep ==
  ASSUME IInv, NEW c \in Client, NEW p \in Program, Terminate(c, p)
  PROVE  IInv'
<1>1. TypeOK /\ ListPath /\ Ids /\ Creators
  BY DEF IInv
<1>2. /\ pc[c] = "run"
      /\ at' = [at EXCEPT ![c] = head]
      /\ victim' = [victim EXCEPT ![c] = p]
      /\ pc' = [pc EXCEPT ![c] = "release"]
      /\ UNCHANGED << listVars, serverVars, ops, mine, handles, best, dead >>
  BY DEF Terminate
<1>3. TypeOK'
  BY <1>1, <1>2 DEF TypeOK, listVars, serverVars, Pointer
<1>4. /\ victim'[c] = p
      /\ \A d \in Client : d # c => at'[d] = at[d] /\ victim'[d] = victim[d]
  BY <1>1, <1>2 DEF TypeOK
<1>5. /\ \A d \in Client : pc'[d] \in {"release", "stop"} => victim'[d] \in Program
      /\ \A q \in Program : pc'[q] # pc[q] =>
           pc'[q] \in {"run", "release", "stop", "click"} /\ pc[q] \in {"run", "release", "click"}
      /\ \A q \in Program : pc'[q] = "scan" /\ q \notin dead' =>
           best'[q] >= 1 /\ (best'[q] = 1 => at'[q] # NoWin /\ id[at'[q]] >= 1)
      /\ \A h \in Handlers : pc'[h] = "click" => at'[h] \in Window
  BY <1>2, <1>4, PlaceFacts
<1>. QED
  BY <1>1, <1>2, <1>3, <1>5, QuietStep DEF Ids, Creators

LEMMA AnnounceStep ==
  ASSUME IInv, NEW p \in Program, Announce(p)
  PROVE  IInv'
<1>1. TypeOK /\ Ids /\ Creators
  BY DEF IInv
<1>2. /\ pc[p] = "announce" /\ Enqueue("focus", id[mine[p]])
      /\ pc' = [pc EXCEPT ![p] = "copy"]
      /\ UNCHANGED << listVars, serverVars, mine, handles, at, best, victim, dead >>
  BY DEF Announce
<1>3. mine[p] \in Window /\ id[mine[p]] \in Nat
  BY <1>1, <1>2 DEF TypeOK, Creators
<1>4. /\ ops' \in Seq(Op)
      /\ \A k \in 1 .. Len(ops) : k \in 1 .. Len(ops') /\ ops'[k] = ops[k]
      /\ \E k \in 1 .. Len(ops') : ops'[k] = [op |-> "focus", wid |-> id[mine[p]]]
      /\ \A k \in 1 .. Len(ops') : \/ k \in 1 .. Len(ops) /\ ops'[k] = ops[k]
                                   \/ ops'[k] = [op |-> "focus", wid |-> id[mine[p]]]
  <2>1. ops \in Seq(Op)
    BY <1>1 DEF TypeOK, Op
  <2>. QED
    BY <2>1, <1>2, <1>3, EnqueueFacts
<1>5. \A k \in 1 .. Len(ops') : ops'[k].op = "remove" => ops'[k].wid # 1
  BY <1>1, <1>4 DEF Ids
<1>6. TypeOK'
  BY <1>1, <1>2, <1>4 DEF TypeOK, listVars, serverVars, Op, Pointer
<1>7. pc'[p] = "copy" /\ \A d \in Client : d # p => pc'[d] = pc[d]
  BY <1>1, <1>2, ClientFacts DEF TypeOK
<1>8. \A d \in Client : pc'[d] \in {"release", "stop"} => victim'[d] \in Program
  BY <1>1, <1>2, <1>7 DEF Ids
<1>9. \A q \in Program : q # p => pc'[q] = pc[q]
  BY <1>7, ClientFacts
<1>10. \A q \in Program : pc'[q] = "scan" /\ q \notin dead' =>
         best'[q] >= 1 /\ (best'[q] = 1 => at'[q] # NoWin /\ id[at'[q]] >= 1)
  BY <1>1, <1>2, <1>7, <1>9 DEF Creators
<1>11. \A h \in Handlers : pc'[h] = "click" => at'[h] \in Window
  BY <1>1, <1>2, <1>7, ClientFacts DEF Creators
<1>12. \A q \in Program : pc[q] = "announce" =>
         \/ pc'[q] = "announce" /\ mine'[q] = mine[q]
         \/ \E k \in 1 .. Len(ops') : ops'[k] = [op |-> "focus", wid |-> id[mine[q]]]
  BY <1>2, <1>4, <1>9
<1>13. \A q \in Program : 1 \notin handles'[q]
  BY <1>1, <1>2 DEF Ids
<1>. QED
  BY <1>1, <1>2, <1>4, <1>5, <1>6, <1>7, <1>8, <1>9, <1>10, <1>11, <1>12, <1>13, QuietStep

LEMMA CopyStep ==
  ASSUME IInv, NEW p \in Program, Copy(p)
  PROVE  IInv'
<1>1. TypeOK /\ Ids /\ Creators
  BY DEF IInv
<1>2. /\ pc[p] = "copy"
      /\ handles' = [handles EXCEPT ![p] = @ \cup {id[mine[p]]}]
      /\ mine' = [mine EXCEPT ![p] = NoWin]
      /\ pc' = [pc EXCEPT ![p] = "run"]
      /\ UNCHANGED << listVars, serverVars, ops, at, best, victim, dead >>
  BY DEF Copy
<1>3. mine[p] \in Window /\ id[mine[p]] \in Nat /\ id[mine[p]] # 1
  BY <1>1, <1>2 DEF TypeOK, Creators, Ids
<1>4. handles' \in [Program -> SUBSET Nat] /\ \A q \in Program : 1 \notin handles'[q]
  BY <1>1, <1>2, <1>3 DEF TypeOK, Ids
<1>5. TypeOK'
  BY <1>1, <1>2, <1>4 DEF TypeOK, listVars, serverVars, Pointer
<1>6. /\ pc'[p] = "run"
      /\ \A d \in Client : d # p => pc'[d] = pc[d]
      /\ \A q \in Program : q # p => mine'[q] = mine[q]
  BY <1>1, <1>2, ClientFacts DEF TypeOK
<1>7. \A d \in Client : pc'[d] \in {"release", "stop"} => victim'[d] \in Program
  BY <1>1, <1>2, <1>6 DEF Ids
<1>8. \A q \in Program : q # p => pc'[q] = pc[q] /\ mine'[q] = mine[q]
  BY <1>6, ClientFacts
<1>9. \A q \in Program : pc'[q] = "scan" /\ q \notin dead' =>
        best'[q] >= 1 /\ (best'[q] = 1 => at'[q] # NoWin /\ id[at'[q]] >= 1)
  BY <1>1, <1>2, <1>6, <1>8 DEF Creators
<1>10. \A h \in Handlers : pc'[h] = "click" => at'[h] \in Window
  BY <1>1, <1>2, <1>6, ClientFacts DEF Creators
<1>. QED
  BY <1>1, <1>2, <1>4, <1>5, <1>6, <1>7, <1>8, <1>9, <1>10, QuietStep DEF Ids

LEMMA CloseOwnStep ==
  ASSUME IInv, NEW p \in Program, CloseOwn(p)
  PROVE  IInv'
<1>1. TypeOK /\ Ids /\ Creators
  BY DEF IInv
<1>2. PICK i \in handles[p] : /\ Enqueue("remove", i)
                              /\ handles' = [handles EXCEPT ![p] = @ \ {i}]
  BY DEF CloseOwn
<1>3. UNCHANGED << listVars, serverVars, pc, mine, at, best, victim, dead >>
  BY DEF CloseOwn
<1>4. i \in Nat /\ i # 1 /\ ops \in Seq(Op)
  BY <1>1, <1>2 DEF TypeOK, Ids, Op
<1>5. /\ ops' \in Seq(Op)
      /\ \A k \in 1 .. Len(ops) : k \in 1 .. Len(ops') /\ ops'[k] = ops[k]
      /\ \A k \in 1 .. Len(ops') : \/ k \in 1 .. Len(ops) /\ ops'[k] = ops[k]
                                   \/ ops'[k] = [op |-> "remove", wid |-> i]
  BY <1>2, <1>4, EnqueueFacts
<1>6. \A k \in 1 .. Len(ops') : ops'[k].op = "remove" => ops'[k].wid # 1
  BY <1>1, <1>4, <1>5 DEF Ids
<1>7. handles' \in [Program -> SUBSET Nat] /\ \A q \in Program : 1 \notin handles'[q]
  BY <1>1, <1>2 DEF TypeOK, Ids
<1>8. TypeOK'
  BY <1>1, <1>3, <1>5, <1>7 DEF TypeOK, listVars, serverVars, Op
<1>. QED
  BY <1>1, <1>3, <1>5, <1>6, <1>7, <1>8, QuietStep DEF Ids, Creators

LEMMA ClickStep ==
  ASSUME IInv, NEW h \in Handlers, NEW w \in Window, Click(h, w)
  PROVE  IInv'
<1>1. TypeOK /\ Ids /\ Creators
  BY DEF IInv
<1>2. /\ pc[h] = "run" /\ h \in Client
      /\ at' = [at EXCEPT ![h] = w]
      /\ pc' = [pc EXCEPT ![h] = "click"]
      /\ UNCHANGED << listVars, serverVars, ops, mine, handles, best, victim, dead >>
  BY ClientFacts DEF Click
<1>3. TypeOK'
  BY <1>1, <1>2 DEF TypeOK, listVars, serverVars, Pointer
<1>4. /\ at'[h] = w
      /\ \A d \in Client : d # h => at'[d] = at[d] /\ victim'[d] = victim[d]
  BY <1>1, <1>2 DEF TypeOK
<1>5. /\ \A d \in Client : pc'[d] \in {"release", "stop"} => victim'[d] \in Program
      /\ \A q \in Program : pc'[q] # pc[q] =>
           pc'[q] \in {"run", "release", "stop", "click"} /\ pc[q] \in {"run", "release", "click"}
      /\ \A q \in Program : pc'[q] = "scan" /\ q \notin dead' =>
           best'[q] >= 1 /\ (best'[q] = 1 => at'[q] # NoWin /\ id[at'[q]] >= 1)
      /\ \A g \in Handlers : pc'[g] = "click" => at'[g] \in Window
  BY <1>2, <1>4, PlaceFacts
<1>. QED
  BY <1>1, <1>2, <1>3, <1>5, QuietStep DEF Ids, Creators

LEMMA SendClickStep ==
  ASSUME IInv, NEW h \in Handlers, SendClick(h)
  PROVE  IInv'
<1>1. TypeOK /\ Ids /\ Creators
  BY DEF IInv
<1>2. /\ pc[h] = "click" /\ h \in Client /\ Send(h, "focus", id[at[h]])
      /\ at' = [at EXCEPT ![h] = NoWin]
      /\ pc' = [pc EXCEPT ![h] = "run"]
      /\ UNCHANGED << listVars, serverVars, mine, handles, best, victim, dead >>
  BY ClientFacts DEF SendClick
<1>3. id[at[h]] \in Nat
  BY <1>1, <1>2 DEF TypeOK, Creators
<1>4. /\ ops' \in Seq(Op)
      /\ \A k \in 1 .. Len(ops) : k \in 1 .. Len(ops') /\ ops'[k] = ops[k]
      /\ \A k \in 1 .. Len(ops') : \/ k \in 1 .. Len(ops) /\ ops'[k] = ops[k]
                                   \/ ops'[k] = [op |-> "focus", wid |-> id[at[h]]]
  BY <1>1, <1>2, <1>3, SendFacts DEF TypeOK, Op
<1>5. \A k \in 1 .. Len(ops') : ops'[k].op = "remove" => ops'[k].wid # 1
  BY <1>1, <1>4 DEF Ids
<1>6. \A d \in Client : d # h => at'[d] = at[d] /\ victim'[d] = victim[d]
  BY <1>1, <1>2 DEF TypeOK
<1>7. /\ pc' \in [Client -> {"run", "scan", "link", "announce", "copy", "release", "stop", "click"}]
      /\ \A d \in Client : pc'[d] \in {"release", "stop"} => victim'[d] \in Program
      /\ \A q \in Program : pc'[q] # pc[q] =>
           pc'[q] \in {"run", "release", "stop", "click"} /\ pc[q] \in {"run", "release", "click"}
      /\ \A q \in Program : pc'[q] = "scan" /\ q \notin dead' =>
           best'[q] >= 1 /\ (best'[q] = 1 => at'[q] # NoWin /\ id[at'[q]] >= 1)
      /\ \A g \in Handlers : pc'[g] = "click" => at'[g] \in Window
  BY <1>2, <1>6, PlaceFacts
<1>8. TypeOK'
  BY <1>1, <1>2, <1>4, <1>7 DEF TypeOK, listVars, serverVars, Op, Pointer
<1>. QED
  BY <1>1, <1>2, <1>4, <1>5, <1>7, <1>8, QuietStep DEF Ids, Creators

(***************************************************************************)
(* A window is created, gets its id and is linked.                         *)
(***************************************************************************)
LEMMA CreateStep ==
  ASSUME IInv, NEW p \in Program, Create(p),
         \A q \in Program : pc[q] = "scan" /\ q \notin dead => mine'[p] # at[q]
  PROVE  IInv'
<1>1. TypeOK /\ ListPath /\ Ids /\ Creators /\ Hand
  BY DEF IInv
<1>2. PICK w \in Window \ used :
        /\ used' = used \cup {w}
        /\ owner' = [owner EXCEPT ![w] = p]
        /\ next' = [next EXCEPT ![w] = NoWin]
        /\ id' = [id EXCEPT ![w] = 0]
        /\ mine' = [mine EXCEPT ![p] = w]
  BY DEF Create
<1>3. /\ pc[p] = "run"
      /\ at' = [at EXCEPT ![p] = head]
      /\ best' = [best EXCEPT ![p] = 1]
      /\ pc' = [pc EXCEPT ![p] = "scan"]
      /\ created' = created + 1
      /\ UNCHANGED << head, working, lock, step, wid, removing, ops, handles, victim, dead >>
  BY DEF Create, serverVars
<1>4. /\ Linked \subseteq Window /\ head \in Linked /\ w \notin Linked
      /\ Linked \subseteq used /\ id[head] >= 1 /\ head # NoWin
  BY <1>1, <1>2, ListFacts DEF Ids
<1>5. TypeOK'
  BY <1>1, <1>2, <1>3, <1>4, ClientFacts DEF TypeOK, Pointer
<1>6. /\ \A v \in used : next'[v] = next[v] /\ id'[v] = id[v] /\ owner'[v] = owner[v]
      /\ \A v \in Window : v # w => next'[v] = next[v] /\ id'[v] = id[v] /\ owner'[v] = owner[v]
      /\ next'[w] = NoWin /\ id'[w] = 0 /\ owner'[w] = p
  BY <1>1, <1>2 DEF TypeOK
<1>7. /\ pc'[p] = "scan" /\ mine'[p] = w /\ best'[p] = 1 /\ at'[p] = head
      /\ \A q \in Program : q # p => pc'[q] = pc[q] /\ mine'[q] = mine[q] /\ best'[q] = best[q] /\ at'[q] = at[q]
      /\ \A d \in Client : d # p => pc'[d] = pc[d] /\ at'[d] = at[d]
  BY <1>1, <1>2, <1>3, ClientFacts DEF TypeOK
<1>8. \A v \in Linked : Pending(v) => Pending(v)'
  BY <1>3, <1>4, <1>6, <1>7 DEF Pending
<1>9. ListPath' /\ Linked' = Linked
  <2>1. \A v \in Linked : next'[v] = next[v] /\ id'[v] = id[v]
    BY <1>4, <1>6
  <2>. QED
    BY <1>1, <1>3, <1>8, <2>1, ListKept
<1>10. Ids'
  <2>1. \A d \in Client : pc'[d] \in {"release", "stop"} => victim'[d] \in Program
    BY <1>1, <1>3, <1>7 DEF Ids
  <2>2. w # Desktop
    BY <1>1, <1>2 DEF Ids
  <2>. QED
    BY <1>1, <1>2, <1>3, <1>4, <1>6, <1>9, <2>1, <2>2, WindowAssumption DEF Ids
<1>11. Hand'
  BY <1>1, <1>2, <1>3, <1>4, <1>6, <1>9 DEF Hand
<1>12. w # removing /\ w # working
  BY <1>1, <1>2, <1>4, WindowAssumption DEF Hand, TypeOK
<1>13. Creators'
  <2>1. \A q \in Program : pc'[q] \in {"scan", "link"} =>
          /\ mine'[q] \in used' /\ mine'[q] \notin Linked'
          /\ mine'[q] # removing' /\ mine'[q] # working'
          /\ owner'[mine'[q]] = q /\ next'[mine'[q]] = NoWin
    BY <1>1, <1>2, <1>3, <1>4, <1>6, <1>7, <1>9, <1>12 DEF Creators
  <2>2. ASSUME NEW q \in Program, pc'[q] = "scan", q \notin dead'
        PROVE  best'[q] >= 1 /\ (best'[q] = 1 => at'[q] # NoWin /\ id'[at'[q]] >= 1)
    <3>1. CASE q = p
      BY <3>1, <1>4, <1>6, <1>7
    <3>2. CASE q # p
      <4>1. q \notin dead /\ at[q] # w /\ pc[q] = "scan" /\ at[q] \in Pointer
        BY <3>2, <2>2, <1>1, <1>3, <1>7, ClientFacts DEF TypeOK
      <4>2. at[q] # NoWin => id'[at[q]] = id[at[q]]
        BY <4>1, <1>6 DEF Pointer
      <4>. QED
        BY <3>2, <2>2, <4>1, <4>2, <1>1, <1>7 DEF Creators
    <3>. QED
      BY <3>1, <3>2
  <2>3. \A q \in Program : pc'[q] = "link" => id'[mine'[q]] >= 2
    BY <1>1, <1>6, <1>7 DEF Creators
  <2>4. \A q \in Program : pc'[q] \in {"announce", "copy"} => mine'[q] \in Window \ {Desktop}
    BY <1>1, <1>7 DEF Creators
  <2>5. \A h \in Handlers : pc'[h] = "click" => at'[h] \in Window
    BY <1>1, <1>7, ClientFacts DEF Creators
  <2>6. \A v \in used' : \/ v \in Linked'
                         \/ v = removing'
                         \/ v = working' /\ step' = "append"
                         \/ \E q \in Program : mine'[q] = v /\ pc'[q] \in {"scan", "link"}
    BY <1>1, <1>2, <1>3, <1>7, <1>9 DEF Creators
  <2>. QED
    BY <2>1, <2>2, <2>3, <2>4, <2>5, <2>6 DEF Creators
<1>. QED
  BY <1>5, <1>9, <1>10, <1>11, <1>13 DEF IInv

LEMMA TakeIdStep ==
  ASSUME IInv, NEW p \in Program, TakeId(p)
  PROVE  IInv'
<1>1. TypeOK /\ ListPath /\ Ids /\ Creators /\ Hand
  BY DEF IInv
<1>2. /\ pc[p] = "scan" /\ p \notin dead /\ at[p] = NoWin
      /\ id' = [id EXCEPT ![mine[p]] = best[p]]
      /\ best' = [best EXCEPT ![p] = 0]
      /\ pc' = [pc EXCEPT ![p] = "link"]
      /\ UNCHANGED << head, next, owner, used, created, working, lock, step, wid, removing, ops, mine, handles, at, victim, dead >>
  BY DEF TakeId, Runs, serverVars
<1>3. /\ mine[p] \in used /\ mine[p] \in Window /\ mine[p] \notin Linked
      /\ mine[p] # Desktop
      /\ best[p] \in Nat /\ best[p] >= 2
  BY <1>1, <1>2 DEF TypeOK, Creators, Ids
<1>4. TypeOK'
  BY <1>1, <1>2, <1>3, ClientFacts DEF TypeOK
<1>5. /\ id'[mine[p]] = best[p]
      /\ \A v \in Window : v # mine[p] => id'[v] = id[v]
      /\ \A v \in Linked : id'[v] = id[v]
  BY <1>1, <1>2, <1>3, ListFacts DEF TypeOK
<1>6. /\ pc'[p] = "link"
      /\ \A q \in Program : q # p => pc'[q] = pc[q] /\ best'[q] = best[q]
      /\ \A d \in Client : d # p => pc'[d] = pc[d]
  BY <1>1, <1>2, ClientFacts DEF TypeOK
<1>7. ListPath' /\ Linked' = Linked
  <2>1. \A v \in Linked : Pending(v) => Pending(v)'
    BY <1>2, <1>5, <1>6 DEF Pending
  <2>. QED
    BY <1>1, <1>2, <1>5, <2>1, ListKept
<1>8. Ids'
  <2>1. \A d \in Client : pc'[d] \in {"release", "stop"} => victim'[d] \in Program
    BY <1>1, <1>2, <1>6 DEF Ids
  <2>2. \A v \in Window : id'[v] = 1 => v = Desktop
    BY <1>1, <1>3, <1>5 DEF Ids
  <2>. QED
    BY <1>1, <1>2, <1>3, <1>5, <1>7, <2>1, <2>2, WindowAssumption DEF Ids
<1>9. Hand'
  <2>1. step = "append" => id'[working] = id[working]
    BY <1>1, <1>2, <1>5 DEF Hand, Creators, TypeOK
  <2>. QED
    BY <1>1, <1>2, <1>5, <1>7, <2>1 DEF Hand
<1>10. Creators'
  <2>1. \A q \in Program : pc'[q] \in {"scan", "link"} <=> pc[q] \in {"scan", "link"}
    BY <1>2, <1>6
  <2>2. ASSUME NEW q \in Program, pc'[q] = "scan", q \notin dead'
        PROVE  best'[q] >= 1 /\ (best'[q] = 1 => at'[q] # NoWin /\ id'[at'[q]] >= 1)
    <3>1. q # p /\ q \notin dead /\ pc[q] = "scan" /\ at[q] \in Pointer /\ best'[q] = best[q]
      BY <2>2, <1>1, <1>2, <1>6, ClientFacts DEF TypeOK
    <3>2. best[q] >= 1 /\ (best[q] = 1 => at[q] # NoWin /\ id[at[q]] >= 1)
      BY <3>1, <1>1 DEF Creators
    <3>3. best[q] = 1 => id'[at[q]] >= 1
      BY <3>1, <3>2, <1>3, <1>5 DEF Pointer
    <3>. QED
      BY <3>1, <3>2, <3>3, <1>2
  <2>3. ASSUME NEW q \in Program, pc'[q] = "link"
        PROVE  id'[mine'[q]] >= 2
    <3>1. CASE q = p
      BY <3>1, <1>2, <1>3, <1>5
    <3>2. CASE q # p
      <4>1. pc[q] = "link" /\ mine[q] \in Window /\ id[mine[q]] >= 2
        BY <3>2, <2>3, <1>1, <1>6 DEF Creators, TypeOK
      <4>. QED
        BY <4>1, <1>2, <1>3, <1>5
    <3>. QED
      BY <3>1, <3>2
  <2>4. \A h \in Handlers : pc'[h] = "click" => at'[h] \in Window
    BY <1>1, <1>2, <1>6, ClientFacts DEF Creators
  <2>5. \A q \in Program : pc'[q] \in {"announce", "copy"} => mine'[q] \in Window \ {Desktop}
    BY <1>1, <1>2, <1>6 DEF Creators
  <2>. QED
    BY <1>1, <1>2, <1>7, <2>1, <2>2, <2>3, <2>4, <2>5 DEF Creators
<1>. QED
  BY <1>4, <1>7, <1>8, <1>9, <1>10 DEF IInv

(***************************************************************************)
(* Writing w behind the last node appends it.                              *)
(***************************************************************************)
LEMMA PathAppended ==
  ASSUME NEW n \in 1 .. Cardinality(Window), NEW s \in [1 .. n -> Window],
         Path(n, s), step # "cut", next \in [Window -> Pointer],
         NEW w \in Window, w \notin Linked,
         head' = head, next' = [next EXCEPT ![Last] = w],
         IF step' = "cut" THEN working' = w /\ next[w] \in Linked \cup {NoWin}
                          ELSE next[w] = NoWin
  PROVE  LET r == With(n, s, w)
         IN  /\ n + 1 \in 1 .. Cardinality(Window)
             /\ r \in [1 .. n + 1 -> Window]
             /\ Path(n + 1, r)'
             /\ Linked' = Linked \cup {w}
<1> DEFINE r == With(n, s, w)
<1>1. n \in Nat /\ Linked = On(n, s) /\ Last = s[n] /\ Last \in Linked
  BY PathFacts
<1> HIDE DEF r
<1>2. /\ n + 1 \in 1 .. Cardinality(Window)
      /\ r \in [1 .. n + 1 -> Window]
      /\ Chain(head, next', n + 1, r)
      /\ On(n + 1, r) = On(n, s) \cup {w}
  <2>1. Chain(head, next, n, s) /\ w \notin On(n, s)
    BY <1>1 DEF Path
  <2>2. next' = [next EXCEPT ![s[n]] = w]
    BY <1>1
  <2>3. ASSUME NEW h, NEW nx \in [Window -> Pointer], NEW ny,
               Chain(h, nx, n, s), ny = [nx EXCEPT ![s[n]] = w]
        PROVE  /\ n + 1 \in 1 .. Cardinality(Window)
               /\ r \in [1 .. n + 1 -> Window]
               /\ Chain(h, ny, n + 1, r)
               /\ On(n + 1, r) = On(n, s) \cup {w}
    <3>1. n + 1 \in 1 .. Cardinality(Window)
      BY <2>1, <2>3, ChainWith
    <3>2. With(n, s, w) \in [1 .. n + 1 -> Window]
      BY <2>1, <2>3, ChainWith
    <3>3. Chain(h, ny, n + 1, With(n, s, w))
      BY <2>1, <2>3, ChainWith
    <3>4. On(n + 1, With(n, s, w)) = On(n, s) \cup {w}
      BY <2>1, <2>3, ChainWith
    <3>. QED
      BY <3>1, <3>2, <3>3, <3>4 DEF r
  <2>. QED
    BY <2>1, <2>2, <2>3
<1>3. r[n + 1] = w
  BY <1>1 DEF With, r
<1>4. next'[w] = next[w]
  BY <1>1
<1>5. Path(n + 1, r)'
  BY <1>1, <1>2, <1>3, <1>4 DEF Path, On, Chain
<1>6. Links(n + 1, r)'
  BY <1>2, <1>5, PathLinksNext
<1>7. Linked' = Linked \cup {w}
  BY <1>1, <1>2, <1>6 DEF Links, On
<1>. QED
  BY <1>2, <1>5, <1>7 DEF r

LEMMA LinkStep ==
  ASSUME IInv, NEW p \in Program, Link(p)
  PROVE  IInv'
<1>1. TypeOK /\ ListPath /\ Ids /\ Creators /\ Hand
  BY DEF IInv
<1>0. PICK w \in Window : w = mine[p]
  BY <1>1 DEF Link, Creators, TypeOK
<1>2. /\ pc[p] = "link" /\ ~ lock
      /\ next' = [next EXCEPT ![Last] = w]
      /\ pc' = [pc EXCEPT ![p] = "announce"]
      /\ UNCHANGED << head, id, owner, used, created, working, lock, step, wid, removing, ops, mine, handles, at, best, victim, dead >>
  BY <1>0 DEF Link, serverVars
<1>3. step \notin {"detach", "append", "cut"}
  BY <1>1, <1>2 DEF Hand
<1>4. /\ w \in used /\ w \in Window /\ w \notin Linked /\ w # removing /\ w # working
      /\ next[w] = NoWin /\ id[w] >= 2
  BY <1>0, <1>1, <1>2 DEF Creators, TypeOK
<1>5. Last \in Linked /\ Linked \subseteq Window
  BY <1>1, <1>3, ListFacts
<1>6. TypeOK'
  BY <1>1, <1>2, <1>4, <1>5, ClientFacts DEF TypeOK, Pointer
<1>7. /\ pc'[p] = "announce"
      /\ \A q \in Program : q # p => pc'[q] = pc[q]
      /\ \A d \in Client : d # p => pc'[d] = pc[d]
  BY <1>1, <1>2, ClientFacts DEF TypeOK
<1>8. ListPath' /\ Linked' = Linked \cup {w}
  <2>0. PICK n \in 1 .. Cardinality(Window) : \E s \in [1 .. n -> Window] : Path(n, s) /\ Order(n, s)
    BY <1>1 DEF ListPath
  <2>1. PICK s \in [1 .. n -> Window] : Path(n, s) /\ Order(n, s)
    BY <2>0
  <2>2. PICK r \in [1 .. n + 1 -> Window] :
          /\ n + 1 \in 1 .. Cardinality(Window)
          /\ r = With(n, s, w)
          /\ Path(n + 1, r)'
          /\ Linked' = Linked \cup {w}
    <3>1. next \in [Window -> Pointer]
      BY <1>1 DEF TypeOK
    <3>2. step' # "cut" /\ step # "cut" /\ head' = head
      BY <1>2, <1>3
    <3>. QED
      BY <3>1, <3>2, <2>1, <1>2, <1>4, PathAppended
  <2>3. n \in Nat /\ \A i \in 1 .. n : s[i] \in Linked
    BY <2>1, PathFacts DEF On
  <2>4. r[n + 1] = w /\ \A i \in 1 .. n : r[i] = s[i]
    BY <2>2, <2>3 DEF With
  <2>5. \A v \in Linked : Pending(v) => Pending(v)'
    BY <1>2, <1>7 DEF Pending
  <2>6. Pending(w)'
    BY <1>0, <1>2, <1>7 DEF Pending
  <2>7. Order(n + 1, r)'
    <3>1. SUFFICES ASSUME NEW i \in 1 .. n + 1, NEW j \in 1 .. n + 1, i < j, r[i] = working
                   PROVE  Pending(r[j])' \/ id[r[j]] = id[working]
      BY <1>2 DEF Order
    <3>2. CASE j = n + 1
      BY <3>2, <2>4, <2>6
    <3>3. CASE j # n + 1
      <4>1. i \in 1 .. n /\ j \in 1 .. n
        BY <3>1, <3>3, <2>3
      <4>2. Pending(s[j]) \/ id[s[j]] = id[working]
        BY <4>1, <3>1, <2>1, <2>4, <1>3 DEF Order
      <4>. QED
        BY <4>1, <4>2, <2>3, <2>4, <2>5
    <3>. QED
      BY <3>2, <3>3
  <2>. QED
    BY <2>2, <2>7 DEF ListPath
<1>9. Ids'
  <2>1. \A d \in Client : pc'[d] \in {"release", "stop"} => victim'[d] \in Program
    BY <1>1, <1>2, <1>7 DEF Ids
  <2>. QED
    BY <1>1, <1>2, <1>4, <1>8, <2>1 DEF Ids, TypeOK
<1>10. Hand'
  BY <1>1, <1>2, <1>3, <1>4, <1>8 DEF Hand
<1>11. Creators'
  <2>1. ASSUME NEW q \in Program, pc'[q] \in {"scan", "link"}
        PROVE  /\ mine'[q] \in used' /\ mine'[q] \notin Linked'
               /\ mine'[q] # removing' /\ mine'[q] # working'
               /\ owner'[mine'[q]] = q /\ next'[mine'[q]] = NoWin
               /\ pc'[q] = "link" => id'[mine'[q]] >= 2
    <3>1. q # p /\ pc[q] \in {"scan", "link"} /\ pc'[q] = pc[q]
      BY <2>1, <1>7
    <3>2. /\ mine[q] \in used /\ mine[q] \notin Linked
          /\ mine[q] # removing /\ mine[q] # working
          /\ owner[mine[q]] = q /\ next[mine[q]] = NoWin
          /\ pc[q] = "link" => id[mine[q]] >= 2
      BY <3>1, <1>1 DEF Creators
    <3>3. mine[q] # w
      BY <3>1, <3>2, <1>0, <1>1, <1>2 DEF Creators
    <3>4. next'[mine[q]] = next[mine[q]]
      BY <3>2, <1>2, <1>5, <1>1 DEF TypeOK
    <3>. QED
      BY <3>1, <3>2, <3>3, <3>4, <1>2, <1>8
  <2>2. \A q \in Program : pc'[q] = "scan" /\ q \notin dead' =>
          best'[q] >= 1 /\ (best'[q] = 1 => at'[q] # NoWin /\ id'[at'[q]] >= 1)
    BY <1>1, <1>2, <1>7 DEF Creators
  <2>3. \A q \in Program : pc'[q] \in {"announce", "copy"} => mine'[q] \in Window \ {Desktop}
    <3>1. w # Desktop
      BY <1>1, <1>4 DEF Ids
    <3>. QED
      BY <3>1, <1>0, <1>1, <1>2, <1>4, <1>7 DEF Creators
  <2>4. \A h \in Handlers : pc'[h] = "click" => at'[h] \in Window
    BY <1>1, <1>2, <1>7, ClientFacts DEF Creators
  <2>5. \A v \in used' : \/ v \in Linked'
                         \/ v = removing'
                         \/ v = working' /\ step' = "append"
                         \/ \E q \in Program : mine'[q] = v /\ pc'[q] \in {"scan", "link"}
    BY <1>0, <1>1, <1>2, <1>7, <1>8 DEF Creators
  <2>. QED
    BY <2>1, <2>2, <2>3, <2>4, <2>5 DEF Creators
<1>. QED
  BY <1>6, <1>8, <1>9, <1>10, <1>11 DEF IInv
-----------------------------------------------------------------------------
(***************************************************************************)
(* Unlinking w takes it out of the path and keeps the order of the others. *)
(***************************************************************************)
Suborder(m, r, n, s) ==
  \A i, j \in 1 .. m : i < j => \E k, l \in 1 .. n : k < l /\ r[i] = s[k] /\ r[j] = s[l]

LEMMA PathUnlinked ==
  ASSUME NEW n \in 1 .. Cardinality(Window), NEW s \in [1 .. n -> Window],
         Path(n, s), step # "cut", step' # "cut", next \in [Window -> Pointer],
         NEW w \in Window, w \in Linked, NEW v \in Linked, v # w, Unlink(w)
  PROVE  /\ n - 1 \in 1 .. Cardinality(Window)
         /\ \E r \in [1 .. n - 1 -> Window] : Path(n - 1, r)' /\ Suborder(n - 1, r, n, s)
         /\ Linked' = Linked \ {w}
         /\ next'[w] \in Linked' \cup {NoWin}
<1>1. /\ n \in Nat /\ Cardinality(Window) \in Nat /\ Linked = On(n, s) /\ head = s[1]
      /\ Chain(head, next, n, s) /\ next[s[n]] = NoWin
  BY PathFacts, WindowCount DEF Path
<1>2. PICK j \in 1 .. n : w = s[j]
  BY <1>1 DEF On
<1>3. n >= 2 /\ n - 1 \in 1 .. Cardinality(Window)
  <2>1. PICK k \in 1 .. n : v = s[k]
    BY <1>1 DEF On
  <2>2. k # j
    BY <1>2, <2>1
  <2>. QED
    BY <1>1, <2>2
<1>4. j = 1 <=> head = w
  BY <1>1, <1>2, <1>3 DEF Chain
<1>5. ASSUME j # 1
      PROVE  (CHOOSE u \in Linked : next[u] = w) = s[j - 1]
  <2>1. j - 1 \in 1 .. n - 1 /\ j - 1 \in 1 .. n /\ (j - 1) + 1 = j
    BY <1>5, <1>1
  <2>2. s[j - 1] \in Linked /\ next[s[j - 1]] = w
    BY <2>1, <1>1, <1>2 DEF On, Chain
  <2>3. ASSUME NEW u \in Linked, next[u] = w
        PROVE  u = s[j - 1]
    <3>1. PICK k \in 1 .. n : u = s[k]
      BY <1>1 DEF On
    <3>2. k # n
      BY <3>1, <2>3, <1>1, WindowAssumption
    <3>3. k \in 1 .. n - 1 /\ k + 1 \in 1 .. n
      BY <3>2, <1>1
    <3>4. s[k + 1] = s[j]
      BY <3>1, <3>3, <2>3, <1>1, <1>2 DEF Chain
    <3>5. k + 1 = j
      BY <3>3, <3>4, <1>1 DEF Chain
    <3>. QED
      BY <3>1, <3>3, <3>5
  <2>. QED
    BY <2>2, <2>3
<1>6. IF j = 1 THEN head' = next[s[1]] /\ next' = next
               ELSE head' = head /\ next' = [next EXCEPT ![s[j - 1]] = next[s[j]]]
  BY <1>2, <1>4, <1>5 DEF Unlink
<1>7. PICK r : r = Without(n, s, j)
  OBVIOUS
<1>8. /\ r \in [1 .. n - 1 -> Window]
      /\ Chain(head', next', n - 1, r)
      /\ next'[r[n - 1]] = NoWin
      /\ On(n - 1, r) = On(n, s) \ {s[j]}
      /\ next'[s[j]] \in On(n - 1, r) \cup {NoWin}
  <2>1. PICK h, nx, h2, nx2 : h = head /\ nx = next /\ h2 = head' /\ nx2 = next'
    OBVIOUS
  <2>2. /\ Chain(h, nx, n, s) /\ nx \in [Window -> Pointer] /\ nx[s[n]] = NoWin
        /\ IF j = 1 THEN h2 = nx[s[1]] /\ nx2 = nx
                    ELSE h2 = h /\ nx2 = [nx EXCEPT ![s[j - 1]] = nx[s[j]]]
    BY <2>1, <1>1, <1>6
  <2>3. Shortened(h2, nx2, n, s, j)
    BY <2>2, <1>1, <1>3, ChainWithout
  <2>4. /\ r \in [1 .. n - 1 -> Window]
        /\ Chain(h2, nx2, n - 1, r)
        /\ nx2[r[n - 1]] = NoWin
        /\ On(n - 1, r) = On(n, s) \ {s[j]}
        /\ nx2[s[j]] \in On(n - 1, r) \cup {NoWin}
    BY <2>3, <1>7 DEF Shortened
  <2>. QED
    BY <2>1, <2>4
<1>9. Path(n - 1, r)'
  BY <1>8 DEF Path
<1>10. Linked' = Linked \ {w}
  <2>1. Links(n - 1, r)'
    BY <1>3, <1>8, <1>9, PathLinksNext
  <2>. QED
    BY <2>1, <1>1, <1>2, <1>8 DEF Links, On
<1>11. ASSUME NEW i \in 1 .. n - 1, NEW k \in 1 .. n - 1, i < k
       PROVE  \E a, b \in 1 .. n : a < b /\ r[i] = s[a] /\ r[k] = s[b]
  <2> DEFINE place(m) == IF m < j THEN m ELSE m + 1
  <2>1. /\ place(i) \in 1 .. n /\ place(k) \in 1 .. n /\ place(i) < place(k)
        /\ r[i] = s[place(i)] /\ r[k] = s[place(k)]
    BY <1>1, <1>7, <1>11 DEF Without
  <2>. QED
    BY <2>1
<1>12. Suborder(n - 1, r, n, s)
  BY <1>11 DEF Suborder
<1>. QED
  BY <1>1, <1>2, <1>3, <1>8, <1>9, <1>10, <1>12
(***************************************************************************)
(* Unlinking writes the head or a pointer of a linked window.              *)
(***************************************************************************)
LEMMA UnlinkWrites ==
  ASSUME NEW n \in 1 .. Cardinality(Window), NEW s \in [1 .. n -> Window],
         Path(n, s), next \in [Window -> Pointer],
         NEW w \in Window, w \in Linked, Unlink(w)
  PROVE  /\ head' \in Pointer /\ next' \in [Window -> Pointer]
         /\ \A u \in Window : u \notin Linked => next'[u] = next[u]
<1>1. /\ n \in Nat /\ Linked = On(n, s) /\ head = s[1] /\ head \in Window
      /\ next[w] \in Pointer
  BY PathFacts
<1>2. CASE head = w
  BY <1>1, <1>2 DEF Unlink
<1>3. CASE head # w
  <2>1. (CHOOSE u \in Linked : next[u] = w) \in Linked
    <3>1. PICK j \in 1 .. n : w = s[j]
      BY <1>1 DEF On
    <3>2. j - 1 \in 1 .. n - 1 /\ j - 1 \in 1 .. n /\ (j - 1) + 1 = j
      BY <1>1, <1>3, <3>1
    <3>3. next[s[j - 1]] = w /\ s[j - 1] \in Linked
      BY <1>1, <3>1, <3>2 DEF Path, Chain, On
    <3>. QED
      BY <3>3
  <2>2. next' = [next EXCEPT ![CHOOSE u \in Linked : next[u] = w] = next[w]] /\ head' = head
    BY <1>3 DEF Unlink
  <2>. QED
    BY <1>1, <2>1, <2>2 DEF Pointer
<1>. QED
  BY <1>2, <1>3

-----------------------------------------------------------------------------
(***************************************************************************)
(* The steps of the listener.                                              *)
(***************************************************************************)
LEMMA CreatorsKept ==
  ASSUME Creators, UNCHANGED << id, owner, clientVars >>,
         \A p \in Program : pc[p] \in {"scan", "link"} =>
           /\ mine[p] \in used' /\ mine[p] \notin Linked'
           /\ mine[p] # removing' /\ mine[p] # working'
           /\ next'[mine[p]] = next[mine[p]],
         \A w \in used' : \/ w \in Linked'
                          \/ w = removing'
                          \/ w = working' /\ step' = "append"
                          \/ \E p \in Program : mine[p] = w /\ pc[p] \in {"scan", "link"}
  PROVE  Creators'
BY DEF Creators, clientVars

LEMMA CreatorFacts ==
  ASSUME IInv
  PROVE  /\ TypeOK /\ ListPath /\ Ids /\ Creators /\ Hand
         /\ \A p \in Program : pc[p] \in {"scan", "link"} =>
              /\ mine[p] \in used /\ mine[p] \in Window /\ mine[p] \notin Linked
              /\ mine[p] # removing /\ mine[p] # working /\ mine[p] # NoWin
BY WindowAssumption DEF IInv, Creators, TypeOK

LEMMA TakeFocusStep ==
  ASSUME IInv, TakeFocus
  PROVE  IInv'
<1>1. TypeOK /\ ListPath /\ Ids /\ Creators /\ Hand
  BY DEF IInv
<1>2. /\ step = "idle" /\ ops # << >> /\ Head(ops).op = "focus"
      /\ wid' = Head(ops).wid /\ ops' = Tail(ops) /\ step' = "focus"
      /\ UNCHANGED << head, next, id, owner, used, created, working, lock, removing, clientVars >>
  BY DEF TakeFocus, listVars
<1>3. /\ ops' \in Seq(Op) /\ Head(ops) \in Op
      /\ \A k \in 1 .. Len(ops') : k + 1 \in 1 .. Len(ops) /\ ops'[k] = ops[k + 1]
      /\ \A k \in 1 .. Len(ops) : \/ ops[k] = Head(ops)
                                  \/ k - 1 \in 1 .. Len(ops') /\ ops'[k - 1] = ops[k]
  <2>1. ops \in Seq(Op)
    BY <1>1 DEF TypeOK, Op
  <2>. QED
    BY <2>1, <1>2, DequeueFacts
<1>4. TypeOK'
  BY <1>1, <1>2, <1>3 DEF TypeOK, Op, clientVars
<1>5. \A w \in Linked : Pending(w) => Pending(w)'
  <2>1. SUFFICES ASSUME NEW w \in Linked, Pending(w) PROVE Pending(w)'
    OBVIOUS
  <2>2. CASE \E p \in Program : pc[p] = "announce" /\ mine[p] = w
    BY <2>2, <1>2 DEF Pending, clientVars
  <2>3. CASE \E k \in 1 .. Len(ops) : ops[k] = [op |-> "focus", wid |-> id[w]]
    <3>1. PICK k \in 1 .. Len(ops) : ops[k] = [op |-> "focus", wid |-> id[w]]
      BY <2>3
    <3>2. CASE ops[k] = Head(ops)
      <4>1. step' = "focus" /\ wid' = id'[w]
        BY <3>1, <3>2, <1>2
      <4>. QED
        BY <4>1 DEF Pending
    <3>3. CASE k - 1 \in 1 .. Len(ops') /\ ops'[k - 1] = ops[k]
      BY <3>1, <3>3, <1>2 DEF Pending
    <3>. QED
      BY <3>2, <3>3, <1>3
  <2>. QED
    BY <2>1, <2>2, <2>3, <1>2 DEF Pending
<1>6. ListPath' /\ Linked' = Linked
  BY <1>1, <1>2, <1>5, ListKept
<1>7. Ids'
  BY <1>1, <1>2, <1>3, <1>6 DEF Ids, clientVars
<1>8. Creators'
  BY <1>1, <1>2, <1>6, CreatorFacts, CreatorsKept DEF Creators
<1>9. Hand'
  BY <1>1, <1>2, <1>6 DEF Hand
<1>. QED
  BY <1>4, <1>6, <1>7, <1>8, <1>9 DEF IInv

LEMMA TakeRemoveStep ==
  ASSUME IInv, TakeRemove
  PROVE  IInv'
<1>1. TypeOK /\ ListPath /\ Ids /\ Creators /\ Hand
  BY DEF IInv
<1>2. /\ step = "idle" /\ ops # << >> /\ Head(ops).op = "remove"
      /\ removing' = ById(Head(ops).wid)
      /\ step' = IF removing' = NoWin THEN "idle" ELSE "unlink"
      /\ ops' = Tail(ops)
      /\ UNCHANGED << head, next, id, owner, used, created, working, lock, wid, clientVars >>
  BY DEF TakeRemove, listVars
<1>3. /\ ops' \in Seq(Op) /\ Head(ops) \in Op
      /\ \A k \in 1 .. Len(ops') : k + 1 \in 1 .. Len(ops) /\ ops'[k] = ops[k + 1]
      /\ \A k \in 1 .. Len(ops) : \/ ops[k] = Head(ops)
                                  \/ k - 1 \in 1 .. Len(ops') /\ ops'[k - 1] = ops[k]
      /\ 1 \in 1 .. Len(ops) /\ Head(ops) = ops[1]
  <2>1. ops \in Seq(Op)
    BY <1>1 DEF TypeOK, Op
  <2>. QED
    BY <2>1, <1>2, DequeueFacts
<1>4. /\ removing = NoWin /\ removing' \in Linked \cup {NoWin} /\ Linked \subseteq Window
      /\ removing' # NoWin => id[removing'] = Head(ops).wid
  BY <1>1, <1>2, ByIdFacts, ListFacts DEF Hand
<1>5. removing' # Desktop
  <2>1. Head(ops).wid # 1
    BY <1>1, <1>2, <1>3 DEF Ids
  <2>2. Desktop # NoWin
    BY WindowAssumption
  <2>. QED
    BY <1>1, <1>4, <2>1, <2>2 DEF Ids
<1>6. TypeOK'
  BY <1>1, <1>2, <1>3, <1>4 DEF TypeOK, Op, clientVars, Pointer
<1>7. \A w \in Linked : Pending(w) => Pending(w)'
  <2>1. SUFFICES ASSUME NEW w \in Linked, Pending(w) PROVE Pending(w)'
    OBVIOUS
  <2>2. CASE \E p \in Program : pc[p] = "announce" /\ mine[p] = w
    BY <2>2, <1>2 DEF Pending, clientVars
  <2>3. CASE \E k \in 1 .. Len(ops) : ops[k] = [op |-> "focus", wid |-> id[w]]
    <3>1. PICK k \in 1 .. Len(ops) : ops[k] = [op |-> "focus", wid |-> id[w]]
      BY <2>3
    <3>2. k - 1 \in 1 .. Len(ops') /\ ops'[k - 1] = ops[k]
      BY <3>1, <1>2, <1>3
    <3>. QED
      BY <3>1, <3>2, <1>2 DEF Pending
  <2>. QED
    BY <2>1, <2>2, <2>3, <1>2 DEF Pending
<1>8. ListPath' /\ Linked' = Linked
  BY <1>1, <1>2, <1>7, ListKept
<1>9. Ids'
  BY <1>1, <1>2, <1>3, <1>5, <1>8 DEF Ids, clientVars
<1>10. Creators'
  <2>1. \A p \in Program : pc[p] \in {"scan", "link"} =>
          /\ mine[p] \in used' /\ mine[p] \notin Linked'
          /\ mine[p] # removing' /\ mine[p] # working'
          /\ next'[mine[p]] = next[mine[p]]
    BY <1>2, <1>4, <1>8, CreatorFacts
  <2>2. \A w \in used : \/ w \in Linked
                       \/ \E p \in Program : mine[p] = w /\ pc[p] \in {"scan", "link"}
    <3>1. NoWin \notin used
      BY <1>1, WindowAssumption DEF TypeOK
    <3>. QED
      BY <1>1, <1>2, <1>4, <3>1 DEF Creators
  <2>. QED
    BY <1>1, <1>2, <1>8, <2>1, <2>2, CreatorsKept
<1>11. Hand'
  BY <1>1, <1>2, <1>4, <1>8 DEF Hand
<1>. QED
  BY <1>6, <1>8, <1>9, <1>10, <1>11 DEF IInv

LEMMA FocusStep ==
  ASSUME IInv, Focus
  PROVE  IInv'
<1>1. TypeOK /\ ListPath /\ Ids /\ Creators /\ Hand
  BY DEF IInv
<1> DEFINE w == ById(wid)
<1>2. /\ step = "focus" /\ ~ lock
      /\ UNCHANGED << head, next, id, owner, used, created, removing, ops, clientVars >>
  BY DEF Focus, listVars
<1>3. \/ w \in Linked /\ w # NoWin /\ id[w] = wid
      \/ w = NoWin /\ \A v \in Linked : id[v] # wid
  BY ByIdFacts
<1>4. \/ w = NoWin /\ Back /\ UNCHANGED << working, lock >>
      \/ w # NoWin /\ working' = w /\ (w = working \/ next[head] = NoWin) /\ Back /\ UNCHANGED lock
      \/ w # NoWin /\ working' = w /\ next[head] # NoWin
         /\ step' = "detach" /\ lock' = TRUE /\ UNCHANGED wid
  BY DEF Focus
<1> HIDE DEF w
<1>5. /\ step' \in {"idle", "free", "detach"} /\ wid' \in Nat
      /\ step' = "detach" => lock' /\ next[head] # NoWin
      /\ step' # "detach" => ~ lock' /\ (step' = "idle" <=> removing = NoWin)
  BY <1>1, <1>2, <1>4 DEF Back, TypeOK
<1>6. Linked \subseteq Window /\ NoWin \notin Linked /\ head \in Linked
  BY <1>1, ListFacts
<1>7. working' \in Linked
  BY <1>1, <1>2, <1>3, <1>4 DEF Hand
<1>8. TypeOK'
  <2>1. /\ step' \in {"idle", "focus", "detach", "append", "cut", "unlink", "refocus", "free"}
        /\ working' \in Pointer
    BY <1>5, <1>6, <1>7 DEF Pointer
  <2>2. lock \in BOOLEAN
    BY <1>1 DEF TypeOK
  <2>3. lock' \in BOOLEAN
    BY <2>2, <1>4
  <2>. QED
    BY <1>1, <1>2, <1>5, <2>1, <2>3 DEF TypeOK, clientVars
<1>9. ListPath' /\ Linked' = Linked
  <2>0. PICK n \in 1 .. Cardinality(Window) : \E s \in [1 .. n -> Window] : Path(n, s) /\ Order(n, s)
    BY <1>1 DEF ListPath
  <2>1. PICK s \in [1 .. n -> Window] : Path(n, s) /\ Order(n, s)
    BY <2>0
  <2>2. Path(n, s)' /\ Linked' = Linked
    BY <2>1, <1>2, <1>5, PathKept
  <2>3. n \in Nat /\ Linked = On(n, s) /\ head = s[1]
    BY <2>1, PathFacts
  <2>4. Order(n, s)'
    <3>1. CASE step' = "detach"
      BY <3>1 DEF Order
    <3>2. CASE working' = working /\ step' # "detach"
      <4>1. ASSUME NEW i \in 1 .. n, NEW j \in 1 .. n, i < j, s[i] = working
            PROVE  Pending(s[j])' \/ id[s[j]] = id[working]
        <5>1. s[j] \in Linked
          BY <2>3 DEF On
        <5>2. Pending(s[j]) \/ id[s[j]] = id[working]
          BY <4>1, <2>1, <1>2 DEF Order
        <5>3. CASE wid = id[s[j]]
          BY <5>1, <5>3, <1>3, <1>4, <3>2
        <5>4. CASE wid # id[s[j]]
          BY <5>2, <5>4, <1>2 DEF Pending, clientVars
        <5>. QED
          BY <5>3, <5>4
      <4>. QED
        BY <4>1, <1>2, <3>2 DEF Order
    <3>3. CASE next[head] = NoWin
      <4>1. n = 1
        <5>1. n # 1 => next[s[1]] = s[2] /\ s[2] \in Window
          BY <2>1, <2>3 DEF Path, Chain
        <5>. QED
          BY <5>1, <3>3, <2>3, WindowAssumption
      <4>. QED
        BY <4>1 DEF Order
    <3>. QED
      BY <3>1, <3>2, <3>3, <1>2, <1>4, <1>5
  <2>. QED
    BY <2>2, <2>4 DEF ListPath
<1>10. Ids'
  BY <1>1, <1>2, <1>5, <1>9 DEF Ids, clientVars
<1>11. Creators'
  BY <1>1, <1>2, <1>7, <1>9, CreatorFacts, CreatorsKept DEF Creators
<1>12. Hand'
  <2>1. removing # NoWin => removing \notin Linked /\ removing \in used
    BY <1>1, <1>2 DEF Hand
  <2>. QED
    BY <1>2, <1>5, <1>7, <1>9, <2>1 DEF Hand
<1>. QED
  BY <1>8, <1>9, <1>10, <1>11, <1>12 DEF IInv

LEMMA DetachStep ==
  ASSUME IInv, Detach
  PROVE  IInv'
<1>1. TypeOK /\ ListPath /\ Ids /\ Creators /\ Hand
  BY DEF IInv
<1>2. /\ step = "detach" /\ step' = "append" /\ Unlink(working)
      /\ UNCHANGED << id, owner, used, created, working, lock, wid, removing, ops, clientVars >>
  BY DEF Detach
<1>3. PICK w \in Window : w = working /\ w \in Linked
  BY <1>1, <1>2, ListFacts DEF Hand
<1>4. PICK n \in 1 .. Cardinality(Window) : \E s \in [1 .. n -> Window] : Path(n, s) /\ Order(n, s)
  BY <1>1 DEF ListPath
<1>5. PICK s \in [1 .. n -> Window] : Path(n, s) /\ Order(n, s)
  BY <1>4
<1>6. PICK v \in Linked : v # w
  <2>1. n \in Nat /\ Linked = On(n, s) /\ head = s[1] /\ 1 \in 1 .. n
    BY <1>5, PathFacts
  <2>2. n # 1
    BY <1>1, <1>2, <1>5, <2>1 DEF Hand, Path
  <2>3. 2 \in 1 .. n /\ s[1] # s[2]
    BY <2>1, <2>2, <1>5 DEF Path, Chain
  <2>. QED
    BY <2>1, <2>3 DEF On
<1>7. /\ n - 1 \in 1 .. Cardinality(Window)
      /\ \E r \in [1 .. n - 1 -> Window] : Path(n - 1, r)'
      /\ Linked' = Linked \ {w}
      /\ next'[w] \in Linked' \cup {NoWin}
  <2>1. next \in [Window -> Pointer] /\ step # "cut" /\ step' # "cut" /\ Unlink(w)
    BY <1>1, <1>2, <1>3 DEF TypeOK
  <2>. QED
    BY <2>1, <1>3, <1>5, <1>6, PathUnlinked
<1>8. PICK r \in [1 .. n - 1 -> Window] : Path(n - 1, r)'
  BY <1>7
<1>9. ListPath'
  <2>1. Links(n - 1, r)'
    BY <1>7, <1>8, PathLinksNext
  <2>2. \A i \in 1 .. n - 1 : r[i] # w
    BY <1>7, <2>1 DEF Links, On
  <2>3. Order(n - 1, r)'
    BY <1>2, <1>3, <2>2 DEF Order
  <2>. QED
    BY <1>7, <1>8, <2>3 DEF ListPath
<1>10. /\ head' \in Pointer /\ next' \in [Window -> Pointer]
       /\ \A u \in Window : u \notin Linked => next'[u] = next[u]
  <2>1. next \in [Window -> Pointer] /\ Unlink(w)
    BY <1>1, <1>2, <1>3 DEF TypeOK
  <2>. QED
    BY <2>1, <1>3, <1>5, UnlinkWrites
<1>11. TypeOK'
  <2>1. step' \in {"idle", "focus", "detach", "append", "cut", "unlink", "refocus", "free"}
    BY <1>2
  <2>. QED
    BY <1>1, <1>2, <1>10, <2>1 DEF TypeOK, clientVars
<1>12. Ids'
  BY <1>1, <1>2, <1>3, <1>7 DEF Ids, clientVars
<1>13. Creators'
  <2>1. \A p \in Program : pc[p] \in {"scan", "link"} =>
          /\ mine[p] \in used' /\ mine[p] \notin Linked'
          /\ mine[p] # removing' /\ mine[p] # working'
          /\ next'[mine[p]] = next[mine[p]]
    BY <1>2, <1>7, <1>10, CreatorFacts
  <2>2. \A u \in used' : \/ u \in Linked'
                         \/ u = removing'
                         \/ u = working' /\ step' = "append"
                         \/ \E p \in Program : mine[p] = u /\ pc[p] \in {"scan", "link"}
    BY <1>1, <1>2, <1>3, <1>7 DEF Creators
  <2>. QED
    BY <1>1, <1>2, <2>1, <2>2, CreatorsKept
<1>14. Hand'
  <2>1. w \in used /\ id[w] >= 1
    BY <1>1, <1>3 DEF Ids
  <2>. QED
    BY <1>1, <1>2, <1>3, <1>7, <2>1 DEF Hand
<1>. QED
  BY <1>9, <1>11, <1>12, <1>13, <1>14 DEF IInv

LEMMA AppendLastStep ==
  ASSUME IInv, AppendLast
  PROVE  IInv'
<1>1. TypeOK /\ ListPath /\ Ids /\ Creators /\ Hand
  BY DEF IInv
<1>2. /\ step = "append" /\ step' = "cut"
      /\ next' = [next EXCEPT ![Last] = working]
      /\ UNCHANGED << head, id, owner, used, created, working, lock, wid, removing, ops, clientVars >>
  BY DEF AppendLast
<1>3. PICK w \in Window : w = working /\ w \in used /\ w \notin Linked /\ next[w] \in Linked \cup {NoWin}
  BY <1>1, <1>2 DEF Hand, TypeOK
<1>4. PICK n \in 1 .. Cardinality(Window) : \E s \in [1 .. n -> Window] : Path(n, s) /\ Order(n, s)
  BY <1>1 DEF ListPath
<1>5. PICK s \in [1 .. n -> Window] : Path(n, s) /\ Order(n, s)
  BY <1>4
<1>6. PICK r \in [1 .. n + 1 -> Window] :
        /\ n + 1 \in 1 .. Cardinality(Window)
        /\ r = With(n, s, w)
        /\ Path(n + 1, r)'
        /\ Linked' = Linked \cup {w}
  <2>1. next \in [Window -> Pointer] /\ step # "cut" /\ step' = "cut" /\ working' = w
    BY <1>1, <1>2, <1>3 DEF TypeOK
  <2>. QED
    BY <2>1, <1>2, <1>3, <1>5, PathAppended
<1>7. n \in Nat /\ Last \in Linked /\ Linked \subseteq Window /\ Linked = On(n, s)
  BY <1>2, <1>5, PathFacts
<1>8. ListPath'
  <2>1. ASSUME NEW i \in 1 .. n + 1, NEW j \in 1 .. n + 1, i < j
        PROVE  r[i] # w
    <3>1. i \in 1 .. n
      BY <2>1, <1>7
    <3>. QED
      BY <3>1, <1>3, <1>6, <1>7 DEF With, On
  <2>2. Order(n + 1, r)'
    BY <2>1, <1>2, <1>3 DEF Order
  <2>. QED
    BY <1>6, <2>2 DEF ListPath
<1>9. TypeOK'
  <2>1. /\ step' \in {"idle", "focus", "detach", "append", "cut", "unlink", "refocus", "free"}
        /\ next' \in [Window -> Pointer]
    BY <1>1, <1>2, <1>3, <1>7 DEF TypeOK
  <2>. QED
    BY <1>1, <1>2, <2>1 DEF TypeOK, clientVars
<1>10. Ids'
  <2>1. id[w] >= 1
    BY <1>1, <1>2, <1>3 DEF Hand
  <2>. QED
    BY <1>1, <1>2, <1>3, <1>6, <2>1 DEF Ids, clientVars
<1>11. Creators'
  <2>1. \A p \in Program : pc[p] \in {"scan", "link"} =>
          /\ mine[p] \in used' /\ mine[p] \notin Linked'
          /\ mine[p] # removing' /\ mine[p] # working'
          /\ next'[mine[p]] = next[mine[p]]
    BY <1>1, <1>2, <1>3, <1>6, <1>7, CreatorFacts DEF TypeOK
  <2>2. \A u \in used' : \/ u \in Linked'
                         \/ u = removing'
                         \/ u = working' /\ step' = "append"
                         \/ \E p \in Program : mine[p] = u /\ pc[p] \in {"scan", "link"}
    BY <1>1, <1>2, <1>3, <1>6 DEF Creators
  <2>. QED
    BY <1>1, <1>2, <2>1, <2>2, CreatorsKept
<1>12. Hand'
  BY <1>1, <1>2, <1>3, <1>6 DEF Hand
<1>. QED
  BY <1>8, <1>9, <1>10, <1>11, <1>12 DEF IInv

LEMMA CutStep ==
  ASSUME IInv, Cut
  PROVE  IInv'
<1>1. TypeOK /\ ListPath /\ Ids /\ Creators /\ Hand
  BY DEF IInv
<1>2. /\ step = "cut" /\ lock' = FALSE /\ wid' = 0
      /\ step' = IF removing = NoWin THEN "idle" ELSE "free"
      /\ next' = [next EXCEPT ![working] = NoWin]
      /\ UNCHANGED << head, id, owner, used, created, working, removing, ops, clientVars >>
  BY DEF Cut, Back
<1>3. working \in Linked /\ Linked \subseteq Window
  BY <1>1, <1>2, ListFacts DEF Hand
<1>4. PICK n \in 1 .. Cardinality(Window) : \E s \in [1 .. n -> Window] : Path(n, s) /\ Order(n, s)
  BY <1>1 DEF ListPath
<1>5. PICK s \in [1 .. n -> Window] : Path(n, s) /\ Order(n, s)
  BY <1>4
<1>6. /\ n \in Nat /\ n \in 1 .. n /\ Linked = On(n, s) /\ s[n] = working
      /\ Chain(head, next, n, s)
  BY <1>2, <1>5, PathFacts DEF Path
<1>7. Path(n, s)'
  <2>1. ASSUME NEW i \in 1 .. n - 1
        PROVE  next'[s[i]] = s[i + 1]
    <3>1. i \in 1 .. n /\ i # n
      BY <1>6
    <3>2. s[i] # working /\ next[s[i]] = s[i + 1]
      BY <3>1, <1>6 DEF Chain
    <3>. QED
      BY <3>1, <3>2, <1>1, <1>2 DEF TypeOK
  <2>2. Chain(head', next', n, s)
    BY <2>1, <1>2, <1>6 DEF Chain
  <2>3. next'[s[n]] = NoWin
    BY <1>1, <1>2, <1>3, <1>6 DEF TypeOK
  <2>. QED
    BY <2>2, <2>3, <1>2 DEF Path
<1>8. ListPath' /\ Linked' = Linked
  <2>1. Links(n, s)'
    BY <1>7, PathLinksNext
  <2>2. Linked' = Linked
    BY <2>1, <1>6 DEF Links, On
  <2>3. ASSUME NEW i \in 1 .. n, NEW j \in 1 .. n, i < j
        PROVE  s[i] # working
    BY <2>3, <1>6 DEF Chain
  <2>4. Order(n, s)'
    BY <2>3, <1>2 DEF Order
  <2>. QED
    BY <1>7, <2>2, <2>4 DEF ListPath
<1>9. TypeOK'
  <2>1. /\ step' \in {"idle", "focus", "detach", "append", "cut", "unlink", "refocus", "free"}
        /\ next' \in [Window -> Pointer]
    BY <1>1, <1>2 DEF TypeOK, Pointer
  <2>. QED
    BY <1>1, <1>2, <2>1 DEF TypeOK, clientVars
<1>10. Ids'
  BY <1>1, <1>2, <1>8 DEF Ids, clientVars
<1>11. Creators'
  <2>1. \A p \in Program : pc[p] \in {"scan", "link"} =>
          /\ mine[p] \in used' /\ mine[p] \notin Linked'
          /\ mine[p] # removing' /\ mine[p] # working'
          /\ next'[mine[p]] = next[mine[p]]
    BY <1>1, <1>2, <1>8, CreatorFacts DEF TypeOK
  <2>2. \A u \in used' : \/ u \in Linked'
                         \/ u = removing'
                         \/ u = working' /\ step' = "append"
                         \/ \E p \in Program : mine[p] = u /\ pc[p] \in {"scan", "link"}
    BY <1>1, <1>2, <1>8 DEF Creators
  <2>. QED
    BY <1>1, <1>2, <2>1, <2>2, CreatorsKept
<1>12. Hand'
  BY <1>1, <1>2, <1>3, <1>8 DEF Hand
<1>. QED
  BY <1>8, <1>9, <1>10, <1>11, <1>12 DEF IInv

LEMMA RemoveUnlinkStep ==
  ASSUME IInv, RemoveUnlink
  PROVE  IInv'
<1>1. TypeOK /\ ListPath /\ Ids /\ Creators /\ Hand
  BY DEF IInv
<1>2. /\ step = "unlink" /\ ~ lock /\ step' = "refocus" /\ Unlink(removing)
      /\ UNCHANGED << id, owner, used, created, working, lock, wid, removing, ops, clientVars >>
  BY DEF RemoveUnlink
<1>3. PICK w \in Window : w = removing /\ w \in Linked /\ w # Desktop
  BY <1>1, <1>2, ListFacts DEF Hand, Ids
<1>4. PICK n \in 1 .. Cardinality(Window) : \E s \in [1 .. n -> Window] : Path(n, s) /\ Order(n, s)
  BY <1>1 DEF ListPath
<1>5. PICK s \in [1 .. n -> Window] : Path(n, s) /\ Order(n, s)
  BY <1>4
<1>6. PICK v \in Linked : v # w
  BY <1>1, <1>2, <1>3 DEF Ids
<1>7. next \in [Window -> Pointer] /\ step # "cut" /\ step' # "cut" /\ Unlink(w)
  BY <1>1, <1>2, <1>3 DEF TypeOK
<1>8. /\ n - 1 \in 1 .. Cardinality(Window)
      /\ \E r \in [1 .. n - 1 -> Window] : Path(n - 1, r)' /\ Suborder(n - 1, r, n, s)
      /\ Linked' = Linked \ {w}
  BY <1>3, <1>5, <1>6, <1>7, PathUnlinked
<1>9. PICK r \in [1 .. n - 1 -> Window] : Path(n - 1, r)' /\ Suborder(n - 1, r, n, s)
  BY <1>8
<1>10. ListPath'
  <2>1. \A u : Pending(u) => Pending(u)'
    BY <1>2 DEF Pending, clientVars
  <2>2. ASSUME NEW i \in 1 .. n - 1, NEW j \in 1 .. n - 1, i < j, r[i] = working
        PROVE  Pending(r[j])' \/ id[r[j]] = id[working]
    <3>1. PICK k \in 1 .. n, l \in 1 .. n : k < l /\ r[i] = s[k] /\ r[j] = s[l]
      BY <2>2, <1>9 DEF Suborder
    <3>2. Pending(s[l]) \/ id[s[l]] = id[working]
      BY <3>1, <2>2, <1>2, <1>5 DEF Order
    <3>. QED
      BY <3>1, <3>2, <2>1
  <2>3. Order(n - 1, r)'
    BY <2>2, <1>2 DEF Order
  <2>. QED
    BY <1>8, <1>9, <2>3 DEF ListPath
<1>11. /\ head' \in Pointer /\ next' \in [Window -> Pointer]
       /\ \A u \in Window : u \notin Linked => next'[u] = next[u]
  BY <1>3, <1>5, <1>7, UnlinkWrites
<1>12. TypeOK'
  <2>1. step' \in {"idle", "focus", "detach", "append", "cut", "unlink", "refocus", "free"}
    BY <1>2
  <2>. QED
    BY <1>1, <1>2, <1>11, <2>1 DEF TypeOK, clientVars
<1>13. Ids'
  BY <1>1, <1>2, <1>3, <1>8 DEF Ids, clientVars
<1>14. Creators'
  <2>1. \A p \in Program : pc[p] \in {"scan", "link"} =>
          /\ mine[p] \in used' /\ mine[p] \notin Linked'
          /\ mine[p] # removing' /\ mine[p] # working'
          /\ next'[mine[p]] = next[mine[p]]
    BY <1>2, <1>8, <1>11, CreatorFacts
  <2>2. \A u \in used' : \/ u \in Linked'
                         \/ u = removing'
                         \/ u = working' /\ step' = "append"
                         \/ \E p \in Program : mine[p] = u /\ pc[p] \in {"scan", "link"}
    BY <1>1, <1>2, <1>3, <1>8 DEF Creators
  <2>. QED
    BY <1>1, <1>2, <2>1, <2>2, CreatorsKept
<1>15. Hand'
  <2>1. w \in used /\ w # NoWin
    BY <1>1, <1>3, WindowAssumption DEF Ids
  <2>. QED
    BY <1>1, <1>2, <1>3, <1>8, <2>1 DEF Hand
<1>. QED
  BY <1>10, <1>12, <1>13, <1>14, <1>15 DEF IInv

LEMMA RefocusStep ==
  ASSUME IInv, Refocus
  PROVE  IInv'
<1>1. TypeOK /\ ListPath /\ Ids /\ Creators /\ Hand
  BY DEF IInv
<1>2. /\ step = "refocus"
      /\ UNCHANGED << head, next, id, owner, used, created, lock, removing, ops, clientVars >>
      /\ IF id[working] = id[removing]
         THEN working' = NoWin /\ wid' = id[Last] /\ step' = "focus"
         ELSE step' = "free" /\ UNCHANGED << working, wid >>
  BY DEF Refocus, listVars
<1>3. /\ Linked \subseteq Window /\ NoWin \notin Linked /\ Last \in Linked
      /\ removing # NoWin /\ removing \in used /\ removing \notin Linked
      /\ working \in Linked \cup {removing}
  BY <1>1, <1>2, ListFacts DEF Hand
<1>4. step' \in {"focus", "free"} /\ wid' \in Nat /\ working' \in Pointer
  BY <1>1, <1>2, <1>3 DEF TypeOK, Pointer
<1>5. TypeOK'
  BY <1>1, <1>2, <1>4 DEF TypeOK, clientVars
<1>6. ListPath' /\ Linked' = Linked
  <2>1. CASE id[working] = id[removing]
    <3>0. PICK n \in 1 .. Cardinality(Window) : \E s \in [1 .. n -> Window] : Path(n, s)
      BY <1>1 DEF ListPath
    <3>1. PICK s \in [1 .. n -> Window] : Path(n, s)
      BY <3>0
    <3>2. Path(n, s)' /\ Linked' = Linked
      BY <3>1, <2>1, <1>2, PathKept
    <3>3. Order(n, s)'
      BY <2>1, <1>2, WindowAssumption DEF Order
    <3>. QED
      BY <3>2, <3>3 DEF ListPath
  <2>2. CASE id[working] # id[removing]
    <3>1. \A w \in Linked : Pending(w) => Pending(w)'
      BY <1>2, <2>2 DEF Pending, clientVars
    <3>. QED
      BY <3>1, <2>2, <1>1, <1>2, ListKept
  <2>. QED
    BY <2>1, <2>2
<1>7. Ids'
  BY <1>1, <1>2, <1>6 DEF Ids, clientVars
<1>8. Creators'
  <2>1. working' = working \/ working' = NoWin
    BY <1>2
  <2>2. \A p \in Program : pc[p] \in {"scan", "link"} =>
          /\ mine[p] \in used' /\ mine[p] \notin Linked'
          /\ mine[p] # removing' /\ mine[p] # working'
          /\ next'[mine[p]] = next[mine[p]]
    BY <1>2, <1>6, <2>1, CreatorFacts
  <2>. QED
    BY <1>1, <1>2, <1>6, <2>2, CreatorsKept DEF Creators
<1>9. Hand'
  <2>1. CASE id[working] = id[removing]
    BY <2>1, <1>1, <1>2, <1>3, <1>6, WindowAssumption DEF Hand
  <2>2. CASE id[working] # id[removing]
    BY <2>2, <1>1, <1>2, <1>3, <1>6 DEF Hand
  <2>. QED
    BY <2>1, <2>2
<1>. QED
  BY <1>5, <1>6, <1>7, <1>8, <1>9 DEF IInv

LEMMA FreeStep ==
  ASSUME IInv, Free
  PROVE  IInv'
<1>1. TypeOK /\ ListPath /\ Ids /\ Creators /\ Hand
  BY DEF IInv
<1>2. /\ step = "free" /\ step' = "idle" /\ removing' = NoWin
      /\ used' = used \ {removing}
      /\ UNCHANGED << head, next, id, owner, created, working, lock, wid, ops, clientVars >>
  BY DEF Free
<1>3. /\ removing # NoWin /\ removing \in used /\ removing \notin Linked /\ working \in Linked
      /\ removing # Desktop
  BY <1>1, <1>2 DEF Hand, Ids
<1>4. TypeOK'
  BY <1>1, <1>2 DEF TypeOK, clientVars, Pointer
<1>5. ListPath' /\ Linked' = Linked
  <2>1. \A w \in Linked : Pending(w) => Pending(w)'
    BY <1>2 DEF Pending, clientVars
  <2>. QED
    BY <2>1, <1>1, <1>2, ListKept
<1>6. Ids'
  BY <1>1, <1>2, <1>3, <1>5, WindowAssumption DEF Ids, clientVars
<1>7. Creators'
  <2>1. \A p \in Program : pc[p] \in {"scan", "link"} =>
          /\ mine[p] \in used' /\ mine[p] \notin Linked'
          /\ mine[p] # removing' /\ mine[p] # working'
          /\ next'[mine[p]] = next[mine[p]]
    BY <1>2, <1>5, CreatorFacts
  <2>2. \A w \in used' : \/ w \in Linked'
                         \/ \E p \in Program : mine[p] = w /\ pc[p] \in {"scan", "link"}
    BY <1>1, <1>2, <1>5 DEF Creators
  <2>. QED
    BY <1>1, <1>2, <2>1, <2>2, CreatorsKept
<1>8. Hand'
  BY <1>1, <1>2, <1>3, <1>5 DEF Hand
<1>. QED
  BY <1>4, <1>5, <1>6, <1>7, <1>8 DEF IInv
-----------------------------------------------------------------------------
(***************************************************************************)
(* The invariant holds at first, when the desktop's window is the only     *)
(* one, and every step keeps it.                                           *)
(***************************************************************************)
LEMMA InitIInv == Init => IInv
<1> SUFFICES ASSUME Init PROVE IInv
  OBVIOUS
<1>1. Desktop \in Window /\ Desktop # NoWin /\ Kernel \notin Program
  BY WindowAssumption
<1>2. 1 \in 1 .. Cardinality(Window)
  <2>1. Cardinality(Window) # 0
    BY <1>1, WindowAssumption, FS_EmptySet
  <2>. QED
    BY <2>1, WindowCount
<1>3. PICK s \in [1 .. 1 -> Window] : s = [i \in 1 .. 1 |-> Desktop]
  BY <1>1
<1>4. Path(1, s) /\ Order(1, s)
  <2>1. s[1] = Desktop /\ head = Desktop /\ next[Desktop] = NoWin /\ step = "idle"
    BY <1>1, <1>3 DEF Init
  <2>. QED
    BY <2>1 DEF Path, Order, Chain
<1>5. ListPath
  BY <1>2, <1>3, <1>4 DEF ListPath
<1>6. Linked = {Desktop}
  <2>1. Linked = On(1, s)
    BY <1>2, <1>4, PathFacts
  <2>. QED
    BY <2>1, <1>3 DEF On
<1>7. TypeOK
  <2>1. ops \in Seq([op : {"focus", "remove"}, wid : Nat])
    BY DEF Init
  <2>. QED
    BY <2>1, <1>1 DEF Init, TypeOK, Pointer
<1>8. Ids
  BY <1>1, <1>6 DEF Init, Ids
<1>9. Creators
  BY <1>1, <1>6, ClientFacts DEF Init, Creators
<1>10. Hand
  BY <1>1, <1>6 DEF Init, Hand
<1>. QED
  BY <1>5, <1>7, <1>8, <1>9, <1>10 DEF IInv

LEMMA StutterStep ==
  ASSUME IInv, UNCHANGED vars
  PROVE  IInv'
<1>1. TypeOK /\ Ids /\ Creators
  BY DEF IInv
<1>2. UNCHANGED << listVars, serverVars, ops, pc, mine, handles, at, best, victim, dead >>
  BY DEF vars, clientVars
<1>3. TypeOK'
  BY <1>1, <1>2 DEF TypeOK, listVars, serverVars
<1>. QED
  BY <1>1, <1>2, <1>3, QuietStep DEF Ids, Creators

LEMMA NextIInv == IInv /\ [Next]_vars /\ [Fresh]_vars => IInv'
<1> SUFFICES ASSUME IInv, [Next]_vars, [Fresh]_vars PROVE IInv'
  OBVIOUS
<1>1. CASE UNCHANGED vars
  BY <1>1, StutterStep
<1>2. ASSUME Next, Fresh
      PROVE  IInv'
  <2>1. ASSUME NEW p \in Program, Creates(p)
        PROVE  IInv'
    <3>1. CASE Create(p)
      BY <3>1, <1>2, CreateStep DEF Fresh, Runs
    <3>. QED
      BY <2>1, <3>1, ScanStep, TakeIdStep, LinkStep, AnnounceStep, CopyStep DEF Creates
  <2>2. ASSUME NEW c \in Client, Releases(c)
        PROVE  IInv'
    BY <2>2, ReleasePassStep, ReleaseFoundStep, ReleaseNoneStep, StopStep DEF Releases
  <2>3. ASSUME Listener
        PROVE  IInv'
    BY <2>3, TakeFocusStep, FocusStep, DetachStep, AppendLastStep, CutStep, TakeRemoveStep,
       RemoveUnlinkStep, RefocusStep, FreeStep DEF Listener
  <2>. QED
    BY <1>2, <2>1, <2>2, <2>3, CloseOwnStep, TerminateStep, ClickStep, SendClickStep DEF Next
<1>. QED
  BY <1>1, <1>2

-----------------------------------------------------------------------------
(***************************************************************************)
(* The inductive invariant holds as long as kcalloc does not hand out the  *)
(* window at which a search for an id stands.                              *)
(***************************************************************************)
THEOREM WindowInvariance == Spec /\ NoReuse => []IInv
<1>1. Init => IInv
  BY InitIInv
<1>2. IInv /\ [Next]_vars /\ [Fresh]_vars => IInv'
  BY NextIInv
<1>. QED
  BY <1>1, <1>2, PTL DEF Spec, NoReuse

(***************************************************************************)
(* Every pointer is a window or null, every id a number (window_sys.h:62). *)
(***************************************************************************)
THEOREM WindowTypes == Spec /\ NoReuse => []TypeOK
<1>1. IInv => TypeOK
  BY DEF IInv
<1>. QED
  BY <1>1, WindowInvariance, PTL

(***************************************************************************)
(* However programs, the mouse and the listener interleave, win_list leads *)
(* through allocated windows, each once, and loses none (window_sys.c:460, *)
(* :1149, :423).                                                           *)
(***************************************************************************)
THEOREM ListStaysSound == Spec /\ NoReuse => []ListSound
<1>1. IInv => ListSound
  <2> SUFFICES ASSUME IInv PROVE ListSound
    OBVIOUS
  <2>1. ~ lock => Ends
    BY ListFacts DEF IInv, Hand
  <2>. QED
    BY <2>1 DEF IInv, Ids, Creators, ListSound
<1>. QED
  BY <1>1, WindowInvariance, PTL

(***************************************************************************)
(* working_window is never a freed window, and not null when it is         *)
(* dereferenced for a removal (window_sys.c:1127).                         *)
(***************************************************************************)
THEOREM FocusStaysAlive == Spec /\ NoReuse => []FocusAlive
<1>1. IInv => FocusAlive
  <2> SUFFICES ASSUME IInv PROVE FocusAlive
    OBVIOUS
  <2>1. TypeOK /\ Ids /\ Hand /\ NoWin \notin Linked
    BY ListFacts DEF IInv
  <2>2. working \in used \cup {NoWin}
    BY <2>1 DEF TypeOK, Ids, Hand
  <2>3. step \in {"idle", "refocus"} => working # NoWin
    BY <2>1 DEF Hand
  <2>. QED
    BY <2>2, <2>3 DEF FocusAlive
<1>. QED
  BY <1>1, WindowInvariance, PTL

(***************************************************************************)
(* Once the operations are done the window with the focus is the last of   *)
(* the list: focus and depth agree (window_sys.c:377, :460-528).           *)
(***************************************************************************)
THEOREM FocusComesInFront == Spec /\ NoReuse => []FocusInFront
<1>1. IInv => FocusInFront
  <2> SUFFICES ASSUME IInv, step = "idle", ops = << >>,
                      \A p \in Program \ dead : pc[p] # "announce", UniqueIds
               PROVE  working = Last \/ \E p \in dead : pc[p] = "announce" /\ mine[p] = Last
    BY DEF FocusInFront
  <2>1. ListPath /\ working \in Linked
    BY DEF IInv, Hand
  <2>2. PICK n \in 1 .. Cardinality(Window) : \E s \in [1 .. n -> Window] : Path(n, s) /\ Order(n, s)
    BY <2>1 DEF ListPath
  <2>3. PICK s \in [1 .. n -> Window] : Path(n, s) /\ Order(n, s)
    BY <2>2
  <2>4. n \in Nat /\ n \in 1 .. n /\ Linked = On(n, s) /\ Last = s[n] /\ s[n] \in Linked
    BY <2>3, PathFacts
  <2>5. PICK i \in 1 .. n : s[i] = working
    BY <2>1, <2>4 DEF On
  <2>6. CASE i = n
    BY <2>4, <2>5, <2>6
  <2>7. CASE i < n
    <3>1. CASE Pending(s[n])
      BY <3>1, <2>4 DEF Pending
    <3>2. CASE id[s[n]] = id[working]
      BY <3>2, <2>1, <2>4 DEF UniqueIds
    <3>. QED
      BY <3>1, <3>2, <2>3, <2>4, <2>5, <2>7 DEF Order
  <2>. QED
    BY <2>4, <2>6, <2>7
<1>. QED
  BY <1>1, WindowInvariance, PTL
=============================================================================
