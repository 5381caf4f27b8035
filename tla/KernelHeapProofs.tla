--------------------------- MODULE KernelHeapProofs ---------------------------
(***************************************************************************)
(* Theorems about KernelHeap for any arena, any sizes and block size, as   *)
(* long as calls do not overlap.                                           *)
(***************************************************************************)
EXTENDS KernelHeap, TLAPS, FiniteSetTheorems

\* Calls of kmalloc and kfree do not overlap.
OneCaller == \A c, d \in Caller : c = d

(***************************************************************************)
(* The inductive invariant.  Disjoint needs to know what the search has    *)
(* seen (Scanned), what it has found (Found) and that a call asks for at   *)
(* least one block (Asks); that kmalloc refuses only when nothing fits     *)
(* needs NothingMissed.                                                    *)
(***************************************************************************)
Asks == \A c \in Caller : pc[c] # "idle" => want[c] >= 1

\* A search starts at bit 0.
Resting == \A c \in Caller : pc[c] \in {"idle", "check"} => scan[c] = NoScan

\* The current run ends before the next bit and is free.
Clear(c) ==
  /\ scan[c].len < want[c] /\ scan[c].len <= scan[c].at
  /\ scan[c].len > 0 => scan[c].first = scan[c].at - scan[c].len
  /\ \A i \in Block : scan[c].at - scan[c].len <= i /\ i < scan[c].at => i \notin map

\* No run that is long enough, and none longer than the current one, was passed.
Passed(c) ==
  /\ \A b \in Block : b < scan[c].at - scan[c].len =>
       \E i \in b .. scan[c].at - 1 : i \in map
  /\ \A b \in Block : b + want[c] <= scan[c].at =>
       \E i \in Extent(b, want[c]) : i \in map

Scanned       == \A c \in Caller : pc[c] = "scan" => Clear(c)
NothingMissed == \A c \in Caller : pc[c] = "scan" => Passed(c)

Found ==
  \A c \in Caller :
    /\ pc[c] = "mark" => Extent(scan[c].first, want[c]) \subseteq Block \ map
    /\ pc[c] = "head" =>
         /\ Extent(scan[c].first, want[c]) \subseteq map
         /\ \A b \in live : Extent(scan[c].first, want[c]) \cap Area(b) = {}

\* Every marked block belongs to an allocation, or to the one being made.
Owned ==
  \A i \in map : \/ \E b \in live : i \in Area(b)
                 \/ \E c \in Caller : /\ pc[c] = "head"
                                      /\ i \in Extent(scan[c].first, want[c])

Held ==
  /\ \A b \in live : Area(b) \subseteq map
  /\ \A a, b \in live : a # b => Area(a) \cap Area(b) = {}

IInv ==
  /\ OneCaller /\ TypeOK /\ CounterAgrees
  /\ Asks /\ Resting /\ Scanned /\ NothingMissed /\ Found /\ Owned /\ Held

-----------------------------------------------------------------------------
(***************************************************************************)
(* A request is for at least one block.                                    *)
(***************************************************************************)
LEMMA BlockAmtPositive ==
  ASSUME NEW size \in Size
  PROVE  BlockAmt(size) \in Nat /\ BlockAmt(size) >= 1
<1> DEFINE bytes == size + DescSize
           rest  == bytes % BlockSize
           full  == IF rest = 0 THEN bytes ELSE bytes + BlockSize - rest
<1>1. bytes \in Nat /\ bytes >= 1 /\ BlockSize \in Nat /\ BlockSize >= 1
  BY HeapAssumption
<1>2. rest \in 0 .. BlockSize - 1
  BY <1>1
<1>3. full \in Nat /\ full >= BlockSize
  <2>1. rest = 0 => bytes >= BlockSize
    <3>1. bytes < BlockSize => bytes % BlockSize = bytes
      BY <1>1
    <3>. QED
      BY <3>1, <1>1
  <2>. QED
    BY <2>1, <1>1, <1>2
<1> HIDE DEF rest, bytes
<1>4. full \div BlockSize \in Nat /\ full \div BlockSize >= 1
  <2> HIDE DEF full
  <2>. QED
    BY <1>1, <1>3
<1>5. BlockAmt(size) = full \div BlockSize
  BY DEF BlockAmt, full, rest, bytes
<1>. QED
  BY <1>4, <1>5

(***************************************************************************)
(* The blocks of the arena can be counted.                                 *)
(***************************************************************************)
LEMMA Counting ==
  ASSUME NEW S, S \subseteq Block
  PROVE  /\ IsFiniteSet(S) /\ Cardinality(S) \in 0 .. Blocks
         /\ Cardinality(S) >= Blocks => S = Block
<1>1. IsFiniteSet(Block) /\ Cardinality(Block) = Blocks
  BY HeapAssumption, FS_Interval DEF Block
<1>2. IsFiniteSet(S) /\ Cardinality(S) <= Blocks
      /\ (Cardinality(S) = Blocks => S = Block)
  BY <1>1, FS_Subset
<1>3. Cardinality(S) \in Nat
  BY <1>2, FS_CardinalityType
<1>. QED
  BY <1>2, <1>3, HeapAssumption

(***************************************************************************)
(* An extent has as many blocks as its length says.                        *)
(***************************************************************************)
LEMMA ExtentSize ==
  ASSUME NEW b \in Nat, NEW n \in Nat
  PROVE  IsFiniteSet(Extent(b, n)) /\ Cardinality(Extent(b, n)) = n
<1>1. b \in Int /\ b + n - 1 \in Int
  OBVIOUS
<1>2. /\ IsFiniteSet(b .. b + n - 1)
      /\ Cardinality(b .. b + n - 1) = IF b > b + n - 1 THEN 0 ELSE (b + n - 1) - b + 1
  BY <1>1, FS_Interval
<1>. QED
  BY <1>2 DEF Extent

LEMMA InitStep == OneCaller /\ Init => IInv
<1> SUFFICES ASSUME OneCaller, Init PROVE IInv
  OBVIOUS
<1>1. live = {}
  BY DEF Init, live
<1>2. TypeOK
  BY HeapAssumption DEF Init, TypeOK, Block, NoScan
<1>3. CounterAgrees
  BY FS_EmptySet DEF Init, CounterAgrees
<1>4. Asks /\ Resting /\ Scanned /\ NothingMissed /\ Found /\ Owned /\ Held
  BY <1>1 DEF Init, Asks, Resting, Scanned, NothingMissed, Found, Owned, Held
<1>. QED
  BY <1>2, <1>3, <1>4 DEF IInv

(***************************************************************************)
(* A call begins: the request is rounded up to whole blocks.               *)
(***************************************************************************)
LEMMA KmallocStep ==
  ASSUME IInv, NEW c \in Caller, NEW size \in Size, Kmalloc(c, size)
  PROVE  IInv'
<1>1. \A d \in Caller : d = c
  BY DEF IInv, OneCaller
<1>a. BlockAmt(size) \in Nat /\ BlockAmt(size) >= 1
  BY BlockAmtPositive
<1>b. /\ map' = map /\ used' = used /\ header' = header /\ scan' = scan /\ live' = live
      /\ pc'[c] = "check" /\ want'[c] = BlockAmt(size) /\ pc[c] = "idle"
  BY DEF IInv, TypeOK, Kmalloc, live
<1>2. TypeOK'
  BY <1>a, <1>b DEF IInv, TypeOK, Kmalloc, Block
<1>3. CounterAgrees'
  BY <1>b DEF IInv, CounterAgrees
<1>4. Asks'
  BY <1>1, <1>a, <1>b DEF Asks
<1>r. Resting'
  BY <1>1, <1>b DEF IInv, Resting
<1>5. Scanned'
  BY <1>1, <1>b DEF Scanned
<1>6. NothingMissed'
  BY <1>1, <1>b DEF NothingMissed
<1>7. Found'
  BY <1>1, <1>b DEF Found
<1>8. Owned'
  BY <1>1, <1>b DEF IInv, Owned, Area, Extent
<1>9. Held'
  BY <1>b DEF IInv, Held, Area
<1>. QED
  BY <1>2, <1>3, <1>4, <1>r, <1>5, <1>6, <1>7, <1>8, <1>9 DEF IInv, OneCaller

(***************************************************************************)
(* kmalloc returns null.                                                   *)
(***************************************************************************)
LEMMA FailStep ==
  ASSUME IInv, NEW c \in Caller, Fail(c)
  PROVE  IInv'
<1>1. \A d \in Caller : d = c
  BY DEF IInv, OneCaller
<1>b. /\ map' = map /\ used' = used /\ header' = header /\ live' = live
      /\ pc'[c] = "idle" /\ pc[c] # "head"
  BY DEF IInv, TypeOK, Fail, Done, live
<1>2. TypeOK'
  <2>1. NoScan \in [at : 0 .. Blocks, len : 0 .. Blocks, first : Block]
    BY HeapAssumption DEF NoScan, Block
  <2>. QED
    BY <1>b, <2>1 DEF IInv, TypeOK, Fail, Done
<1>3. CounterAgrees'
  BY <1>b DEF IInv, CounterAgrees
<1>4. Asks'
  BY <1>1, <1>b DEF Asks
<1>r. Resting'
  BY <1>1, <1>b DEF IInv, TypeOK, Resting, Fail, Done
<1>5. Scanned'
  BY <1>1, <1>b DEF Scanned
<1>6. NothingMissed'
  BY <1>1, <1>b DEF NothingMissed
<1>7. Found'
  BY <1>1, <1>b DEF Found
<1>8. Owned'
  BY <1>1, <1>b DEF IInv, Owned, Area
<1>9. Held'
  BY <1>b DEF IInv, Held, Area
<1>. QED
  BY <1>2, <1>3, <1>4, <1>r, <1>5, <1>6, <1>7, <1>8, <1>9 DEF IInv, OneCaller

(***************************************************************************)
(* The counter leaves room: the scan begins at bit 0.                      *)
(***************************************************************************)
LEMMA CheckStep ==
  ASSUME IInv, NEW c \in Caller, Check(c)
  PROVE  IInv'
<1>1. \A d \in Caller : d = c
  BY DEF IInv, OneCaller
<1>b. /\ map' = map /\ used' = used /\ header' = header /\ live' = live
      /\ want' = want /\ scan' = scan /\ pc'[c] = "scan" /\ pc[c] = "check"
  BY DEF IInv, TypeOK, Check, live
<1>c. scan[c] = NoScan /\ want[c] \in Nat /\ want[c] >= 1
  BY <1>b DEF IInv, TypeOK, Asks, Resting
<1>2. TypeOK'
  BY <1>b DEF IInv, TypeOK, Check
<1>3. CounterAgrees'
  BY <1>b DEF IInv, CounterAgrees
<1>4. Asks'
  BY <1>1, <1>b, <1>c DEF Asks
<1>r. Resting'
  BY <1>1, <1>b DEF IInv, Resting
<1>5. Scanned'
  BY <1>1, <1>b, <1>c DEF Scanned, Clear, NoScan, Block
<1>6. NothingMissed'
  BY <1>1, <1>b, <1>c DEF NothingMissed, Passed, NoScan, Block
<1>7. Found'
  BY <1>1, <1>b DEF Found
<1>8. Owned'
  BY <1>1, <1>b DEF IInv, Owned, Area
<1>9. Held'
  BY <1>b DEF IInv, Held, Area
<1>. QED
  BY <1>2, <1>3, <1>4, <1>r, <1>5, <1>6, <1>7, <1>8, <1>9 DEF IInv, OneCaller

(***************************************************************************)
(* A full word is skipped: no run passes through it.                       *)
(***************************************************************************)
LEMMA SkipWordStep ==
  ASSUME IInv, NEW c \in Caller, SkipWord(c)
  PROVE  IInv'
<1>1. \A d \in Caller : d = c
  BY DEF IInv, OneCaller
<1>b. /\ map' = map /\ used' = used /\ header' = header /\ live' = live
      /\ want' = want /\ pc' = pc /\ pc[c] = "scan" /\ scan[c].at < Blocks
      /\ Extent(scan[c].at, WordBits) \subseteq map
  BY DEF SkipWord, AtFullWord, live
<1>c. /\ scan[c].at \in 0 .. Blocks /\ scan[c].len \in 0 .. Blocks
      /\ scan[c].len <= scan[c].at /\ scan[c].len < want[c] /\ want[c] \in Nat
      /\ Blocks \in Nat
  BY <1>b, HeapAssumption DEF IInv, TypeOK, Scanned, Clear
<1>d. /\ WordBits \in Nat /\ WordBits >= 1
      /\ \A i \in Int : scan[c].at <= i /\ i < scan[c].at + WordBits => i \in map
  BY <1>b, <1>c, HeapAssumption DEF Extent
<1>e. scan[c].at + WordBits <= Blocks
  <2>1. scan[c].at + WordBits - 1 \in map
    BY <1>c, <1>d
  <2>. QED
    BY <2>1, <1>c, <1>d DEF IInv, TypeOK, Block
<1> DEFINE s == [at |-> scan[c].at + WordBits, len |-> 0, first |-> scan[c].first]
<1>t. scan' = [scan EXCEPT ![c] = s]
  BY DEF SkipWord
<1>f. /\ scan'[c] = s /\ scan'[c].at = scan[c].at + WordBits
      /\ scan'[c].len = 0 /\ scan'[c].first = scan[c].first
  BY <1>t DEF IInv, TypeOK
<1>2. TypeOK'
  <2>1. s \in [at : 0 .. Blocks, len : 0 .. Blocks, first : Block]
    BY <1>b, <1>c, <1>d, <1>e DEF IInv, TypeOK
  <2> HIDE DEF s
  <2>. QED
    BY <2>1, <1>t, <1>b DEF IInv, TypeOK
<1>3. CounterAgrees'
  BY <1>b DEF IInv, CounterAgrees
<1>4. Asks'
  BY <1>1, <1>b DEF IInv, Asks
<1>r. Resting'
  BY <1>1, <1>b DEF Resting
<1>5. Scanned'
  <2>1. Clear(c)'
    BY <1>b, <1>c, <1>d, <1>f DEF Clear, Block
  <2>. QED
    BY <2>1, <1>1 DEF Scanned
<1>6. NothingMissed'
  <2>1. ASSUME NEW b \in Block, b < scan[c].at + WordBits
        PROVE  \E i \in b .. (scan[c].at + WordBits) - 1 : i \in map
    <3>1. (scan[c].at + WordBits) - 1 \in map
      BY <1>c, <1>d
    <3>. QED
      BY <2>1, <3>1, <1>c, <1>d DEF Block
  <2>2. ASSUME NEW b \in Block, b + want[c] <= scan[c].at + WordBits
        PROVE  \E i \in Extent(b, want[c]) : i \in map
    <3>1. CASE b + want[c] <= scan[c].at
      BY <3>1, <1>b DEF IInv, NothingMissed, Passed
    <3>2. CASE b + want[c] > scan[c].at
      <4>1. (b + want[c]) - 1 \in map /\ (b + want[c]) - 1 \in Extent(b, want[c])
        BY <2>2, <3>2, <1>c, <1>d DEF Block, Extent
      <4>. QED
        BY <4>1
    <3>. QED
      BY <3>1, <3>2, <1>c DEF Block
  <2>3. Passed(c)'
    BY <2>1, <2>2, <1>b, <1>c, <1>d, <1>f DEF Passed, Extent
  <2>. QED
    BY <2>3, <1>1 DEF NothingMissed
<1>7. Found'
  BY <1>1, <1>b DEF Found
<1>8. Owned'
  BY <1>1, <1>b DEF IInv, Owned, Area
<1>9. Held'
  BY <1>b DEF IInv, Held, Area
<1>. QED
  BY <1>2, <1>3, <1>4, <1>r, <1>5, <1>6, <1>7, <1>8, <1>9 DEF IInv, OneCaller

(***************************************************************************)
(* A set bit ends the run.                                                 *)
(***************************************************************************)
LEMMA TestSetStep ==
  ASSUME IInv, NEW c \in Caller, TestSet(c)
  PROVE  IInv'
<1>1. \A d \in Caller : d = c
  BY DEF IInv, OneCaller
<1>b. /\ map' = map /\ used' = used /\ header' = header /\ live' = live
      /\ want' = want /\ pc' = pc /\ pc[c] = "scan" /\ scan[c].at < Blocks
      /\ scan[c].at \in map
  BY DEF TestSet, live
<1>c. /\ scan[c].at \in 0 .. Blocks /\ scan[c].len \in 0 .. Blocks
      /\ scan[c].len <= scan[c].at /\ scan[c].len < want[c] /\ want[c] \in Nat
      /\ Blocks \in Nat
  BY <1>b, HeapAssumption DEF IInv, TypeOK, Scanned, Clear
<1> DEFINE s == [at |-> scan[c].at + 1, len |-> 0, first |-> scan[c].first]
<1>t. scan' = [scan EXCEPT ![c] = s]
  BY DEF TestSet
<1>f. /\ scan'[c] = s /\ scan'[c].at = scan[c].at + 1
      /\ scan'[c].len = 0 /\ scan'[c].first = scan[c].first
  BY <1>t DEF IInv, TypeOK
<1>2. TypeOK'
  <2>1. s \in [at : 0 .. Blocks, len : 0 .. Blocks, first : Block]
    BY <1>b, <1>c DEF IInv, TypeOK
  <2> HIDE DEF s
  <2>. QED
    BY <2>1, <1>t, <1>b DEF IInv, TypeOK
<1>3. CounterAgrees'
  BY <1>b DEF IInv, CounterAgrees
<1>4. Asks'
  BY <1>1, <1>b DEF IInv, Asks
<1>r. Resting'
  BY <1>1, <1>b DEF Resting
<1>5. Scanned'
  <2>1. Clear(c)'
    BY <1>b, <1>c, <1>f DEF Clear, Block
  <2>. QED
    BY <2>1, <1>1 DEF Scanned
<1>6. NothingMissed'
  <2>1. ASSUME NEW b \in Block, b < scan[c].at + 1
        PROVE  \E i \in b .. (scan[c].at + 1) - 1 : i \in map
    BY <2>1, <1>b, <1>c DEF Block
  <2>2. ASSUME NEW b \in Block, b + want[c] <= scan[c].at + 1
        PROVE  \E i \in Extent(b, want[c]) : i \in map
    <3>1. CASE b + want[c] <= scan[c].at
      BY <3>1, <1>b DEF IInv, NothingMissed, Passed
    <3>2. CASE b + want[c] = scan[c].at + 1
      BY <3>2, <1>b, <1>c DEF Block, Extent
    <3>. QED
      BY <2>2, <3>1, <3>2, <1>c DEF Block
  <2>3. Passed(c)'
    BY <2>1, <2>2, <1>b, <1>c, <1>f DEF Passed, Extent
  <2>. QED
    BY <2>3, <1>1 DEF NothingMissed
<1>7. Found'
  BY <1>1, <1>b DEF Found
<1>8. Owned'
  BY <1>1, <1>b DEF IInv, Owned, Area
<1>9. Held'
  BY <1>b DEF IInv, Held, Area
<1>. QED
  BY <1>2, <1>3, <1>4, <1>r, <1>5, <1>6, <1>7, <1>8, <1>9 DEF IInv, OneCaller

(***************************************************************************)
(* A free bit extends the run, or begins one.                              *)
(***************************************************************************)
LEMMA TestFreeStep ==
  ASSUME IInv, NEW c \in Caller, TestFree(c)
  PROVE  IInv'
<1>1. \A d \in Caller : d = c
  BY DEF IInv, OneCaller
<1>b. /\ map' = map /\ used' = used /\ header' = header /\ live' = live
      /\ want' = want /\ pc[c] = "scan" /\ scan[c].at < Blocks
      /\ scan[c].at \notin map
  BY DEF TestFree, live
<1>c. /\ scan[c].at \in 0 .. Blocks /\ scan[c].len \in 0 .. Blocks
      /\ scan[c].len <= scan[c].at /\ scan[c].len < want[c] /\ want[c] \in Nat
      /\ scan[c].len > 0 => scan[c].first = scan[c].at - scan[c].len
      /\ scan[c].first \in Block /\ Blocks \in Nat
      /\ \A i \in Block : scan[c].at - scan[c].len <= i /\ i < scan[c].at => i \notin map
  BY <1>b, HeapAssumption DEF IInv, TypeOK, Scanned, Clear
<1> DEFINE s == [at    |-> scan[c].at + 1,
                 len   |-> scan[c].len + 1,
                 first |-> IF scan[c].len = 0 THEN scan[c].at ELSE scan[c].first]
           l == IF scan[c].len + 1 = want[c] THEN "mark" ELSE "scan"
<1>t. scan' = [scan EXCEPT ![c] = s] /\ pc' = [pc EXCEPT ![c] = l]
  BY DEF TestFree
<1>f. /\ scan'[c] = s /\ scan'[c].at = scan[c].at + 1
      /\ scan'[c].len = scan[c].len + 1 /\ pc'[c] = l
  BY <1>t DEF IInv, TypeOK
<1>g. scan'[c].first = scan[c].at - scan[c].len
  BY <1>c, <1>f
<1>2. TypeOK'
  <2>1. s \in [at : 0 .. Blocks, len : 0 .. Blocks, first : Block]
    BY <1>b, <1>c DEF Block
  <2> HIDE DEF s
  <2>. QED
    BY <2>1, <1>t, <1>b DEF IInv, TypeOK
<1> HIDE DEF s
<1>3. CounterAgrees'
  BY <1>b DEF IInv, CounterAgrees
<1>4. Asks'
  BY <1>1, <1>b DEF IInv, Asks
<1>r. Resting'
  BY <1>1, <1>f DEF Resting
<1>5. Scanned'
  <2>1. ASSUME pc'[c] = "scan"
        PROVE  Clear(c)'
    BY <2>1, <1>b, <1>c, <1>f, <1>g DEF Clear, Block
  <2>. QED
    BY <2>1, <1>1 DEF Scanned
<1>6. NothingMissed'
  <2>1. ASSUME NEW b \in Block, b < scan[c].at - scan[c].len
        PROVE  \E i \in b .. (scan[c].at + 1) - 1 : i \in map
    <3>1. PICK i \in b .. scan[c].at - 1 : i \in map
      BY <2>1, <1>b DEF IInv, NothingMissed, Passed
    <3>. QED
      BY <3>1, <1>c DEF Block
  <2>2. ASSUME NEW b \in Block, b + want[c] <= scan[c].at + 1, pc'[c] = "scan"
        PROVE  \E i \in Extent(b, want[c]) : i \in map
    <3>1. CASE b + want[c] <= scan[c].at
      BY <3>1, <1>b DEF IInv, NothingMissed, Passed
    <3>2. CASE b + want[c] = scan[c].at + 1
      <4>1. b < scan[c].at - scan[c].len
        <5>1. want[c] # scan[c].len + 1
          BY <2>2, <1>f
        <5>. QED
          BY <5>1, <3>2, <1>c DEF Block
      <4>2. PICK i \in b .. scan[c].at - 1 : i \in map
        BY <4>1, <1>b DEF IInv, NothingMissed, Passed
      <4>. QED
        BY <4>2, <3>2, <1>c DEF Block, Extent
    <3>. QED
      BY <2>2, <3>1, <3>2, <1>c DEF Block
  <2>3. ASSUME pc'[c] = "scan"
        PROVE  Passed(c)'
    BY <2>1, <2>2, <2>3, <1>b, <1>c, <1>f DEF Passed, Extent
  <2>. QED
    BY <2>3, <1>1 DEF NothingMissed
<1>7. Found'
  <2>1. ASSUME pc'[c] = "mark"
        PROVE  Extent(scan'[c].first, want[c]) \subseteq Block \ map
    <3>1. want[c] = scan[c].len + 1
      BY <2>1, <1>f
    <3>. QED
      BY <3>1, <1>b, <1>c, <1>g DEF Extent, Block
  <2>2. pc'[c] # "head"
    BY <1>f
  <2>3. Block' = Block
    BY DEF Block
  <2>4. Extent(scan'[c].first, want[c]) = Extent(scan[c].first, want[c])'
    BY <1>b DEF Extent
  <2>. QED
    BY <2>1, <2>2, <2>3, <2>4, <1>1, <1>b DEF Found
<1>8. Owned'
  BY <1>1, <1>b DEF IInv, Owned, Area
<1>9. Held'
  BY <1>b DEF IInv, Held, Area
<1>. QED
  BY <1>2, <1>3, <1>4, <1>r, <1>5, <1>6, <1>7, <1>8, <1>9 DEF IInv, OneCaller

(***************************************************************************)
(* The blocks found are marked and counted.                                *)
(***************************************************************************)
LEMMA MarkStep ==
  ASSUME IInv, NEW c \in Caller, Mark(c)
  PROVE  IInv'
<1>1. \A d \in Caller : d = c
  BY DEF IInv, OneCaller
<1> DEFINE E == Extent(scan[c].first, want[c])
<1>b. /\ map' = map \cup E /\ used' = used + want[c] /\ header' = header /\ live' = live
      /\ want' = want /\ scan' = scan /\ pc[c] = "mark" /\ pc'[c] = "head"
  BY DEF IInv, TypeOK, Mark, live
<1>c. /\ E \subseteq Block \ map /\ map \subseteq Block
      /\ want[c] \in Nat /\ scan[c].first \in Nat /\ used \in Nat
  BY <1>b DEF IInv, TypeOK, Found, Block
<1>d. E' = E
  BY <1>b DEF Extent
<1>e. IsFiniteSet(E) /\ Cardinality(E) = want[c]
  BY <1>c, ExtentSize
<1> HIDE DEF E
<1>3. CounterAgrees'
  <2>1. IsFiniteSet(map) /\ map \cap E = {} /\ Cardinality(map \cap E) = 0
    BY <1>c, Counting, FS_EmptySet
  <2>2. Cardinality(map \cup E) = Cardinality(map) + Cardinality(E) - Cardinality(map \cap E)
    BY <2>1, <1>e, FS_Union
  <2>3. used = Cardinality(map)
    BY DEF IInv, CounterAgrees
  <2>. QED
    BY <2>1, <2>2, <2>3, <1>b, <1>c, <1>e DEF CounterAgrees
<1>2. TypeOK'
  <2>1. map' \subseteq Block
    BY <1>b, <1>c
  <2>2. used' \in 0 .. Blocks
    BY <2>1, <1>3, Counting DEF CounterAgrees
  <2>3. Block' = Block
    BY DEF Block
  <2>. QED
    BY <2>1, <2>2, <2>3, <1>b DEF IInv, TypeOK, Mark
<1>4. Asks'
  BY <1>1, <1>b DEF IInv, Asks
<1>r. Resting'
  BY <1>1, <1>b DEF Resting
<1>5. Scanned'
  BY <1>1, <1>b DEF Scanned
<1>6. NothingMissed'
  BY <1>1, <1>b DEF NothingMissed
<1>7. Found'
  <2>1. E \subseteq map' /\ \A b \in live : E \cap Area(b) = {}
    BY <1>b, <1>c DEF IInv, Held
  <2>2. \A b \in live : Area(b)' = Area(b)
    BY <1>b DEF Area
  <2>. QED
    BY <2>1, <2>2, <1>1, <1>b, <1>d DEF Found, E
<1>8. Owned'
  <2>1. \A i \in map : \E b \in live : i \in Area(b)
    BY <1>1, <1>b DEF IInv, Owned
  <2>2. \A b \in live : Area(b)' = Area(b)
    BY <1>b DEF Area
  <2>. QED
    BY <2>1, <2>2, <1>b, <1>d DEF Owned, E
<1>9. Held'
  BY <1>b DEF IInv, Held, Area
<1>. QED
  BY <1>2, <1>3, <1>4, <1>r, <1>5, <1>6, <1>7, <1>8, <1>9 DEF IInv, OneCaller

(***************************************************************************)
(* What holds when the length is written: the area is new.                 *)
(***************************************************************************)
LEMMA NewArea ==
  ASSUME IInv, NEW c \in Caller, WriteHeader(c)
  PROVE  /\ scan[c].first \in Block /\ want[c] \in 1 .. Blocks /\ scan[c].first \notin live
         /\ live' = live \cup {scan[c].first}
         /\ header'[scan[c].first] = want[c]
         /\ \A b \in live : header'[b] = header[b] /\ b # scan[c].first
<1> DEFINE f == scan[c].first
<1>1. /\ pc[c] = "head" /\ f \in Block /\ want[c] \in Nat /\ want[c] >= 1
      /\ Extent(f, want[c]) \subseteq Block
      /\ \A b \in live : Extent(f, want[c]) \cap Area(b) = {}
      /\ header \in [Block -> 0 .. Blocks] /\ header' = [header EXCEPT ![f] = want[c]]
      /\ Blocks \in Nat
  BY HeapAssumption DEF WriteHeader, IInv, TypeOK, Found, Asks
<1> HIDE DEF f
<1>2. want[c] <= Blocks
  <2>1. (f + want[c]) - 1 \in Extent(f, want[c])
    BY <1>1 DEF Extent, Block
  <2>. QED
    BY <2>1, <1>1 DEF Block
<1>3. f \notin live
  <2>1. SUFFICES ASSUME f \in live PROVE FALSE
    OBVIOUS
  <2>2. header[f] >= 1 /\ header[f] \in Nat
    BY <2>1, <1>1 DEF live
  <2>3. f \in Area(f) /\ f \in Extent(f, want[c])
    BY <2>2, <1>1 DEF Area, Extent, Block
  <2>. QED
    BY <2>1, <2>3, <1>1
<1>4. header'[f] = want[c] /\ \A b \in Block : b # f => header'[b] = header[b]
  BY <1>1
<1>5. live' = live \cup {f}
  BY <1>1, <1>4 DEF live, Block
<1>. QED
  BY <1>1, <1>2, <1>3, <1>4, <1>5 DEF f, live

(***************************************************************************)
(* The length is written: the area is given out.                           *)
(***************************************************************************)
LEMMA WriteHeaderStep ==
  ASSUME IInv, NEW c \in Caller, WriteHeader(c)
  PROVE  IInv'
<1>1. \A d \in Caller : d = c
  BY DEF IInv, OneCaller
<1>0. PICK f \in Block : f = scan[c].first
  BY NewArea
<1> DEFINE E == Extent(f, want[c])
<1>a. /\ f \in Block /\ want[c] \in 1 .. Blocks /\ f \notin live
      /\ live' = live \cup {f} /\ header'[f] = want[c]
      /\ \A b \in live : header'[b] = header[b] /\ b # f
  BY NewArea, <1>0
<1>b. /\ map' = map /\ used' = used /\ pc'[c] = "idle" /\ pc[c] = "head"
      /\ scan'[c] = NoScan
  BY DEF IInv, TypeOK, WriteHeader, Done
<1>c. E \subseteq map /\ \A b \in live : E \cap Area(b) = {}
  BY <1>0, <1>b DEF IInv, Found
<1>d. Area(f)' = E /\ \A b \in live : Area(b)' = Area(b)
  BY <1>a DEF Area
<1>2. TypeOK'
  <2>1. NoScan \in [at : 0 .. Blocks, len : 0 .. Blocks, first : Block]
    BY HeapAssumption DEF NoScan, Block
  <2>2. want[c] \in 0 .. Blocks /\ Block' = Block
    BY <1>a DEF Block
  <2>3. header' \in [Block -> 0 .. Blocks]
    BY <2>2 DEF IInv, TypeOK, WriteHeader
  <2>. QED
    BY <1>b, <2>1, <2>2, <2>3 DEF IInv, TypeOK, WriteHeader, Done
<1> HIDE DEF E
<1>3. CounterAgrees'
  BY <1>b DEF IInv, CounterAgrees
<1>4. Asks'
  BY <1>1, <1>b DEF Asks
<1>r. Resting'
  BY <1>1, <1>b DEF Resting, NoScan
<1>5. Scanned'
  BY <1>1, <1>b DEF Scanned
<1>6. NothingMissed'
  BY <1>1, <1>b DEF NothingMissed
<1>7. Found'
  BY <1>1, <1>b DEF Found
<1>8. Owned'
  <2>1. \A i \in map : (\E b \in live : i \in Area(b)) \/ i \in E
    BY <1>0, <1>1, <1>b DEF IInv, Owned, E
  <2>2. \A i \in map' : \E b \in live' : i \in Area(b)'
    BY <2>1, <1>a, <1>b, <1>d
  <2>. QED
    BY <2>2 DEF Owned
<1>9. Held'
  <2>1. \A b \in live' : Area(b)' \subseteq map'
    BY <1>a, <1>b, <1>c, <1>d DEF IInv, Held
  <2>2. ASSUME NEW a \in live', NEW b \in live', a # b
        PROVE  Area(a)' \cap Area(b)' = {}
    <3>1. CASE a \in live /\ b \in live
      BY <3>1, <2>2, <1>d DEF IInv, Held
    <3>2. CASE a = f
      BY <3>2, <2>2, <1>a, <1>c, <1>d
    <3>3. CASE b = f
      BY <3>3, <2>2, <1>a, <1>c, <1>d
    <3>. QED
      BY <3>1, <3>2, <3>3, <1>a
  <2>. QED
    BY <2>1, <2>2 DEF Held
<1>. QED
  BY <1>2, <1>3, <1>4, <1>r, <1>5, <1>6, <1>7, <1>8, <1>9 DEF IInv, OneCaller

(***************************************************************************)
(* What kfree does: one allocation less, the others as they were.          *)
(***************************************************************************)
LEMMA OldArea ==
  ASSUME IInv, NEW c \in Caller, NEW b \in Block, Kfree(c, b)
  PROVE  /\ b \in live /\ live' = live \ {b}
         /\ header' \in [Block -> 0 .. Blocks]
         /\ \A a \in live' : header'[a] = header[a] /\ Area(a)' = Area(a)
         /\ map' = map \ Area(b)
<1>1. /\ b \in live /\ header \in [Block -> 0 .. Blocks]
      /\ header' = [header EXCEPT ![b] = 0] /\ map' = map \ Area(b)
  BY DEF Kfree, IInv, TypeOK, Area
<1>2. header'[b] = 0 /\ \A a \in Block : a # b => header'[a] = header[a]
  BY <1>1
<1>3. live' = live \ {b}
  BY <1>2 DEF live, Block
<1>4. \A a \in live' : header'[a] = header[a]
  BY <1>2, <1>3 DEF live
<1>5. header' \in [Block -> 0 .. Blocks]
  BY <1>1, HeapAssumption
<1>. QED
  BY <1>1, <1>3, <1>4, <1>5 DEF Area

(***************************************************************************)
(* An allocation is freed: exactly its blocks leave the map.               *)
(***************************************************************************)
LEMMA KfreeStep ==
  ASSUME IInv, NEW c \in Caller, NEW b \in Block, Kfree(c, b)
  PROVE  IInv'
<1>1. \A d \in Caller : d = c
  BY DEF IInv, OneCaller
<1>a. /\ b \in live /\ live' = live \ {b}
      /\ header' \in [Block -> 0 .. Blocks]
      /\ \A a \in live' : header'[a] = header[a] /\ Area(a)' = Area(a)
      /\ map' = map \ Area(b)
  BY OldArea
<1>b. /\ used' = used - header[b] /\ pc' = pc /\ want' = want /\ scan' = scan
      /\ pc[c] = "idle"
  BY DEF Kfree
<1>c. Area(b) \subseteq map /\ map \subseteq Block /\ header[b] \in Nat /\ b \in Nat
  BY <1>a DEF IInv, TypeOK, Held, Block
<1>3. CounterAgrees'
  <2>1. Cardinality(Area(b)) = header[b]
    BY <1>c, ExtentSize DEF Area
  <2>2. IsFiniteSet(map) /\ map \cap Area(b) = Area(b)
    BY <1>c, Counting
  <2>3. Cardinality(map \ Area(b)) = Cardinality(map) - Cardinality(map \cap Area(b))
    BY <2>2, FS_Difference
  <2>4. used = Cardinality(map)
    BY DEF IInv, CounterAgrees
  <2>. QED
    BY <2>1, <2>2, <2>3, <2>4, <1>a, <1>b DEF CounterAgrees
<1>2. TypeOK'
  <2>1. map' \subseteq Block
    BY <1>a, <1>c
  <2>2. used' \in 0 .. Blocks
    BY <2>1, <1>3, Counting DEF CounterAgrees
  <2>3. Block' = Block
    BY DEF Block
  <2>. QED
    BY <2>1, <2>2, <2>3, <1>a, <1>b DEF IInv, TypeOK
<1>4. Asks'
  BY <1>1, <1>b DEF Asks
<1>r. Resting'
  BY <1>1, <1>b DEF IInv, Resting
<1>5. Scanned'
  BY <1>1, <1>b DEF Scanned
<1>6. NothingMissed'
  BY <1>1, <1>b DEF NothingMissed
<1>7. Found'
  BY <1>1, <1>b DEF Found
<1>8. Owned'
  <2>1. \A i \in map : \E a \in live : i \in Area(a)
    BY <1>1, <1>b DEF IInv, Owned
  <2>2. \A i \in map' : \E a \in live' : i \in Area(a)'
    BY <2>1, <1>a
  <2>. QED
    BY <2>2 DEF Owned
<1>9. Held'
  <2>1. ASSUME NEW a \in live'
        PROVE  Area(a)' \subseteq map'
    BY <1>a DEF IInv, Held
  <2>2. ASSUME NEW a \in live', NEW d \in live', a # d
        PROVE  Area(a)' \cap Area(d)' = {}
    BY <2>2, <1>a DEF IInv, Held
  <2>. QED
    BY <2>1, <2>2 DEF Held
<1>. QED
  BY <1>2, <1>3, <1>4, <1>r, <1>5, <1>6, <1>7, <1>8, <1>9 DEF IInv, OneCaller

(***************************************************************************)
(* A stuttering step changes nothing the invariant speaks of.              *)
(***************************************************************************)
LEMMA StutterStep ==
  ASSUME IInv, UNCHANGED vars
  PROVE  IInv'
<1>1. /\ map' = map /\ used' = used /\ header' = header /\ pc' = pc
      /\ want' = want /\ scan' = scan /\ live' = live
  BY DEF vars, live
<1>2. OneCaller' /\ TypeOK' /\ CounterAgrees' /\ Asks' /\ Resting'
  BY <1>1 DEF IInv, OneCaller, TypeOK, Block, CounterAgrees, Asks, Resting, NoScan
<1>3. Scanned' /\ NothingMissed'
  BY <1>1 DEF IInv, Scanned, Clear, NothingMissed, Passed, Block, Extent
<1>4. Found' /\ Owned' /\ Held'
  BY <1>1 DEF IInv, Found, Owned, Held, Area, Block, Extent
<1>. QED
  BY <1>2, <1>3, <1>4 DEF IInv

(***************************************************************************)
(* Every step preserves the inductive invariant.                           *)
(***************************************************************************)
LEMMA NextStep == IInv /\ [Next]_vars => IInv'
<1> SUFFICES ASSUME IInv, [Next]_vars
             PROVE  IInv'
  OBVIOUS
<1>1. ASSUME NEW c \in Caller, NEW size \in Size, Kmalloc(c, size)
      PROVE  IInv'
  BY <1>1, KmallocStep
<1>2. ASSUME NEW c \in Caller, Fail(c)
      PROVE  IInv'
  BY <1>2, FailStep
<1>3. ASSUME NEW c \in Caller, Check(c)
      PROVE  IInv'
  BY <1>3, CheckStep
<1>4. ASSUME NEW c \in Caller, SkipWord(c)
      PROVE  IInv'
  BY <1>4, SkipWordStep
<1>5. ASSUME NEW c \in Caller, TestSet(c)
      PROVE  IInv'
  BY <1>5, TestSetStep
<1>6. ASSUME NEW c \in Caller, TestFree(c)
      PROVE  IInv'
  BY <1>6, TestFreeStep
<1>7. ASSUME NEW c \in Caller, Mark(c)
      PROVE  IInv'
  BY <1>7, MarkStep
<1>8. ASSUME NEW c \in Caller, WriteHeader(c)
      PROVE  IInv'
  BY <1>8, WriteHeaderStep
<1>9. ASSUME NEW c \in Caller, NEW b \in Block, Kfree(c, b)
      PROVE  IInv'
  BY <1>9, KfreeStep
<1>10. CASE UNCHANGED vars
  BY <1>10, StutterStep
<1>. QED
  BY <1>1, <1>2, <1>3, <1>4, <1>5, <1>6, <1>7, <1>8, <1>9, <1>10 DEF Next

(***************************************************************************)
(* Theorem: the inductive invariant holds throughout every run.            *)
(***************************************************************************)
THEOREM HeapInvariance == OneCaller /\ Spec => []IInv
<1>1. OneCaller /\ Init => IInv
  BY InitStep
<1>2. IInv /\ [Next]_vars => IInv'
  BY NextStep
<1>. QED
  BY <1>1, <1>2, PTL DEF Spec

(***************************************************************************)
(* Theorem: the search stays inside the map and the counter inside its     *)
(* range, for any arena.                                                   *)
(***************************************************************************)
THEOREM HeapTypeCorrect == OneCaller /\ Spec => []TypeOK
<1>1. IInv => TypeOK
  BY DEF IInv
<1>. QED
  BY <1>1, HeapInvariance, PTL

(***************************************************************************)
(* Theorem: allocations never overlap, and no marked block is lost         *)
(* (kmalloc_alloc_blocks, kmalloc_free_blocks).                            *)
(***************************************************************************)
THEOREM AllocationsDisjoint == OneCaller /\ Spec => []Disjoint
<1>1. IInv => Disjoint
  <2> SUFFICES ASSUME IInv PROVE Disjoint
    OBVIOUS
  <2>1. ASSUME \A c \in Caller : pc[c] = "idle"
        PROVE  map \subseteq UNION {Area(b) : b \in live}
    BY <2>1 DEF IInv, Owned
  <2>. QED
    BY <2>1 DEF IInv, Held, Disjoint
<1>. QED
  BY <1>1, HeapInvariance, PTL

(***************************************************************************)
(* Theorem: _alloc_used_blocks counts the blocks in use.                   *)
(***************************************************************************)
THEOREM CounterCounts == OneCaller /\ Spec => []CounterAgrees
<1>1. IInv => CounterAgrees
  BY DEF IInv
<1>. QED
  BY <1>1, HeapInvariance, PTL

-----------------------------------------------------------------------------
(***************************************************************************)
(* Refinement.                                                             *)
(***************************************************************************)
given   == {[at |-> b, size |-> header[b]] : b \in live}
request == [c \in Caller |-> IF pc[c] = "idle" THEN 0 ELSE want[c]]

(***************************************************************************)
(* The blocks the abstract allocator calls taken are those of the areas.   *)
(***************************************************************************)
LEMMA TakenAreas == \A i : i \in Memory!Taken <=> \E b \in live : i \in Area(b)
<1>1. ASSUME NEW b
      PROVE  Memory!Cells([at |-> b, size |-> header[b]]) = Area(b)
  BY DEF Memory!Cells, Area, Extent
<1>2. Memory!Taken = UNION {Memory!Cells(a) : a \in given}
  BY DEF Memory!Taken, given
<1>3. \A i : i \in Memory!Taken <=> \E a \in given : i \in Memory!Cells(a)
  BY <1>2
<1>4. \A i : (\E a \in given : i \in Memory!Cells(a))
              <=> \E b \in live : i \in Memory!Cells([at |-> b, size |-> header[b]])
  BY DEF given
<1>. QED
  BY <1>1, <1>3, <1>4

(***************************************************************************)
(* A call that ends or begins changes the abstract requests of its caller. *)
(***************************************************************************)
LEMMA RequestOf ==
  ASSUME IInv, NEW c \in Caller
  PROVE  /\ request[c] = IF pc[c] = "idle" THEN 0 ELSE want[c]
         /\ request' = [request EXCEPT ![c] = request'[c]]
<1>1. request' = [d \in Caller |-> IF d = c THEN request'[c] ELSE request[d]]
  BY DEF request, IInv, OneCaller
<1>. QED
  BY <1>1 DEF request

(***************************************************************************)
(* Every step of the heap is a step of the abstract allocator, or none.    *)
(***************************************************************************)
LEMMA MemoryStep == IInv /\ [Next]_vars => [Memory!Next]_(Memory!vars)
<1> SUFFICES ASSUME IInv, [Next]_vars
             PROVE  Memory!Next \/ (given' = given /\ request' = request)
  BY DEF Memory!vars, given, request
<1>1. ASSUME NEW c \in Caller, NEW size \in Size, Kmalloc(c, size)
      PROVE  Memory!Next
  <2>1. request[c] = 0 /\ request' = [request EXCEPT ![c] = request'[c]]
    BY <1>1, RequestOf DEF Kmalloc
  <2>2. pc'[c] = "check" /\ want'[c] = BlockAmt(size)
    BY <1>1 DEF Kmalloc, IInv, TypeOK
  <2>3. request'[c] \in Nat \ {0}
    BY <2>2, BlockAmtPositive DEF request
  <2>4. given' = given
    BY <1>1 DEF Kmalloc, given, live
  <2>. QED
    BY <2>1, <2>3, <2>4 DEF Memory!Next, Memory!Ask, given, request
<1>2. ASSUME NEW c \in Caller, Fail(c)
      PROVE  Memory!Next
  <2>1. pc[c] # "idle" /\ pc[c] # "head" /\ pc'[c] = "idle" /\ given' = given
        /\ want[c] \in Nat /\ want[c] >= 1
    BY <1>2 DEF Fail, Done, IInv, TypeOK, Asks, given, live
  <2>2. request[c] # 0 /\ request' = [request EXCEPT ![c] = 0]
    <3>1. request'[c] = 0
      BY <2>1 DEF request
    <3>. QED
      BY <2>1, <3>1, RequestOf
  <2>3. ASSUME NEW b \in Block, b + want[c] <= Blocks
        PROVE  \E i \in Extent(b, want[c]) : i \in map
    <3>1. CASE pc[c] = "check" /\ used >= Blocks
      <4>1. map = Block
        BY <3>1, Counting DEF IInv, TypeOK, CounterAgrees
      <4>2. b \in Extent(b, want[c])
        BY <2>1 DEF Extent, Block
      <4>. QED
        BY <4>1, <4>2
    <3>2. CASE pc[c] = "scan" /\ scan[c].at >= Blocks
      <4>1. scan[c].at = Blocks
        BY <3>2, HeapAssumption DEF IInv, TypeOK
      <4>. QED
        BY <3>2, <4>1, <2>3 DEF IInv, NothingMissed, Passed
    <3>. QED
      BY <1>2, <3>1, <3>2 DEF Fail
  <2>4. \A i \in map : i \in Memory!Taken
    BY <2>1, TakenAreas DEF IInv, OneCaller, Owned
  <2>5. Memory!Gap(request[c]) = {}
    <3>1. request[c] = want[c]
      BY <2>1 DEF request
    <3>2. \A b \in Memory!Gap(want[c]) : FALSE
      BY <2>3, <2>4 DEF Memory!Gap, Block, Extent
    <3>. QED
      BY <3>1, <3>2
  <2>. QED
    BY <2>1, <2>2, <2>5 DEF Memory!Next, Memory!Refuse, given, request
<1>3. ASSUME NEW c \in Caller, WriteHeader(c)
      PROVE  Memory!Next
  <2>0. PICK f \in Block : f = scan[c].first
    BY <1>3, NewArea
  <2>a. PICK n \in 1 .. Blocks : n = want[c]
    BY <1>3, NewArea
  <2>1. /\ f \notin live /\ live' = live \cup {f} /\ header'[f] = n
        /\ \A b \in live : header'[b] = header[b]
    BY <1>3, <2>0, <2>a, NewArea
  <2>2. pc[c] = "head" /\ pc'[c] = "idle"
    BY <1>3 DEF WriteHeader, Done, IInv, TypeOK
  <2>3. request[c] = n /\ n # 0 /\ request' = [request EXCEPT ![c] = 0]
    <3>1. request'[c] = 0 /\ request[c] = n
      BY <2>2, <2>a DEF request
    <3>. QED
      BY <3>1, <2>a, RequestOf
  <2>4. given' = given \cup {[at |-> f, size |-> n]}
    BY <2>1 DEF given
  <2>5. f \in Memory!Gap(n)
    <3>1. /\ Extent(f, n) \subseteq map /\ map \subseteq Block
          /\ \A b \in live : Extent(f, n) \cap Area(b) = {}
      BY <2>0, <2>a, <2>2 DEF IInv, TypeOK, Found
    <3>2. f + n <= Blocks
      <4>1. (f + n) - 1 \in Extent(f, n)
        BY <2>a, HeapAssumption DEF Extent, Block
      <4>. QED
        BY <4>1, <3>1, HeapAssumption DEF Block
    <3>3. \A i \in f .. f + n - 1 : i \notin Memory!Taken
      BY <3>1, TakenAreas DEF Extent
    <3>. QED
      BY <3>2, <3>3 DEF Memory!Gap, Block
  <2>. QED
    BY <2>3, <2>4, <2>5 DEF Memory!Next, Memory!Grant, given, request
<1>4. ASSUME NEW c \in Caller, NEW b \in Block, Kfree(c, b)
      PROVE  Memory!Next
  <2>1. /\ b \in live /\ live' = live \ {b}
        /\ \A a \in live' : header'[a] = header[a]
    BY <1>4, OldArea
  <2>2. given' = given \ {[at |-> b, size |-> header[b]]}
    BY <2>1 DEF given
  <2>3. request' = request
    BY <1>4 DEF Kfree, request
  <2>. QED
    BY <2>1, <2>2, <2>3 DEF Memory!Next, Memory!Return, given, request
<1>5. ASSUME NEW c \in Caller, Check(c) \/ SkipWord(c) \/ TestSet(c) \/ TestFree(c) \/ Mark(c)
      PROVE  given' = given /\ request' = request
  <2>1. header' = header /\ want' = want /\ live' = live
    BY <1>5 DEF Check, SkipWord, TestSet, TestFree, Mark, live
  <2>2. pc[c] # "idle" /\ pc'[c] # "idle"
    BY <1>5 DEF Check, SkipWord, TestSet, TestFree, Mark, IInv, TypeOK
  <2>. QED
    BY <2>1, <2>2 DEF given, request, IInv, OneCaller
<1>6. CASE UNCHANGED vars
  BY <1>6 DEF vars, given, request, live
<1>. QED
  BY <1>1, <1>2, <1>3, <1>4, <1>5, <1>6 DEF Next

(***************************************************************************)
(* Theorem: the heap implements the abstract allocator.  In particular     *)
(* kmalloc returns null only when no gap is large enough.                  *)
(***************************************************************************)
THEOREM HeapImplementsAllocator == OneCaller /\ Spec => ImplementsAllocator
<1>1. Init => Memory!Init
  BY DEF Init, Memory!Init, live
<1>2. IInv /\ [Next]_vars => [Memory!Next]_(Memory!vars)
  BY MemoryStep
<1>. QED
  BY <1>1, <1>2, HeapInvariance, PTL DEF Spec, ImplementsAllocator, Memory!Spec
=============================================================================
