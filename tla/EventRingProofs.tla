--------------------------- MODULE EventRingProofs ---------------------------
(***************************************************************************)
(* Theorems about EventRing for rings of any size, any handlers and marks. *)
(***************************************************************************)
EXTENDS EventRing, FiniteSetTheorems, SequenceTheorems, WellFoundedInduction, TLAPS

(***************************************************************************)
(* The inductive invariant.                                                *)
(***************************************************************************)
Type     == EvMark \cup {Invalid}
IsEvent(e) == e = [type |-> e.type, data |-> e.data] /\ e.type \in Type
IsValid(e) == IsEvent(e) /\ e.type # Invalid

\* A sequence of valid events, n of them.
Puts(q, n) == (\E S : q \in Seq(S)) /\ Len(q) = n /\ \A i \in 1 .. n : IsValid(q[i])

Known == IF evMid = {} THEN Len(evQueue) ELSE Len(evQueue) - 1

\* The events that the shell and the handler have in hand.
Users ==
  /\ EvTypeOK
  /\ DOMAIN events = EvSlot /\ \A i \in EvSlot : IsEvent(events[i])
  /\ evShell \in {"type", "data"} => IsEvent(evCopy)
  /\ evShell \in {"read", "type", "data"} => evI < EvSlots
  /\ evShell = "last" => evI = EvSlots
  /\ DOMAIN evHandler = EvHandlers
  /\ \A h \in EvHandlers : evHandler[h].at \in {"store", "data"} =>
       IsValid(evHandler[h].event) /\ evHandler[h].slot \in EvSlot

\* The events counted on are a prefix of those put.
Counted ==
  /\ Puts(evQueue, Len(evQueue))
  /\ evMid # {} => Shifting /\ Len(evQueue) > 0
  /\ evVoid => evMid = {} /\ Len(evQueue) = 0
  /\ IF Shifting THEN Known < EvSlots ELSE Known <= EvSlots

\* A handler is about to store the second word of the event at i.
Half(i) == \E h \in EvHandlers : /\ evHandler[h].at = "data" /\ evHandler[h].slot = i
                                 /\ evHandler[h].event = evQueue[i]

Placed(i) == events[i].type = evQueue[i].type /\ (events[i] = evQueue[i] \/ Half(i))

\* Between two shifts.
Still ==
  ~ Shifting /\ ~ evVoid =>
    /\ \A i \in 1 .. Known : Placed(i)
    /\ \A i \in Known + 1 .. EvSlots : events[i].type = Invalid
    /\ \A h \in EvHandlers : evHandler[h].at = "store" => evHandler[h].slot = Known + 1
    /\ \A h \in EvHandlers : evHandler[h].at = "data" =>
         evHandler[h].slot \in 1 .. Known /\ evHandler[h].event = evQueue[evHandler[h].slot]
    /\ \A g, h \in EvHandlers : evHandler[g].at = "store" /\ evHandler[h].at = "store" => g = h

\* In a shift: the slots before evI hold what they shall, those behind it the
\* event of the slot before.
Moving ==
  Shifting /\ ~ evVoid =>
    /\ \A k \in 1 .. Known : k < evI => events[k] = evQueue[k]
    /\ \A k \in 2 .. Known + 1 : k > evI => events[k] = evQueue[k - 1]
    /\ evI <= Known => events[evI].type # Invalid
    /\ evI <= Known /\ evShell \in {"type", "data"} => evCopy = evQueue[evI]
    /\ evI <= Known /\ evShell = "data" => events[evI].type = evQueue[evI].type
    /\ \A h \in EvHandlers : evHandler[h].at = "data" =>
         /\ evMid # {} /\ evHandler[h].slot \in {Known + 1, Known + 2}
         /\ evHandler[h].slot = Known + 1 => evI > Known

\* ... and no event is behind them, unless one was put meanwhile,
Empty ==
  Shifting /\ ~ evVoid /\ evMid = {} =>
    /\ \A k \in Known + 2 .. EvSlots : events[k].type = Invalid
    /\ evI > Known + 1 => events[Known + 1].type = Invalid
    /\ evI = Known + 1 /\ evShell = "data" => events[Known + 1].type = Invalid
    /\ evI > Known /\ evShell \in {"type", "data"} => evCopy.type = Invalid
    /\ \A h \in EvHandlers : evHandler[h].at = "store" =>
         /\ evHandler[h].slot \in {Known + 1, Known + 2}
         /\ evHandler[h].slot = Known + 1 => evI > Known

\* which is then in one place.
Single ==
  Shifting /\ ~ evVoid /\ evMid # {} =>
    /\ \A k \in Known + 3 .. EvSlots : events[k].type = Invalid
    /\ evI > Known + 1 /\ evShell \in {"type", "data"} => evCopy.type = Invalid
    /\ (evI = Known + 2 /\ evShell = "data") \/ (evI > Known + 2 /\ Known + 2 \in EvSlot) =>
         events[Known + 1].type = Invalid \/ events[Known + 2].type = Invalid

EvIInv == Users /\ Counted /\ Still /\ Moving /\ Empty /\ Single
-----------------------------------------------------------------------------
(***************************************************************************)
(* Sequences of the events put.                                            *)
(***************************************************************************)
\* Putting an event makes it the last.
Longer(r, q, e, n) ==
  Puts(r, n + 1) /\ (\A i \in 1 .. n : r[i] = q[i]) /\ r[n + 1] = e

LEMMA PutLast ==
  ASSUME NEW q, NEW e, NEW n, NEW r, Puts(q, n), IsValid(e), r = Append(q, e)
  PROVE  Longer(r, q, e, n)
<1>1. PICK S : q \in Seq(S)
  BY DEF Puts
<1>2. q \in Seq(S \cup {e}) /\ e \in S \cup {e} /\ n \in Nat
  BY <1>1, LenProperties, ElementOfSeq, SeqDef DEF Puts
<1>3. /\ Append(q, e) \in Seq(S \cup {e}) /\ Len(Append(q, e)) = n + 1
      /\ \A i \in 1 .. n : Append(q, e)[i] = q[i]
      /\ Append(q, e)[n + 1] = e
  BY <1>2, AppendProperties DEF Puts
<1>4. \A i \in 1 .. n + 1 : IsValid(Append(q, e)[i])
  BY <1>2, <1>3 DEF Puts
<1> QED
  BY <1>2, <1>3, <1>4 DEF Puts, Longer

\* Taking one takes the first.
LEMMA TakeFirst ==
  ASSUME NEW q, NEW n, Puts(q, n), q # <<>>
  PROVE  /\ n \in Nat \ {0} /\ Puts(Tail(q), n - 1)
         /\ \A i \in 1 .. n - 1 : Tail(q)[i] = q[i + 1]
<1>1. PICK S : q \in Seq(S)
  BY DEF Puts
<1>2. n \in Nat /\ n # 0
  BY <1>1, LenProperties, EmptySeq DEF Puts
<1>3. /\ Tail(q) \in Seq(S) /\ Len(Tail(q)) = n - 1
      /\ \A i \in 1 .. n - 1 : Tail(q)[i] = q[i + 1]
  BY <1>1, HeadTailProperties DEF Puts
<1>4. \A i \in 1 .. n - 1 : IsValid(Tail(q)[i])
  BY <1>2, <1>3 DEF Puts
<1> QED
  BY <1>2, <1>3, <1>4 DEF Puts

\* Dropping the last leaves the others.
LEMMA DropLast ==
  ASSUME NEW q, NEW n, Puts(q, n), n > 0
  PROVE  /\ n \in Nat /\ Puts(SubSeq(q, 1, n - 1), n - 1)
         /\ \A i \in 1 .. n - 1 : SubSeq(q, 1, n - 1)[i] = q[i]
<1>1. PICK S : q \in Seq(S)
  BY DEF Puts
<1>2. n \in Nat
  BY <1>1, LenProperties DEF Puts
<1>3. /\ SubSeq(q, 1, n - 1) \in Seq(S) /\ Len(SubSeq(q, 1, n - 1)) = n - 1
      /\ \A i \in 1 .. n - 1 : SubSeq(q, 1, n - 1)[i] = q[i]
  BY <1>1, <1>2, SubSeqProperties DEF Puts
<1>4. \A i \in 1 .. n - 1 : IsValid(SubSeq(q, 1, n - 1)[i])
  BY <1>2, <1>3 DEF Puts
<1> QED
  BY <1>2, <1>3, <1>4 DEF Puts

\* Nothing put.
LEMMA PutNone == Puts(<<>>, 0)
<1>1. <<>> \in Seq({}) /\ Len(<<>>) = 0
  BY EmptySeq
<1> QED
  BY <1>1 DEF Puts

-----------------------------------------------------------------------------
(***************************************************************************)
(* Every step preserves the invariant.                                     *)
(***************************************************************************)
LEMMA InitiallyEmpty == EvInit => EvIInv
<1>1. ASSUME EvInit PROVE EvIInv
  <2>1. Puts(evQueue, 0) /\ Len(evQueue) = 0
    BY <1>1, PutNone DEF EvInit, Puts
  <2>2. \A i \in EvSlot : events[i] = NoEvent /\ IsEvent(events[i]) /\ events[i].type = Invalid
    BY <1>1 DEF EvInit, IsEvent, Type, NoEvent
  <2>3. DOMAIN evHandler = EvHandlers /\ \A h \in EvHandlers : evHandler[h].at = "idle"
    BY <1>1 DEF EvInit, Idle
  <2>4. ~ Shifting /\ Known = 0 /\ DOMAIN events = EvSlot
    BY <1>1, <2>1 DEF EvInit, Shifting, Known
  <2>5. EvTypeOK
    <3>1. evSuspended \in BOOLEAN /\ evVoid \in BOOLEAN /\ evTaken \in BOOLEAN
      BY <1>1 DEF EvInit
    <3>2. evI \in 1 .. EvSlots /\ Len(evQueue) <= EvSlots + 1
      BY <1>1, <2>1, EventRingAssumption DEF EvInit
    <3> QED
      BY <1>1, <2>2, <2>3, <3>1, <3>2 DEF EvInit, EvTypeOK, IsEvent, Type
  <2>6. Users
    BY <1>1, <2>2, <2>3, <2>4, <2>5 DEF EvInit, Users
  <2>7. Counted
    BY <1>1, <2>1, <2>4, EventRingAssumption DEF EvInit, Counted
  <2>8. Still /\ Moving /\ Empty /\ Single
    <3>1. \A h \in EvHandlers : evHandler[h].at \notin {"store", "data"}
      BY <2>3
    <3>2. \A i \in Known + 1 .. EvSlots : events[i].type = Invalid
      BY <2>2, <2>4, EventRingAssumption DEF EvSlot
    <3>3. Still
      <4>1. \A i \in 1 .. Known : FALSE
        BY <2>4
      <4> QED
        BY <2>4, <3>1, <3>2, <4>1 DEF Still
    <3> QED
      BY <2>4, <3>3 DEF Moving, Empty, Single
  <2> QED
    BY <2>6, <2>7, <2>8 DEF EvIInv
<1> QED
  BY <1>1

\* What is counted, in numbers.
LEMMA Numbers ==
  ASSUME Users, Counted
  PROVE  /\ Len(evQueue) \in Nat /\ Known \in Nat /\ evI \in 1 .. EvSlots /\ evI \in Nat
         /\ Len(evQueue) = IF evMid = {} THEN Known ELSE Known + 1
         /\ EvSlots \in Nat /\ EvSlots > 1
<1>1. PICK S : evQueue \in Seq(S)
  BY DEF Counted, Puts
<1>2. Len(evQueue) \in Nat
  BY <1>1, LenProperties
<1>3. evMid # {} => Len(evQueue) > 0
  BY DEF Counted
<1>4. evI \in 1 .. EvSlots
  BY DEF Users, EvTypeOK
<1> QED
  BY <1>2, <1>3, <1>4, EventRingAssumption DEF Known

\* A handler moves.
LEMMA HandlerGoes ==
  ASSUME Users, NEW h \in EvHandlers, NEW r, Goes(h, r)
  PROVE  /\ DOMAIN evHandler' = EvHandlers /\ evHandler'[h] = r
         /\ \A g \in EvHandlers : g # h => evHandler'[g] = evHandler[g]
BY DEF Users, Goes

\* No handler finds a slot, stores or ceases to.
NoneStores == \A g \in EvHandlers :
  \/ evHandler'[g] = evHandler[g]
  \/ evHandler[g].at \notin {"store", "data"} /\ evHandler'[g].at \notin {"store", "data"}

\* Steps that leave the ring and the shift alone.
LEMMA Unmoved ==
  ASSUME EvIInv, UNCHANGED <<events, evI, evCopy, evQueue, evMid, evVoid>>,
         evShell' = evShell \/ (~ Shifting /\ ~ Shifting'), NoneStores
  PROVE  Counted' /\ Still' /\ Moving' /\ Empty' /\ Single'
<1>1. Known' = Known /\ (Shifting' <=> Shifting)
  BY DEF Known, Shifting
<1>2. Counted'
  BY <1>1 DEF EvIInv, Counted, Puts
<1>3. \A g \in EvHandlers : evHandler'[g].at \in {"store", "data"} => evHandler'[g] = evHandler[g]
  BY DEF NoneStores
<1>4. \A i : Half(i) => Half(i)'
  BY DEF Half, NoneStores
<1>5. Still'
  <2>1. SUFFICES ASSUME ~ Shifting, ~ evVoid PROVE Still'
    BY <1>1 DEF Still
  <2>2. /\ \A i \in 1 .. Known : Placed(i)'
        /\ \A i \in Known + 1 .. EvSlots : events'[i].type = Invalid
    BY <1>4, <2>1 DEF EvIInv, Still, Placed
  <2>3. /\ \A h \in EvHandlers : evHandler'[h].at = "store" => evHandler'[h].slot = Known + 1
        /\ \A g, h \in EvHandlers : evHandler'[g].at = "store" /\ evHandler'[h].at = "store" => g = h
    BY <1>3, <2>1 DEF EvIInv, Still
  <2>4. \A h \in EvHandlers : evHandler'[h].at = "data" =>
          evHandler'[h].slot \in 1 .. Known /\ evHandler'[h].event = evQueue'[evHandler'[h].slot]
    BY <1>3, <2>1 DEF EvIInv, Still
  <2> QED
    BY <1>1, <2>2, <2>3, <2>4 DEF Still
<1>6. Moving'
  BY <1>1, <1>3 DEF EvIInv, Moving, Shifting
<1>7. Empty' /\ Single'
  BY <1>1, <1>3 DEF EvIInv, Empty, Single, Shifting
<1> QED
  BY <1>2, <1>5, <1>6, <1>7

\* A handler begins, or ends.
LEMMA HandlerAside ==
  ASSUME EvIInv, NEW h \in EvHandlers, NEW r, Goes(h, r), r.at \in {"idle", "find", "wake"},
         evHandler[h].at \notin {"store", "data"}, evSuspended' \in BOOLEAN,
         UNCHANGED <<events, evShell, evTaken, evI, evCopy, evQueue, evMid, evVoid>>
  PROVE  EvIInv'
<1>1. /\ DOMAIN evHandler' = EvHandlers /\ evHandler'[h] = r
      /\ \A g \in EvHandlers : g # h => evHandler'[g] = evHandler[g]
  BY HandlerGoes DEF EvIInv
<1>2. NoneStores
  BY <1>1 DEF NoneStores
<1>3. EvTypeOK'
  <2>1. \A g \in EvHandlers : evHandler'[g].at \in {"idle", "find", "store", "data", "wake"}
    BY <1>1 DEF EvIInv, Users, EvTypeOK
  <2> QED
    BY <2>1 DEF EvIInv, Users, EvTypeOK, EvSlot
<1>4. Users'
  <2>1. \A g \in EvHandlers : evHandler'[g].at \in {"store", "data"} =>
          IsValid(evHandler'[g].event) /\ evHandler'[g].slot \in EvSlot
    BY <1>1 DEF EvIInv, Users
  <2> QED
    BY <1>1, <1>3, <2>1 DEF EvIInv, Users, EvSlot
<1> QED
  BY <1>2, <1>4, Unmoved DEF EvIInv

LEMMA KeyPressed ==
  ASSUME EvIInv, NEW h \in EvHandlers, keyboard_handler(h) PROVE EvIInv'
<1> DEFINE r == [at |-> "find"]
<1>1. /\ evHandler[h].at \notin {"store", "data"} /\ r.at = "find" /\ Goes(h, r)
      /\ UNCHANGED <<events, evShell, evTaken, evI, evCopy, evSuspended, evQueue, evMid, evVoid>>
  BY DEF keyboard_handler, Idle
<1>2. evSuspended' \in BOOLEAN
  BY <1>1 DEF EvIInv, Users, EvTypeOK
<1> HIDE DEF r
<1> QED
  BY <1>1, <1>2, HandlerAside

LEMMA Woken ==
  ASSUME EvIInv, NEW h \in EvHandlers, EvWake(h) PROVE EvIInv'
<1>1. evHandler[h].at = "wake" /\ Idle.at = "idle" /\ evSuspended' \in BOOLEAN
  BY DEF EvWake, Idle
<1> QED
  BY <1>1, HandlerAside DEF EvWake

\* The shell between two shifts.
LEMMA Looking ==
  ASSUME EvIInv,
         UNCHANGED <<events, evI, evCopy, evQueue, evMid, evVoid, evHandler>>,
         evSuspended' \in BOOLEAN, evTaken' \in BOOLEAN, ~ Shifting,
         evShell' \in {"look", "suspend", "asleep", "take", "suspend again", "asleep again"}
  PROVE  EvIInv'
<1>1. ~ Shifting' /\ evShell' \notin {"read", "type", "data", "last"}
  BY DEF Shifting
<1>2. EvTypeOK'
  BY DEF EvIInv, Users, EvTypeOK, EvSlot
<1>3. Users'
  BY <1>1, <1>2 DEF EvIInv, Users, EvSlot
<1>4. NoneStores
  BY DEF NoneStores
<1> QED
  BY <1>1, <1>3, <1>4, Unmoved DEF EvIInv

LEMMA LookingSteps ==
  ASSUME EvIInv,
         \/ EvLook \/ EvTest
         \/ EvSuspend("suspend", "asleep") \/ EvSuspend("suspend again", "asleep again")
         \/ EvResume("asleep", "take") \/ EvResume("asleep again", "look")
  PROVE  EvIInv'
<1>1. /\ UNCHANGED <<events, evI, evCopy, evQueue, evMid, evVoid, evHandler>>
      /\ evShell' \in {"look", "suspend", "asleep", "take", "suspend again", "asleep again"}
      /\ ~ Shifting
  BY DEF EvLook, EvTest, EvSuspend, EvResume, ShellGoes, Steady, Shifting
<1>2. evSuspended' \in BOOLEAN /\ evTaken' \in BOOLEAN
  BY DEF EvLook, EvTest, EvSuspend, EvResume, EvIInv, Users, EvTypeOK
<1> QED
  BY <1>1, <1>2, Looking

\* The handler finds the first invalid slot: the one behind the last event, or,
\* in a shift, the slot that the last event leaves or the one behind it.
LEMMA FirstOf ==
  ASSUME NEW S, S \subseteq Nat, S # {}
  PROVE  LET first == CHOOSE i \in S : \A j \in S : i <= j
         IN  first \in S /\ \A k \in S : first <= k
<1>1. PICK i \in S : \A j \in S : <<j, i>> \notin OpToRel(<, Nat)
  BY WFMin, NatLessThanWellFounded, Zenon
<1>2. ASSUME NEW j \in S, j < i
      PROVE  FALSE
  BY <1>1, <1>2, Zenon DEF OpToRel
<1>3. \E k \in S : \A j \in S : k <= j
  BY <1>2
<1> QED
  BY <1>3

\* An image has no more elements than what it is the image of.
LEMMA Images ==
  ASSUME NEW S, NEW f, NEW T, IsFiniteSet(S), T = {f[x] : x \in S}
  PROVE  IsFiniteSet(T) /\ Cardinality(T) <= Cardinality(S)
<1>1. [x \in S |-> f[x]] \in Surjection(S, T)
  BY DEF Surjection
<1> QED
  BY <1>1, FS_Surjection

\* The mark that a handler draws is one: those in use are fewer.
LEMMA MarkLeft ==
  ASSUME Users, Counted, NEW h \in EvHandlers, evHandler[h].at = "find"
  PROVE  NewMark \in EvMark
<1> DEFINE q == {evQueue[i] : i \in 1 .. Len(evQueue)}
           c == {g \in EvHandlers : evHandler[g].at \in {"store", "data"}}
           b == {evHandler[g].event : g \in c}
           d == {e.data : e \in b \cup q}
<1>1. Len(evQueue) \in Nat /\ Len(evQueue) <= EvSlots /\ EvSlots \in Nat
  BY Numbers DEF Counted, Known
<1>2. IsFiniteSet(q) /\ Cardinality(q) <= Len(evQueue)
  <2> DEFINE n == Len(evQueue)
  <2>1. n \in Int /\ 1 \in Int
    BY <1>1
  <2>2. /\ IsFiniteSet(1 .. n)
        /\ Cardinality(1 .. n) = IF 1 > n THEN 0 ELSE n - 1 + 1
    <3> HIDE DEF n
    <3> QED
      BY <2>1, FS_Interval, Zenon
  <2>3. IsFiniteSet(q) /\ Cardinality(q) <= Cardinality(1 .. n)
    BY <2>2, Images
  <2> QED
    BY <1>1, <2>2, <2>3
<1>3. IsFiniteSet(c) /\ Cardinality(c) < Cardinality(EvHandlers)
  <2>1. IsFiniteSet(EvHandlers) /\ c \in SUBSET EvHandlers /\ h \notin c
    BY EventRingAssumption
  <2>2. /\ IsFiniteSet(c) /\ Cardinality(c) <= Cardinality(EvHandlers)
        /\ Cardinality(EvHandlers) = Cardinality(c) => EvHandlers = c
    BY <2>1, FS_Subset
  <2> QED
    BY <2>1, <2>2, FS_CardinalityType
<1>4. IsFiniteSet(b) /\ Cardinality(b) <= Cardinality(c)
  <2> DEFINE f == [g \in c |-> evHandler[g].event]
  <2>1. b = {f[g] : g \in c}
    OBVIOUS
  <2> HIDE DEF f, b, c
  <2> QED
    BY <1>3, <2>1, Images
<1>5. IsFiniteSet(b \cup q) /\ Cardinality(b \cup q) <= Cardinality(b) + Cardinality(q)
  <2>1. b \cap q \in SUBSET b
    OBVIOUS
  <2> HIDE DEF b, q
  <2>2. IsFiniteSet(b \cap q)
    BY <1>4, <2>1, FS_Subset
  <2>3. /\ IsFiniteSet(b \cup q)
        /\ Cardinality(b \cup q) = Cardinality(b) + Cardinality(q) - Cardinality(b \cap q)
    BY <1>2, <1>4, FS_Union, Zenon
  <2>4. Cardinality(b) \in Nat /\ Cardinality(q) \in Nat /\ Cardinality(b \cap q) \in Nat
    BY <1>2, <1>4, <2>2, FS_CardinalityType
  <2> QED
    BY <2>3, <2>4
<1>6. IsFiniteSet(d) /\ Cardinality(d) <= Cardinality(b \cup q)
  <2> DEFINE f == [e \in b \cup q |-> e.data]
  <2>1. d = {f[e] : e \in b \cup q}
    OBVIOUS
  <2> HIDE DEF f, d, b, q
  <2> QED
    BY <1>5, <2>1, Images
<1>7. Cardinality(d) < Cardinality(EvMark)
  <2> HIDE DEF d, b, q, c
  <2>1. /\ Cardinality(b) \in Nat /\ Cardinality(q) \in Nat /\ Cardinality(c) \in Nat
        /\ Cardinality(d) \in Nat /\ Cardinality(b \cup q) \in Nat
        /\ Cardinality(EvHandlers) \in Nat /\ Cardinality(EvMark) \in Nat
    BY <1>2, <1>3, <1>4, <1>5, <1>6, FS_CardinalityType, EventRingAssumption
  <2> QED
    BY <1>1, <1>2, <1>3, <1>4, <1>5, <1>6, <2>1, EventRingAssumption
<1>8. PICK m \in EvMark : m \notin d
  <2> HIDE DEF d
  <2>1. CASE EvMark \in SUBSET d
    BY <1>6, <1>7, <2>1, FS_Subset, FS_CardinalityType, EventRingAssumption
  <2> QED
    BY <2>1
<1>9. \A e \in b \cup q : e.data # m
  BY <1>8
<1> QED
  BY <1>9, Zenon DEF NewMark

LEMMA Found ==
  ASSUME EvIInv, NEW h \in EvHandlers, EvFind(h) PROVE EvIInv'
<1> DEFINE free == {i \in EvSlot : events[i].type = Invalid}
           e == [type |-> NewMark, data |-> NewMark]
<1>1. UNCHANGED <<events, evShell, evTaken, evI, evCopy, evSuspended>>
  BY DEF EvFind
<1>2. /\ evHandler[h].at = "find" /\ evVoid' = (evVoid \/ (free # {} /\ Some({"store"})))
      /\ evQueue' = (IF evVoid' THEN <<>> ELSE evQueue) /\ evMid' = (IF evVoid' THEN {} ELSE evMid)
  BY DEF EvFind
<1>3. CASE free = {}
  <2>1. Goes(h, [at |-> "wake"]) /\ [at |-> "wake"].at = "wake"
    BY <1>3 DEF EvFind
  <2>2. evVoid' = evVoid /\ evQueue' = evQueue /\ evMid' = evMid
    <3>1. evVoid \in BOOLEAN /\ (evVoid => evQueue = <<>> /\ evMid = {})
      BY EmptySeq DEF EvIInv, Users, EvTypeOK, Counted, Puts
    <3> QED
      BY <1>2, <1>3, <3>1
  <2>3. evSuspended' \in BOOLEAN
    BY <1>1 DEF EvIInv, Users, EvTypeOK
  <2> QED
    BY <1>1, <1>2, <2>1, <2>2, <2>3, HandlerAside
<1>4. CASE free # {}
  <2>1. PICK s : s = CHOOSE i \in free : \A j \in free : i <= j
    OBVIOUS
  <2>2. s \in free /\ \A j \in free : s <= j
    <3>1. free \subseteq Nat
      BY EventRingAssumption DEF EvSlot
    <3> HIDE DEF free
    <3> QED
      BY <3>1, <1>4, <2>1, FirstOf
  <2>3. Goes(h, [at |-> "store", slot |-> s, event |-> e])
    BY <1>4, <2>1 DEF EvFind
  <2>4. /\ DOMAIN evHandler' = EvHandlers /\ evHandler'[h].at = "store"
        /\ evHandler'[h].slot = s /\ evHandler'[h].event = e
        /\ \A g \in EvHandlers : g # h => evHandler'[g] = evHandler[g]
    BY <2>3, HandlerGoes DEF EvIInv
  <2>5. IsValid(e)
    <3>1. NewMark \in EvMark /\ Invalid \notin EvMark
      BY MarkLeft, <1>2, EventRingAssumption DEF EvIInv, Invalid
    <3> QED
      BY <3>1 DEF IsValid, IsEvent, Type
  <2>6. s \in EvSlot /\ events[s].type = Invalid
        /\ \A i \in EvSlot : i < s => events[i].type # Invalid
    BY <2>2, EventRingAssumption DEF EvSlot
  <2>7. /\ Counted' /\ Len(evQueue)' \in Nat /\ Len(evQueue)' <= EvSlots
        /\ evVoid' \in BOOLEAN /\ (Shifting' <=> Shifting)
        /\ (~ evVoid' => ~ evVoid /\ evQueue' = evQueue /\ evMid' = evMid /\ Known' = Known)
    <3>1. Shifting' <=> Shifting
      BY <1>1 DEF Shifting
    <3>2. CASE evVoid'
      BY <1>2, <3>1, <3>2, PutNone, EventRingAssumption DEF Counted, Known, Puts
    <3>3. CASE ~ evVoid'
      <4>1. ~ evVoid /\ evQueue' = evQueue /\ evMid' = evMid /\ Known' = Known
        BY <1>2, <3>3 DEF Known
      <4> QED
        BY <3>1, <3>3, <4>1, Numbers, <1>2 DEF EvIInv, Counted, Puts
    <3> QED
      BY <3>1, <3>2, <3>3
  <2>8. Users'
    <3>1. \A g \in EvHandlers : /\ evHandler'[g].at \in {"idle", "find", "store", "data", "wake"}
                                /\ evHandler'[g].at \in {"store", "data"} =>
                                     IsValid(evHandler'[g].event) /\ evHandler'[g].slot \in EvSlot
      <4> HIDE DEF e
      <4> QED
        BY <2>4, <2>5, <2>6 DEF EvIInv, Users, EvTypeOK
    <3>2. EvTypeOK'
      <4>1. EvTypeOK /\ Len(evQueue)' <= EvSlots + 1
        BY <2>7, EventRingAssumption DEF EvIInv, Users
      <4> QED
        BY <1>1, <2>7, <3>1, <4>1 DEF EvTypeOK
    <3> QED
      BY <1>1, <2>4, <3>1, <3>2 DEF EvIInv, Users, EvSlot
  <2>9. CASE evVoid'
    BY <2>7, <2>8, <2>9 DEF EvIInv, Still, Moving, Empty, Single
  <2>10. CASE ~ evVoid'
    <3>1. /\ ~ evVoid /\ evQueue' = evQueue /\ evMid' = evMid /\ Known' = Known
          /\ Known \in Nat /\ evI \in EvSlot
          /\ \A g \in EvHandlers : evHandler[g].at # "store"
      BY <1>2, <1>4, <2>7, <2>10, Numbers DEF EvIInv, EvSlot, Some
    <3>2. \A i : Half(i)' <=> Half(i)
      BY <1>2, <2>4, <3>1 DEF Half
    <3>3. \A g \in EvHandlers : evHandler'[g].at = "data" => evHandler'[g] = evHandler[g]
      BY <2>4
    <3>4. \A g \in EvHandlers : evHandler'[g].at = "store" => g = h
      BY <2>4, <3>1
    <3>5. Still'
      <4>1. SUFFICES ASSUME ~ Shifting PROVE Still'
        BY <2>7 DEF Still
      <4>2. evMid = {} /\ Known = Len(evQueue) /\ Puts(evQueue, Known)
        BY <3>1, <4>1 DEF EvIInv, Counted, Known
      <4>3. \A i \in 1 .. Known : events[i].type = evQueue[i].type /\ events[i].type # Invalid
        BY <3>1, <4>1, <4>2 DEF EvIInv, Still, Placed, Puts, IsValid
      <4>4. \A i \in Known + 1 .. EvSlots : events[i].type = Invalid
        BY <3>1, <4>1 DEF EvIInv, Still
      <4>5. s = Known + 1
        BY <2>6, <3>1, <4>3, <4>4, EventRingAssumption DEF EvSlot
      <4>6. \A g \in EvHandlers : evHandler'[g].at = "store" => evHandler'[g].slot = Known + 1
        BY <2>4, <3>4, <4>5
      <4>7. \A g \in EvHandlers : evHandler'[g].at = "data" =>
              evHandler'[g].slot \in 1 .. Known /\ evHandler'[g].event = evQueue'[evHandler'[g].slot]
        BY <3>1, <3>3, <4>1 DEF EvIInv, Still
      <4>8. \A i \in 1 .. Known : Placed(i)'
        BY <1>1, <3>1, <3>2, <4>1 DEF EvIInv, Still, Placed
      <4>9. \A i \in Known + 1 .. EvSlots : events'[i].type = Invalid
        BY <1>1, <4>4
      <4> QED
        BY <3>1, <3>4, <4>6, <4>7, <4>8, <4>9 DEF Still
    <3>6. Moving'
      BY <1>1, <2>7, <3>1, <3>3 DEF EvIInv, Moving
    <3>7. Single'
      BY <1>1, <2>7, <3>1 DEF EvIInv, Single
    <3>8. Empty'
      <4>1. SUFFICES ASSUME Shifting, evMid = {}
                     PROVE  s \in {Known + 1, Known + 2} /\ (s = Known + 1 => evI > Known)
        BY <1>1, <2>4, <2>7, <3>1, <3>4 DEF Empty, EvIInv
      <4>2. Known = Len(evQueue) /\ Puts(evQueue, Known) /\ Known < EvSlots
        BY <4>1, <3>1 DEF EvIInv, Counted, Known
      <4>3. \A i \in 1 .. Known : events[i].type # Invalid
        BY <4>1, <3>1, <4>2, EventRingAssumption DEF EvIInv, Moving, Puts, IsValid, EvSlot
      <4>4. \A i \in Known + 2 .. EvSlots : events[i].type = Invalid
        BY <4>1, <3>1 DEF EvIInv, Empty
      <4>5. evI <= Known => events[Known + 1].type # Invalid
        BY <4>1, <4>2, <3>1 DEF EvIInv, Moving, Puts, IsValid, EvSlot
      <4>6. s > Known /\ s \in Int
        BY <2>6, <4>2, <3>1, <4>3, EventRingAssumption DEF EvSlot
      <4>7. ~ (Known + 2 < s)
        BY <2>6, <4>2, <3>1, <4>4, EventRingAssumption DEF EvSlot
      <4>8. s = Known + 1 => evI > Known
        BY <2>6, <3>1, <4>2, <4>5, EventRingAssumption DEF EvSlot
      <4> QED
        BY <3>1, <4>6, <4>7, <4>8
    <3> QED
      BY <2>7, <2>8, <3>5, <3>6, <3>7, <3>8 DEF EvIInv
  <2> QED
    BY <2>9, <2>10
<1> QED
  BY <1>3, <1>4

\* The type is stored: behind the others, or in a shift in one of two slots; a
\* second one in a shift makes the ring void.
LEMMA Stored ==
  ASSUME EvIInv, NEW h \in EvHandlers, EvStoreType(h) PROVE EvIInv'
<1> DEFINE e == evHandler[h].event
           s == evHandler[h].slot
<1>1. /\ IsValid(e) /\ IsEvent(e) /\ s \in EvSlot
      /\ DOMAIN events = EvSlot /\ \A i \in EvSlot : IsEvent(events[i])
  BY DEF EvStoreType, EvIInv, Users, IsValid
<1>2. /\ events' = [events EXCEPT ![s].type = e.type]
      /\ evVoid' = (evVoid \/ (Shifting /\ evMid # {}))
      /\ UNCHANGED <<evShell, evTaken, evI, evCopy, evSuspended>>
  BY DEF EvStoreType
<1>3. /\ DOMAIN evHandler' = EvHandlers /\ evHandler[h].at = "store" /\ evHandler'[h].at = "data"
      /\ evHandler'[h].slot = s /\ evHandler'[h].event = e
      /\ \A g \in EvHandlers : g # h => evHandler'[g] = evHandler[g]
  <2>1. Goes(h, [at |-> "data", slot |-> s, event |-> e]) /\ evHandler[h].at = "store"
    BY DEF EvStoreType
  <2> QED
    BY <2>1, HandlerGoes DEF EvIInv
<1>4. /\ DOMAIN events' = EvSlot
      /\ IsEvent(events'[s]) /\ events'[s].type = e.type /\ e.type # Invalid
      /\ \A i \in EvSlot : i # s => events'[i] = events[i]
  BY <1>1, <1>2 DEF IsEvent, IsValid
<1>5. /\ Len(evQueue) \in Nat /\ Known \in Nat /\ evI \in 1 .. EvSlots
      /\ EvSlots \in Nat /\ EvSlots > 1
      /\ Puts(evQueue, Len(evQueue)) /\ (Shifting' <=> Shifting)
  BY <1>2, Numbers DEF EvIInv, Counted, Shifting
<1>6. Counted' /\ Len(evQueue)' \in Nat /\ Len(evQueue)' <= EvSlots
  <2>1. CASE evVoid'
    <3>1. evQueue' = <<>> /\ evMid' = {}
      BY <2>1 DEF EvStoreType
    <3>2. Puts(evQueue', 0) /\ Len(evQueue') = 0
      BY <3>1, PutNone DEF Puts
    <3> QED
      BY <1>5, <3>1, <3>2 DEF Counted, Known
  <2>2. CASE ~ evVoid'
    <3>1. evQueue' = Append(evQueue, e) /\ evMid = {} /\ Known = Len(evQueue)
          /\ evMid' = IF Shifting THEN {e} ELSE {}
      BY <1>2, <2>2 DEF EvStoreType, EvIInv, Counted, Known
    <3>2. Puts(evQueue', Known + 1) /\ Len(evQueue') = Known + 1
      <4>1. Longer(evQueue', evQueue, e, Known)
        BY <1>1, <1>5, <3>1, PutLast
      <4> QED
        BY <1>5, <4>1 DEF Longer, Puts
    <3>3. IF Shifting THEN Known < EvSlots ELSE Known + 1 <= EvSlots
      <4>1. ~ Shifting => s = Known + 1
        BY <1>2, <1>3, <2>2 DEF EvIInv, Still
      <4> QED
        BY <1>1, <4>1 DEF EvIInv, Counted, EvSlot
    <3>4. Known' = IF Shifting THEN Known ELSE Known + 1
      <4>1. evMid' = {} <=> ~ Shifting
        BY <3>1
      <4> HIDE DEF e
      <4> QED
        BY <1>5, <3>2, <4>1 DEF Known
    <3>5. evMid' # {} => Shifting' /\ Len(evQueue') > 0
      BY <1>5, <3>1, <3>2
    <3> QED
      BY <1>5, <2>2, <3>2, <3>3, <3>4, <3>5 DEF Counted
  <2> QED
    BY <2>1, <2>2
<1>7. Users'
  <2>1. \A i \in EvSlot : IsEvent(events'[i]) /\ events'[i].type \in Type
    BY <1>1, <1>4 DEF IsEvent
  <2>2. evVoid' \in BOOLEAN
    BY <1>2
  <2>3. EvTypeOK'
    <3>1. Len(evQueue)' <= EvSlots + 1
      BY <1>5, <1>6
    <3>2. evSuspended' \in BOOLEAN /\ evI' \in 1 .. EvSlots
      BY <1>2 DEF EvIInv, Users, EvTypeOK
    <3> QED
      BY <1>2, <1>3, <2>1, <2>2, <3>1, <3>2 DEF EvIInv, Users, EvTypeOK, Type
  <2>4. /\ evShell' \in {"type", "data"} => IsEvent(evCopy')
        /\ evShell' \in {"read", "type", "data"} => evI' < EvSlots
        /\ evShell' = "last" => evI' = EvSlots
    BY <1>2 DEF EvIInv, Users
  <2>5. \A g \in EvHandlers : evHandler'[g].at \in {"store", "data"} =>
          IsValid(evHandler'[g].event) /\ evHandler'[g].slot \in EvSlot
    BY <1>1, <1>3 DEF EvIInv, Users
  <2> QED
    BY <1>3, <1>4, <2>1, <2>3, <2>4, <2>5 DEF Users
<1>8. CASE evVoid'
  BY <1>6, <1>7, <1>8 DEF EvIInv, Still, Moving, Empty, Single
<1>9. CASE ~ evVoid' /\ ~ Shifting
  <2>1. evQueue' = Append(evQueue, e) /\ evMid = {} /\ Known = Len(evQueue) /\ evMid' = {}
        /\ s = Known + 1 /\ ~ evVoid
    BY <1>2, <1>3, <1>9 DEF EvStoreType, EvIInv, Counted, Known, Still
  <2>2. /\ Len(evQueue') = Known + 1 /\ evQueue'[Known + 1] = e
        /\ \A i \in 1 .. Known : evQueue'[i] = evQueue[i]
    <3>1. Longer(evQueue', evQueue, e, Known)
      BY <1>1, <1>5, <2>1, PutLast
    <3> QED
      BY <1>5, <3>1 DEF Longer, Puts
  <2>3. Known' = Known + 1
    BY <2>1, <2>2 DEF Known
  <2>4. \A i \in 1 .. Known + 1 : Placed(i)'
    <3>1. ASSUME NEW i \in 1 .. Known
          PROVE  Placed(i)'
      <4>1. events'[i] = events[i] /\ evQueue'[i] = evQueue[i]
        BY <1>1, <1>4, <1>5, <1>9, <2>1, <2>2 DEF EvSlot
      <4>2. Placed(i)
        BY <1>9, <2>1 DEF EvIInv, Still
      <4>3. Half(i) => Half(i)'
        BY <1>3, <4>1 DEF Half
      <4> QED
        BY <4>1, <4>2, <4>3 DEF Placed
    <3>2. ASSUME NEW i, i = s PROVE Placed(i)'
      <4>1. evQueue'[i] = e
        BY <2>1, <2>2, <3>2
      <4>2. events'[i].type = e.type
        BY <1>4, <3>2
      <4>3. Half(i)'
        BY <1>3, <3>2, <4>1 DEF Half
      <4> QED
        BY <4>1, <4>2, <4>3 DEF Placed
    <3>3. \A i \in 1 .. Known + 1 : i \in 1 .. Known \/ i = s
      BY <1>5, <2>1
    <3> HIDE DEF e, s
    <3> QED
      BY <3>1, <3>2, <3>3
  <2>5. \A i \in Known + 2 .. EvSlots : events'[i].type = Invalid
    BY <1>1, <1>4, <1>5, <1>9, <2>1, <2>2 DEF EvIInv, Still, EvSlot
  <2>6. \A g \in EvHandlers : evHandler'[g].at # "store"
    BY <1>3, <1>9, <2>1 DEF EvIInv, Still
  <2>7. \A g \in EvHandlers : evHandler'[g].at = "data" =>
          /\ evHandler'[g].slot \in 1 .. Known + 1
          /\ evHandler'[g].event = evQueue'[evHandler'[g].slot]
    <3>1. ASSUME NEW g \in EvHandlers, evHandler'[g].at = "data", g # h
          PROVE  /\ evHandler'[g].slot \in 1 .. Known + 1
                 /\ evHandler'[g].event = evQueue'[evHandler'[g].slot]
      <4>1. evHandler'[g] = evHandler[g]
        BY <1>3, <3>1
      <4>2. evHandler[g].slot \in 1 .. Known /\ evHandler[g].event = evQueue[evHandler[g].slot]
        BY <1>9, <2>1, <3>1, <4>1 DEF EvIInv, Still
      <4> QED
        BY <1>5, <2>2, <4>1, <4>2
    <3>2. s \in 1 .. Known + 1 /\ e = evQueue'[s]
      BY <1>5, <2>1, <2>2
    <3> HIDE DEF e, s
    <3> QED
      BY <1>3, <3>1, <3>2
  <2>8. Still'
    <3>1. Known + 1 + 1 = Known + 2
      BY <1>5
    <3> HIDE DEF e, s
    <3> QED
      BY <2>3, <2>4, <2>5, <2>6, <2>7, <3>1 DEF Still
  <2> QED
    BY <1>5, <1>6, <1>7, <1>9, <2>8 DEF EvIInv, Moving, Empty, Single
<1>10. CASE ~ evVoid' /\ Shifting
  <2>1. evQueue' = Append(evQueue, e) /\ evMid = {} /\ Known = Len(evQueue) /\ evMid' = {e}
        /\ ~ evVoid
    BY <1>2, <1>10 DEF EvStoreType, Known
  <2>2. s \in {Known + 1, Known + 2} /\ (s = Known + 1 => evI > Known)
    BY <1>3, <1>10, <2>1 DEF EvIInv, Empty
  <2>3. Len(evQueue') = Known + 1 /\ \A i \in 1 .. Known : evQueue'[i] = evQueue[i]
    <3>1. Longer(evQueue', evQueue, e, Known)
      BY <1>1, <1>5, <2>1, PutLast
    <3> QED
      BY <1>5, <3>1 DEF Longer, Puts
  <2>4. Known' = Known /\ Known < EvSlots
    <3>1. evMid' # {}
      BY <2>1
    <3> HIDE DEF e, s
    <3> QED
      BY <1>5, <1>10, <2>3, <3>1 DEF Known, EvIInv, Counted
  <2>5. Still' /\ Empty'
    BY <1>5, <1>10, <2>1 DEF Still, Empty
  <2>6. Moving'
    <3>1. \A k \in 1 .. Known : k < evI => events'[k] = evQueue'[k]
      BY <1>4, <1>5, <1>10, <2>1, <2>2, <2>3, <2>4 DEF EvIInv, Moving, EvSlot
    <3>2. \A k \in 2 .. Known + 1 : k > evI => events'[k] = evQueue'[k - 1]
      BY <1>4, <1>5, <1>10, <2>1, <2>2, <2>3, <2>4 DEF EvIInv, Moving, EvSlot
    <3>3. evI <= Known => events'[evI] = events[evI] /\ evQueue'[evI] = evQueue[evI]
      BY <1>4, <1>5, <2>2, <2>3, <2>4 DEF EvSlot
    <3>4. \A g \in EvHandlers : evHandler'[g].at = "data" =>
            /\ evMid' # {} /\ evHandler'[g].slot \in {Known + 1, Known + 2}
            /\ evHandler'[g].slot = Known + 1 => evI > Known
      <4>1. \A g \in EvHandlers : evHandler'[g].at = "data" => g = h
        BY <1>3, <1>10, <2>1 DEF EvIInv, Moving
      <4> QED
        BY <1>3, <2>1, <2>2, <4>1
    <3> QED
      BY <1>2, <1>5, <1>10, <2>1, <2>4, <3>1, <3>2, <3>3, <3>4 DEF EvIInv, Moving
  <2>7. Single'
    <3>1. \A k \in Known + 3 .. EvSlots : events'[k].type = Invalid
      BY <1>4, <1>5, <1>10, <2>1, <2>2, <2>4 DEF EvIInv, Empty, EvSlot
    <3>2. evI > Known + 1 /\ evShell \in {"type", "data"} => evCopy.type = Invalid
      BY <1>5, <1>10, <2>1 DEF EvIInv, Empty
    <3>3. ASSUME evI > Known + 1, Known + 2 \in EvSlot
          PROVE  events'[Known + 1].type = Invalid \/ events'[Known + 2].type = Invalid
      <4>1. events[Known + 1].type = Invalid /\ events[Known + 2].type = Invalid
        BY <1>5, <1>10, <2>1, <3>3 DEF EvIInv, Empty, EvSlot
      <4>2. Known + 1 \in EvSlot /\ Known + 1 # Known + 2
        BY <1>5, <3>3 DEF EvSlot
      <4> QED
        BY <1>4, <2>2, <3>3, <4>1, <4>2
    <3>4. evI = Known + 2 => Known + 2 \in EvSlot
      BY <1>5 DEF EvSlot
    <3>5. evI = Known + 2 \/ evI > Known + 2 => evI > Known + 1
      BY <1>5
    <3> QED
      BY <1>2, <2>4, <3>1, <3>2, <3>3, <3>4, <3>5 DEF Single
  <2> QED
    BY <1>6, <1>7, <2>5, <2>6, <2>7 DEF EvIInv
<1> QED
  BY <1>8, <1>9, <1>10

\* Its data follow.
LEMMA StoredData ==
  ASSUME EvIInv, NEW h \in EvHandlers, EvStoreData(h) PROVE EvIInv'
<1> DEFINE e == evHandler[h].event
           s == evHandler[h].slot
<1>1. /\ evHandler[h].at = "data" /\ IsValid(e) /\ s \in EvSlot
      /\ DOMAIN events = EvSlot /\ \A i \in EvSlot : IsEvent(events[i])
  BY DEF EvStoreData, EvIInv, Users
<1>2. /\ events' = [events EXCEPT ![s].data = e.data]
      /\ UNCHANGED <<evShell, evTaken, evI, evCopy, evSuspended, evQueue, evMid, evVoid>>
  BY DEF EvStoreData
<1>3. /\ DOMAIN evHandler' = EvHandlers /\ evHandler'[h].at = "wake"
      /\ \A g \in EvHandlers : g # h => evHandler'[g] = evHandler[g]
  <2>1. Goes(h, [at |-> "wake"])
    BY DEF EvStoreData
  <2> QED
    BY <2>1, HandlerGoes DEF EvIInv
<1>4. /\ DOMAIN events' = EvSlot
      /\ \A i \in EvSlot : /\ IsEvent(events'[i]) /\ events'[i].type = events[i].type
                           /\ i # s => events'[i] = events[i]
      /\ events[s].type = e.type => events'[s] = e
  BY <1>1, <1>2 DEF IsEvent, IsValid
<1>5. /\ Known' = Known /\ (Shifting' <=> Shifting) /\ Known \in Nat /\ evI \in EvSlot
      /\ EvSlots \in Nat
  BY <1>2, Numbers DEF Known, Shifting, EvIInv, EvSlot
<1>6. Counted'
  BY <1>2, <1>5 DEF EvIInv, Counted, Puts
<1>7. Users'
  <2>1. \A g \in EvHandlers : /\ evHandler'[g].at \in {"idle", "find", "store", "data", "wake"}
                              /\ evHandler'[g].at \in {"store", "data"} =>
                                   IsValid(evHandler'[g].event) /\ evHandler'[g].slot \in EvSlot
    BY <1>3 DEF EvIInv, Users, EvTypeOK
  <2>2. EvTypeOK'
    <3>1. EvTypeOK
      BY DEF EvIInv, Users
    <3> HIDE DEF e, s
    <3> QED
      BY <1>2, <1>4, <2>1, <3>1 DEF EvTypeOK
  <2>3. /\ evShell \in {"type", "data"} => IsEvent(evCopy)
        /\ evShell \in {"read", "type", "data"} => evI < EvSlots
        /\ evShell = "last" => evI = EvSlots
    BY DEF EvIInv, Users
  <2> HIDE DEF e, s
  <2> QED
    BY <1>2, <1>3, <1>4, <2>1, <2>2, <2>3 DEF Users
<1>8. Still'
  <2>1. SUFFICES ASSUME ~ Shifting, ~ evVoid PROVE Still'
    BY <1>2, <1>5 DEF Still
  <2>2. s \in 1 .. Known /\ e = evQueue[s] /\ Known <= EvSlots
    <3>1. evMid = {}
      BY <2>1 DEF EvIInv, Counted
    <3> QED
      BY <1>1, <2>1, <3>1 DEF EvIInv, Still, Counted
  <2>3. ASSUME NEW i \in 1 .. Known
        PROVE  Placed(i)'
    <3>1. i \in EvSlot /\ Placed(i)
      BY <1>5, <2>1, <2>2 DEF EvIInv, Still, EvSlot
    <3>2. CASE i = s
      BY <1>2, <1>4, <2>2, <3>1, <3>2 DEF Placed
    <3>3. CASE i # s
      <4>1. Half(i) => Half(i)'
        BY <1>2, <1>3, <3>3 DEF Half
      <4> QED
        BY <1>2, <1>4, <3>1, <3>3, <4>1 DEF Placed
    <3> QED
      BY <3>2, <3>3
  <2>4. \A i \in Known + 1 .. EvSlots : events'[i].type = Invalid
    BY <1>4, <1>5, <2>1 DEF EvIInv, Still, EvSlot
  <2>5. \A g \in EvHandlers : evHandler'[g].at \in {"store", "data"} => evHandler'[g] = evHandler[g]
    BY <1>3
  <2>6. /\ \A g \in EvHandlers : evHandler'[g].at = "store" => evHandler'[g].slot = Known + 1
        /\ \A f, g \in EvHandlers : evHandler'[f].at = "store" /\ evHandler'[g].at = "store" => f = g
    BY <2>1, <2>5 DEF EvIInv, Still
  <2>7. \A g \in EvHandlers : evHandler'[g].at = "data" =>
          evHandler'[g].slot \in 1 .. Known /\ evHandler'[g].event = evQueue'[evHandler'[g].slot]
    BY <1>2, <2>1, <2>5 DEF EvIInv, Still
  <2> QED
    BY <1>5, <2>3, <2>4, <2>6, <2>7 DEF Still
<1>9. Moving'
  <2>1. SUFFICES ASSUME Shifting, ~ evVoid PROVE Moving'
    BY <1>2, <1>5 DEF Moving
  <2>2. /\ s \in {Known + 1, Known + 2} /\ (s = Known + 1 => evI > Known)
        /\ Known < EvSlots
    BY <1>1, <2>1 DEF EvIInv, Moving, Counted
  <2>3. \A k \in 1 .. Known : k < evI => events'[k] = evQueue'[k]
    BY <1>2, <1>4, <1>5, <2>1, <2>2 DEF EvIInv, Moving, EvSlot
  <2>4. \A k \in 2 .. Known + 1 : k > evI => events'[k] = evQueue'[k - 1]
    BY <1>2, <1>4, <1>5, <2>1, <2>2 DEF EvIInv, Moving, EvSlot
  <2>5. \A g \in EvHandlers : evHandler'[g].at = "data" => evHandler'[g] = evHandler[g]
    BY <1>3
  <2>6. \A g \in EvHandlers : evHandler'[g].at = "data" =>
          /\ evMid' # {} /\ evHandler'[g].slot \in {Known + 1, Known + 2}
          /\ evHandler'[g].slot = Known + 1 => evI > Known
    BY <1>2, <2>1, <2>5 DEF EvIInv, Moving
  <2>7. /\ evI <= Known => events'[evI].type # Invalid
        /\ evI <= Known /\ evShell \in {"type", "data"} => evCopy = evQueue[evI]
        /\ evI <= Known /\ evShell = "data" => events'[evI].type = evQueue[evI].type
    BY <1>4, <1>5, <2>1 DEF EvIInv, Moving
  <2> QED
    BY <1>2, <1>5, <2>3, <2>4, <2>6, <2>7 DEF Moving
<1>10. Empty'
  <2>1. SUFFICES ASSUME Shifting, ~ evVoid, evMid = {} PROVE Empty'
    BY <1>2, <1>5 DEF Empty
  <2> QED
    BY <1>1, <2>1 DEF EvIInv, Moving
<1>11. Single'
  <2>1. SUFFICES ASSUME Shifting, ~ evVoid, evMid # {} PROVE Single'
    BY <1>2, <1>5 DEF Single
  <2>2. Known < EvSlots
    BY <2>1 DEF EvIInv, Counted
  <2>3. \A k \in EvSlot : events'[k].type = events[k].type
    BY <1>4
  <2>4. \A k \in Known + 3 .. EvSlots : events'[k].type = Invalid
    BY <1>5, <2>1, <2>3 DEF EvIInv, Single, EvSlot
  <2>5. (evI = Known + 2 /\ evShell = "data") \/ (evI > Known + 2 /\ Known + 2 \in EvSlot) =>
          events'[Known + 1].type = Invalid \/ events'[Known + 2].type = Invalid
    <3>1. Known + 1 \in EvSlot /\ (evI = Known + 2 => Known + 2 \in EvSlot)
      BY <1>5, <2>2 DEF EvSlot
    <3> QED
      BY <2>1, <2>3, <3>1 DEF EvIInv, Single
  <2> QED
    BY <1>2, <1>5, <2>1, <2>4, <2>5 DEF EvIInv, Single
<1> QED
  BY <1>6, <1>7, <1>8, <1>9, <1>10, <1>11 DEF EvIInv

\* The first event is taken, and the shift begins.
LEMMA Taken ==
  ASSUME EvIInv, EvTake PROVE EvIInv'
<1>1. /\ ~ Shifting /\ Shifting' /\ evShell' = "read" /\ evI' = 1
      /\ evVoid' = (evVoid \/ Some({"store", "data"})) /\ evTaken' \in BOOLEAN
      /\ UNCHANGED <<events, evCopy, evSuspended, evMid, evHandler>>
  BY DEF EvTake, ShellGoes, Steady, Shifting
<1>0. ~ evVoid' => ~ evVoid /\ \A h \in EvHandlers : evHandler'[h].at \notin {"store", "data"}
  BY <1>1 DEF Some
<1>2. /\ Len(evQueue) \in Nat /\ EvSlots \in Nat /\ EvSlots > 1
      /\ evMid = {} /\ Known = Len(evQueue) /\ Known <= EvSlots
      /\ Puts(evQueue, Known) /\ evMid' = {} /\ Known' = Len(evQueue')
  BY <1>1, Numbers DEF EvIInv, Counted, Known
<1>3. ASSUME Puts(evQueue', Known'), Known' \in Nat, Known' < EvSlots, evVoid' => Known' = 0
      PROVE  Users' /\ Counted'
  <2>1. Counted'
    BY <1>1, <1>2, <1>3 DEF Counted
  <2>2. Len(evQueue)' <= EvSlots + 1 /\ evI' \in 1 .. EvSlots /\ evVoid' \in BOOLEAN
    BY <1>1, <1>2, <1>3
  <2>3. EvTypeOK'
    BY <1>1, <2>2 DEF EvIInv, Users, EvTypeOK
  <2> QED
    BY <1>1, <1>2, <2>1, <2>3 DEF EvIInv, Users
<1>4. CASE evVoid' \/ evQueue = <<>>
  <2>1. evQueue' = <<>> /\ Puts(<<>>, 0) /\ Len(<<>>) = 0
    BY <1>4, PutNone DEF EvTake, Puts
  <2>2. Known' = 0 /\ Users' /\ Counted'
    BY <1>2, <1>3, <2>1
  <2>3. ~ evVoid' => \A i \in 1 .. EvSlots : events'[i].type = Invalid
    <3>1. ~ evVoid' => ~ evVoid /\ Known = 0
      BY <1>1, <1>2, <1>4, <2>1
    <3>2. ~ evVoid => \A i \in Known + 1 .. EvSlots : events[i].type = Invalid
      BY <1>1 DEF EvIInv, Still
    <3> QED
      BY <1>1, <3>1, <3>2
  <2>4. Still' /\ Moving' /\ Single'
    BY <1>0, <1>1, <1>2, <2>2 DEF Still, Moving, Single
  <2>5. Empty'
    <3>1. ~ evVoid' => \A h \in EvHandlers : evHandler'[h].at # "store"
      BY <1>0
    <3>2. ~ evVoid' => \A i \in 2 .. EvSlots : events'[i].type = Invalid
      BY <1>2, <2>3
    <3>3. ~ (evI' > Known' + 1) /\ Known' + 2 = 2 /\ evShell' \notin {"type", "data"}
      BY <1>1, <2>2
    <3> QED
      BY <3>1, <3>2, <3>3 DEF Empty
  <2> QED
    BY <2>2, <2>4, <2>5 DEF EvIInv
<1>5. CASE ~ evVoid' /\ evQueue # <<>>
  <2>1. evQueue' = Tail(evQueue) /\ ~ evVoid
    BY <1>1, <1>5 DEF EvTake
  <2>2. /\ Known \in Nat \ {0} /\ Puts(evQueue', Known - 1) /\ Known' = Known - 1
        /\ \A i \in 1 .. Known - 1 : evQueue'[i] = evQueue[i + 1]
    BY <1>2, <1>5, <2>1, TakeFirst DEF Puts
  <2>3. Users' /\ Counted'
    BY <1>2, <1>3, <1>5, <2>2
  <2>4. /\ \A i \in 1 .. Known : events'[i] = evQueue[i] /\ events'[i].type # Invalid
        /\ \A i \in Known + 1 .. EvSlots : events'[i].type = Invalid
    <3>1. \A i : ~ Half(i)
      BY <1>0, <1>1, <1>5 DEF Half
    <3> QED
      BY <1>1, <1>2, <2>1, <3>1 DEF EvIInv, Still, Placed, Puts, IsValid
  <2>5. Moving'
    <3>1. \A k \in 2 .. Known : events'[k] = evQueue'[k - 1]
      BY <2>2, <2>4
    <3> QED
      BY <1>0, <1>1, <1>5, <2>2, <2>4, <3>1 DEF Moving
  <2>6. Empty'
    BY <1>0, <1>1, <1>2, <1>5, <2>1, <2>2, <2>4 DEF Empty
  <2> QED
    BY <1>1, <1>2, <2>3, <2>5, <2>6 DEF EvIInv, Still, Single
<1> QED
  BY <1>4, <1>5

\* The steps of the shift leave the queue and the handler alone.
LEMMA ShiftSteps ==
  ASSUME EvIInv, Shifting, Shifting', evShell' \in {"read", "type", "data", "last"},
         UNCHANGED <<evTaken, evSuspended, evQueue, evMid, evVoid, evHandler>>,
         evI' \in 1 .. EvSlots, evShell' \in {"read", "type", "data"} => evI' < EvSlots,
         evShell' = "last" => evI' = EvSlots,
         evShell' \in {"type", "data"} => IsEvent(evCopy'),
         DOMAIN events' = EvSlot, \A i \in EvSlot : IsEvent(events'[i])
  PROVE  Users' /\ Counted' /\ Known' = Known
<1>1. Known' = Known
  BY DEF Known
<1>2. Counted'
  BY <1>1 DEF EvIInv, Counted, Puts
<1>3. EvTypeOK'
  BY DEF EvIInv, Users, EvTypeOK, EvSlot, IsEvent, Type
<1> QED
  BY <1>1, <1>2, <1>3 DEF EvIInv, Users

\* The slot behind is read,
LEMMA SlotRead ==
  ASSUME EvIInv, EvRead PROVE EvIInv'
<1>1. /\ Shifting /\ Shifting' /\ evShell = "read" /\ evShell' = "type"
      /\ evCopy' = IF events[evI + 1].type = Invalid THEN NoEvent ELSE events[evI + 1]
      /\ UNCHANGED <<events, evI, evTaken, evSuspended, evQueue, evMid, evVoid, evHandler>>
  BY DEF EvRead, ShellGoes, Steady, Shifting
<1>2. /\ Known \in Nat /\ evI \in Nat /\ evI \in 1 .. EvSlots /\ EvSlots \in Nat
      /\ evI < EvSlots /\ DOMAIN events = EvSlot /\ \A i \in EvSlot : IsEvent(events[i])
      /\ Known < EvSlots
  BY <1>1, Numbers DEF EvIInv, Users, Counted
<1>3. IsEvent(evCopy')
  BY <1>1, <1>2 DEF EvSlot, IsEvent, NoEvent, Type, Invalid
<1>4. Users' /\ Counted' /\ Known' = Known
  BY <1>1, <1>2, <1>3, ShiftSteps
<1>5. evCopy'.type = events[evI + 1].type
  BY <1>1 DEF NoEvent
<1>6. Moving'
  <2>1. ASSUME evI <= Known, ~ evVoid PROVE evCopy' = evQueue[evI]
    <3>1. events[evI + 1] = evQueue[evI] /\ evQueue[evI].type # Invalid
      <4>1. evI \in 1 .. Known /\ evI + 1 \in 2 .. Known + 1 /\ evI + 1 > evI /\ evI + 1 - 1 = evI
        BY <1>2, <2>1
      <4>2. \A i \in 1 .. Known : IsValid(evQueue[i])
        BY Numbers DEF EvIInv, Counted, Puts
      <4> QED
        BY <1>1, <2>1, <4>1, <4>2 DEF EvIInv, Moving, IsValid
    <3> QED
      BY <1>1, <3>1
  <2> QED
    BY <1>1, <1>4, <2>1 DEF EvIInv, Moving
<1>7. Empty'
  <2>1. evI > Known /\ ~ evVoid /\ evMid = {} => events[evI + 1].type = Invalid
    BY <1>1, <1>2 DEF EvIInv, Empty
  <2> QED
    BY <1>1, <1>4, <1>5, <2>1 DEF EvIInv, Empty
<1>8. Single'
  <2>1. evI > Known + 1 /\ ~ evVoid /\ evMid # {} => events[evI + 1].type = Invalid
    BY <1>1, <1>2 DEF EvIInv, Single
  <2> QED
    BY <1>1, <1>4, <1>5, <2>1 DEF EvIInv, Single
<1> QED
  BY <1>1, <1>4, <1>6, <1>7, <1>8 DEF EvIInv, Still

\* its type is written,
LEMMA TypeWritten ==
  ASSUME EvIInv, EvType PROVE EvIInv'
<1>1. /\ Shifting /\ Shifting' /\ evShell = "type" /\ evShell' = "data"
      /\ events' = [events EXCEPT ![evI].type = evCopy.type]
      /\ UNCHANGED <<evI, evCopy, evTaken, evSuspended, evQueue, evMid, evVoid, evHandler>>
  BY DEF EvType, ShellGoes, Steady, Shifting
<1>2. /\ Known \in Nat /\ evI \in Nat /\ evI \in 1 .. EvSlots /\ EvSlots \in Nat
      /\ evI < EvSlots /\ DOMAIN events = EvSlot /\ \A i \in EvSlot : IsEvent(events[i])
      /\ IsEvent(evCopy)
  BY <1>1, Numbers DEF EvIInv, Users
<1>3. /\ DOMAIN events' = EvSlot /\ \A i \in EvSlot : i # evI => events'[i] = events[i]
      /\ events'[evI] = [events[evI] EXCEPT !.type = evCopy.type]
  BY <1>1, <1>2 DEF EvSlot
<1>4. IsEvent(events'[evI]) /\ events'[evI].type = evCopy.type
  <2>1. IsEvent([events[evI] EXCEPT !.type = evCopy.type])
        /\ [events[evI] EXCEPT !.type = evCopy.type].type = evCopy.type
    <3>1. IsEvent(events[evI]) /\ IsEvent(evCopy)
      BY <1>2 DEF EvSlot
    <3> QED
      BY <3>1 DEF IsEvent
  <2>2. evI \in EvSlot
    BY <1>2 DEF EvSlot
  <2> QED
    BY <1>3, <2>1, <2>2
<1>5. Users' /\ Counted' /\ Known' = Known
  <2>1. \A i \in EvSlot : IsEvent(events'[i])
    BY <1>2, <1>3, <1>4
  <2> QED
    BY <1>1, <1>2, <1>3, <2>1, ShiftSteps
<1>6. Known < EvSlots /\ \A i \in 1 .. Known : IsValid(evQueue[i])
  BY <1>1, Numbers DEF EvIInv, Counted, Puts
<1>7. Moving'
  <2>1. ASSUME ~ evVoid, NEW k \in 1 .. Known, k < evI PROVE events'[k] = evQueue[k]
    BY <1>1, <1>2, <1>3, <1>6, <2>1 DEF EvIInv, Moving, EvSlot
  <2>2. ASSUME ~ evVoid, NEW k \in 2 .. Known + 1, k > evI PROVE events'[k] = evQueue[k - 1]
    BY <1>1, <1>2, <1>3, <1>6, <2>2 DEF EvIInv, Moving, EvSlot
  <2>3. ASSUME ~ evVoid, evI <= Known
        PROVE  evCopy = evQueue[evI] /\ events'[evI].type = evQueue[evI].type
               /\ events'[evI].type # Invalid
    BY <1>1, <1>2, <1>4, <1>6, <2>3 DEF EvIInv, Moving, IsValid
  <2>4. ~ evVoid => \A h \in EvHandlers : evHandler'[h].at = "data" =>
          /\ evMid' # {} /\ evHandler'[h].slot \in {Known + 1, Known + 2}
          /\ evHandler'[h].slot = Known + 1 => evI' > Known
    BY <1>1, <1>2 DEF EvIInv, Moving
  <2> QED
    BY <1>1, <1>5, <2>1, <2>2, <2>3, <2>4 DEF Moving
<1>8. Empty'
  <2>1. SUFFICES ASSUME ~ evVoid, evMid = {} PROVE Empty'
    BY <1>1 DEF Empty
  <2>2. /\ \A k \in Known + 2 .. EvSlots : events[k].type = Invalid
        /\ evI > Known + 1 => events[Known + 1].type = Invalid
        /\ evI > Known => evCopy.type = Invalid
        /\ \A h \in EvHandlers : evHandler[h].at = "store" =>
             evHandler[h].slot \in {Known + 1, Known + 2} /\ (evHandler[h].slot = Known + 1 => evI > Known)
    BY <1>1, <2>1 DEF EvIInv, Empty
  <2>3. ASSUME NEW k \in Known + 2 .. EvSlots PROVE events'[k].type = Invalid
    <3>1. k \in EvSlot /\ events[k].type = Invalid
      BY <1>2, <2>2 DEF EvSlot
    <3>2. k = evI => evCopy.type = Invalid
      BY <1>2, <2>2
    <3> QED
      BY <1>3, <1>4, <3>1, <3>2
  <2>4. evI > Known + 1 => events'[Known + 1].type = Invalid
    BY <1>2, <1>3, <1>6, <2>2 DEF EvSlot
  <2>5. evI = Known + 1 => events'[Known + 1].type = Invalid
    BY <1>2, <1>4, <2>2
  <2> QED
    BY <1>1, <1>5, <2>2, <2>3, <2>4, <2>5 DEF Empty
<1>9. Single'
  <2>1. SUFFICES ASSUME ~ evVoid, evMid # {} PROVE Single'
    BY <1>1 DEF Single
  <2>2. /\ \A k \in Known + 3 .. EvSlots : events[k].type = Invalid
        /\ evI > Known + 1 => evCopy.type = Invalid
        /\ evI > Known + 2 /\ Known + 2 \in EvSlot =>
             events[Known + 1].type = Invalid \/ events[Known + 2].type = Invalid
    BY <1>1, <2>1 DEF EvIInv, Single
  <2>3. ASSUME NEW k \in Known + 3 .. EvSlots PROVE events'[k].type = Invalid
    <3>1. k \in EvSlot /\ events[k].type = Invalid
      BY <1>2, <2>2 DEF EvSlot
    <3>2. k = evI => evCopy.type = Invalid
      BY <1>2, <2>2
    <3> QED
      BY <1>3, <1>4, <3>1, <3>2
  <2>4. evI = Known + 2 => events'[Known + 2].type = Invalid
    BY <1>2, <1>4, <2>2
  <2>5. evI > Known + 2 /\ Known + 2 \in EvSlot =>
           events'[Known + 1].type = Invalid \/ events'[Known + 2].type = Invalid
    BY <1>2, <1>3, <1>6, <2>2 DEF EvSlot
  <2> QED
    BY <1>1, <1>2, <1>5, <2>2, <2>3, <2>4, <2>5 DEF Single
<1> QED
  BY <1>1, <1>5, <1>7, <1>8, <1>9 DEF EvIInv, Still

\* and its data; then the next slot.
LEMMA DataWritten ==
  ASSUME EvIInv, EvData PROVE EvIInv'
<1>1. /\ Shifting /\ Shifting' /\ evShell = "data"
      /\ evShell' = IF evI + 1 = EvSlots THEN "last" ELSE "read"
      /\ events' = [events EXCEPT ![evI].data = evCopy.data] /\ evI' = evI + 1
      /\ UNCHANGED <<evCopy, evTaken, evSuspended, evQueue, evMid, evVoid, evHandler>>
  BY DEF EvData, ShellGoes, Steady, Shifting
<1>2. /\ Known \in Nat /\ evI \in Nat /\ evI \in EvSlot /\ EvSlots \in Nat
      /\ evI < EvSlots /\ DOMAIN events = EvSlot /\ \A i \in EvSlot : IsEvent(events[i])
      /\ IsEvent(evCopy)
  BY <1>1, Numbers DEF EvIInv, Users, EvSlot
<1>3. /\ DOMAIN events' = EvSlot /\ \A i \in EvSlot : i # evI => events'[i] = events[i]
      /\ events'[evI] = [events[evI] EXCEPT !.data = evCopy.data]
  BY <1>1, <1>2
<1>4. /\ IsEvent(events'[evI]) /\ events'[evI].type = events[evI].type
      /\ events[evI].type = evCopy.type => events'[evI] = evCopy
  <2>1. IsEvent(events[evI])
    BY <1>2
  <2> QED
    BY <1>2, <1>3, <2>1 DEF IsEvent
<1>5. \A i \in EvSlot : IsEvent(events'[i]) /\ events'[i].type = events[i].type
  BY <1>2, <1>3, <1>4
<1>6. Users' /\ Counted' /\ Known' = Known
  <2>1. evI' \in 1 .. EvSlots /\ (evShell' = "read" => evI' < EvSlots)
    BY <1>1, <1>2 DEF EvSlot
  <2> QED
    BY <1>1, <1>3, <1>5, <2>1, ShiftSteps
<1>7. Known < EvSlots /\ \A i \in 1 .. Known : IsValid(evQueue[i])
  BY <1>1, Numbers DEF EvIInv, Counted, Puts
<1>8. Moving'
  <2>1. ASSUME ~ evVoid, NEW k \in 1 .. Known, k < evI + 1 PROVE events'[k] = evQueue[k]
    <3>1. CASE k = evI
      BY <1>1, <1>2, <1>4, <2>1, <3>1 DEF EvIInv, Moving
    <3>2. CASE k < evI
      BY <1>1, <1>2, <1>3, <1>7, <2>1, <3>2 DEF EvIInv, Moving, EvSlot
    <3> QED
      BY <1>2, <2>1, <3>1, <3>2
  <2>2. ASSUME ~ evVoid, NEW k \in 2 .. Known + 1, k > evI PROVE events'[k] = evQueue[k - 1]
    BY <1>1, <1>2, <1>3, <1>7, <2>2 DEF EvIInv, Moving, EvSlot
  <2>3. ASSUME ~ evVoid, evI + 1 <= Known PROVE events'[evI + 1].type # Invalid
    <3>1. evI + 1 \in 2 .. Known + 1 /\ evI + 1 > evI /\ evI + 1 - 1 = evI /\ evI \in 1 .. Known
      BY <1>2, <2>3 DEF EvSlot
    <3>2. events'[evI + 1] = evQueue[evI]
      BY <2>2, <2>3, <3>1
    <3> QED
      BY <1>7, <3>1, <3>2 DEF IsValid
  <2>4. \A k \in 2 .. Known + 1 : k > evI + 1 => k > evI
    BY <1>2
  <2>5. ~ evVoid => \A h \in EvHandlers : evHandler'[h].at = "data" =>
          /\ evMid' # {} /\ evHandler'[h].slot \in {Known + 1, Known + 2}
          /\ evHandler'[h].slot = Known + 1 => evI' > Known
    BY <1>1, <1>2 DEF EvIInv, Moving
  <2> QED
    BY <1>1, <1>6, <2>1, <2>2, <2>3, <2>4, <2>5 DEF Moving
<1>9. Empty'
  <2>1. SUFFICES ASSUME ~ evVoid, evMid = {} PROVE Empty'
    BY <1>1 DEF Empty
  <2>2. /\ \A k \in Known + 2 .. EvSlots : events[k].type = Invalid
        /\ evI > Known + 1 \/ evI = Known + 1 => events[Known + 1].type = Invalid
        /\ \A h \in EvHandlers : evHandler[h].at = "store" =>
             evHandler[h].slot \in {Known + 1, Known + 2} /\ (evHandler[h].slot = Known + 1 => evI > Known)
    BY <1>1, <2>1 DEF EvIInv, Empty
  <2>3. \A k \in Known + 2 .. EvSlots : events'[k].type = Invalid
    BY <1>2, <1>5, <2>2 DEF EvSlot
  <2>4. evI + 1 > Known + 1 => events'[Known + 1].type = Invalid
    BY <1>2, <1>5, <1>7, <2>2 DEF EvSlot
  <2>5. evI > Known => evI + 1 > Known
    BY <1>2
  <2> QED
    BY <1>1, <1>6, <2>2, <2>3, <2>4, <2>5 DEF Empty
<1>10. Single'
  <2>1. SUFFICES ASSUME ~ evVoid, evMid # {} PROVE Single'
    BY <1>1 DEF Single
  <2>2. /\ \A k \in Known + 3 .. EvSlots : events[k].type = Invalid
        /\ evI = Known + 2 \/ (evI > Known + 2 /\ Known + 2 \in EvSlot) =>
             events[Known + 1].type = Invalid \/ events[Known + 2].type = Invalid
    BY <1>1, <2>1 DEF EvIInv, Single
  <2>3. \A k \in Known + 3 .. EvSlots : events'[k].type = Invalid
    BY <1>2, <1>5, <2>2 DEF EvSlot
  <2>4. ASSUME evI + 1 > Known + 2, Known + 2 \in EvSlot
        PROVE  events'[Known + 1].type = Invalid \/ events'[Known + 2].type = Invalid
    <3>1. evI = Known + 2 \/ evI > Known + 2
      BY <1>2, <2>4
    <3>2. Known + 1 \in EvSlot
      BY <1>2, <1>7 DEF EvSlot
    <3> QED
      BY <1>5, <2>2, <2>4, <3>1, <3>2
  <2> QED
    BY <1>1, <1>6, <2>3, <2>4 DEF Single
<1> QED
  BY <1>1, <1>6, <1>8, <1>9, <1>10 DEF EvIInv, Still

\* The last slot is cleared, and the ring is what the queue says again, unless
\* an event came in between and left a gap.
LEMMA ShiftEnded ==
  ASSUME EvIInv, EvLast PROVE EvIInv'
<1> DEFINE n == Known + 1
<1>1. /\ Shifting /\ ~ Shifting' /\ evShell = "last" /\ evShell' = "test"
      /\ events' = [events EXCEPT ![EvSlots] = NoEvent] /\ evI' = 1 /\ evMid' = {}
      /\ UNCHANGED <<evTaken, evSuspended, evHandler>>
  BY DEF EvLast, ShellGoes, Steady, Shifting
<1>2. /\ Known \in Nat /\ Known < EvSlots /\ EvSlots \in Nat /\ EvSlots > 1
      /\ evI = EvSlots /\ DOMAIN events = EvSlot /\ \A i \in EvSlot : IsEvent(events[i])
      /\ Len(evQueue) = (IF evMid = {} THEN Known ELSE Known + 1)
      /\ Puts(evQueue, Len(evQueue))
  BY <1>1, Numbers DEF EvIInv, Users, Counted
<1>3. /\ DOMAIN events' = EvSlot
      /\ \A i \in EvSlot : i # EvSlots => events'[i] = events[i]
      /\ events'[EvSlots] = NoEvent /\ events'[EvSlots].type = Invalid
  BY <1>1, <1>2 DEF EvSlot, NoEvent
<1>4. \A i \in EvSlot : IsEvent(events'[i])
  BY <1>2, <1>3 DEF NoEvent, IsEvent, Type
<1>5. Puts(EvKept, Known) /\ \A i \in 1 .. Known : EvKept[i] = evQueue[i]
  <2>1. CASE evMid = {}
    BY <1>2, <2>1 DEF EvKept
  <2>2. CASE evMid # {}
    <3>1. Len(evQueue) - 1 = Known /\ Len(evQueue) > 0
      BY <1>2, <2>2
    <3> QED
      BY <1>2, <2>2, <3>1, DropLast DEF EvKept
  <2> QED
    BY <2>1, <2>2
<1>6. Len(EvKept) = Known /\ Len(EvKept) + 1 = n
  BY <1>5 DEF Puts
<1>7. /\ evVoid' = (\/ Some({"store", "data"})
                    \/ IF evVoid THEN ~ Clean(events')
                       ELSE evMid # {} /\ n < EvSlots /\ events[n].type = Invalid
                            /\ \E i \in n + 1 .. EvSlots - 1 : events[i].type # Invalid)
      /\ evQueue' = IF evVoid' THEN <<>>
                    ELSE IF evMid # {} /\ n < EvSlots /\ events[n].type # Invalid
                         THEN Append(EvKept, events[n]) ELSE EvKept
  BY <1>6 DEF EvLast
<1>8. ASSUME NEW m \in Nat, m <= EvSlots, Puts(evQueue', m), evVoid' => m = 0,
             evVoid' \/ (/\ \A i \in 1 .. m : events'[i] = evQueue'[i]
                         /\ \A i \in m + 1 .. EvSlots : events'[i].type = Invalid)
      PROVE  EvIInv'
  <2>1. Len(evQueue') = m /\ Known' = m
    BY <1>1, <1>8 DEF Puts, Known
  <2>2. Counted'
    BY <1>1, <1>8, <2>1 DEF Counted
  <2>3. EvTypeOK'
    <3>1. Len(evQueue)' <= EvSlots + 1 /\ evI' \in 1 .. EvSlots
      BY <1>1, <1>2, <1>8, <2>1
    <3>2. evVoid' \in BOOLEAN
      BY <1>7
    <3>3. /\ evSuspended' \in BOOLEAN /\ evTaken' \in BOOLEAN
          /\ \A h \in EvHandlers : evHandler'[h].at \in {"idle", "find", "store", "data", "wake"}
      BY <1>1 DEF EvIInv, Users, EvTypeOK
    <3>4. \A i \in EvSlot : events'[i].type \in EvMark \cup {Invalid}
      BY <1>4 DEF IsEvent, Type
    <3> QED
      BY <1>1, <3>1, <3>2, <3>3, <3>4 DEF EvTypeOK
  <2>4. Users'
    <3>1. evShell' \notin {"read", "type", "data", "last"}
      BY <1>1
    <3>2. /\ DOMAIN evHandler' = EvHandlers
          /\ \A h \in EvHandlers : evHandler'[h].at \in {"store", "data"} =>
               IsValid(evHandler'[h].event) /\ evHandler'[h].slot \in EvSlot
      BY <1>1 DEF EvIInv, Users
    <3> QED
      BY <1>3, <1>4, <2>3, <3>1, <3>2 DEF Users
  <2>5. ~ evVoid' => \A h \in EvHandlers : evHandler'[h].at \notin {"store", "data"}
    BY <1>1, <1>7 DEF Some
  <2>6. Still'
    <3>1. ~ evVoid' => \A i \in 1 .. m : Placed(i)'
      BY <1>8 DEF Placed
    <3> QED
      BY <1>8, <2>1, <2>5, <3>1 DEF Still
  <2> QED
    BY <1>1, <2>2, <2>4, <2>6 DEF EvIInv, Moving, Empty, Single
<1>9. CASE evVoid'
  <2>1. evQueue' = <<>>
    BY <1>7, <1>9
  <2> QED
    BY <1>2, <1>8, <1>9, <2>1, PutNone
<1>10. CASE ~ evVoid' /\ evVoid
  <2>1. Clean(events') /\ evMid = {} /\ Known = 0 /\ evQueue' = EvKept
    BY <1>2, <1>7, <1>10 DEF EvIInv, Counted
  <2> QED
    BY <1>2, <1>5, <1>8, <2>1 DEF Clean, EvSlot
<1>11. CASE ~ evVoid' /\ ~ evVoid
  <2>1. \A i \in 1 .. Known : events'[i] = EvKept[i]
    BY <1>1, <1>2, <1>3, <1>5, <1>11 DEF EvIInv, Moving, EvSlot
  <2>2. CASE evMid = {}
    <3>1. evQueue' = EvKept
      BY <1>7, <1>11, <2>2
    <3>2. /\ \A k \in Known + 2 .. EvSlots : events[k].type = Invalid
          /\ EvSlots > Known + 1 => events[Known + 1].type = Invalid
      BY <1>1, <1>2, <1>11, <2>2 DEF EvIInv, Empty
    <3>3. \A i \in Known + 1 .. EvSlots : events'[i].type = Invalid
      BY <1>2, <1>3, <3>2 DEF EvSlot
    <3> QED
      <4>1. Puts(evQueue', Known) /\ \A i \in 1 .. Known : events'[i] = evQueue'[i]
        BY <1>5, <2>1, <3>1
      <4>2. Known \in Nat /\ Known <= EvSlots
        BY <1>2
      <4> QED
        BY <1>8, <1>11, <3>3, <4>1, <4>2
  <2>3. CASE evMid # {}
    <3>1. /\ \A k \in Known + 3 .. EvSlots : events[k].type = Invalid
          /\ EvSlots > Known + 2 /\ Known + 2 \in EvSlot =>
               events[Known + 1].type = Invalid \/ events[Known + 2].type = Invalid
      BY <1>1, <1>2, <1>11, <2>3 DEF EvIInv, Single
    <3>2. CASE n < EvSlots /\ events[n].type # Invalid
      <4>1. evQueue' = Append(EvKept, events[n])
        BY <1>7, <1>11, <2>3, <3>2
      <4>2. n \in EvSlot /\ n \in Nat /\ n # EvSlots
        BY <1>2, <3>2 DEF EvSlot
      <4>3. IsValid(events[n]) /\ events'[n] = events[n]
        BY <1>2, <1>3, <3>2, <4>2 DEF IsValid
      <4>4. /\ Puts(evQueue', n) /\ \A i \in 1 .. Known : evQueue'[i] = EvKept[i]
            /\ evQueue'[n] = events[n]
        <5>1. IsValid(events[n]) /\ Puts(EvKept, Known)
          BY <1>5, <4>3
        <5> HIDE DEF n
        <5>2. Longer(evQueue', EvKept, events[n], Known)
          BY <4>1, <5>1, PutLast
        <5> QED
          BY <5>2 DEF n, Longer
      <4>5. \A i \in 1 .. n : events'[i] = evQueue'[i]
        BY <1>2, <2>1, <4>3, <4>4
      <4>6. \A i \in n + 1 .. EvSlots : events'[i].type = Invalid
        BY <1>2, <1>3, <3>1, <3>2 DEF EvSlot
      <4> QED
        <5>1. n \in Nat /\ n <= EvSlots
          BY <1>2, <3>2
        <5>2. Puts(evQueue', n) /\ ~ evVoid'
          BY <1>11, <4>4
        <5> HIDE DEF n
        <5> QED
          BY <1>8, <4>5, <4>6, <5>1, <5>2
    <3>3. CASE ~ (n < EvSlots /\ events[n].type # Invalid)
      <4>1. evQueue' = EvKept
        BY <1>7, <1>11, <3>3
      <4>2. n < EvSlots => events[n].type = Invalid
                           /\ \A i \in n + 1 .. EvSlots - 1 : events[i].type = Invalid
        BY <1>7, <1>11, <2>3, <3>3
      <4>3. \A i \in n .. EvSlots : events'[i].type = Invalid
        BY <1>2, <1>3, <4>2 DEF EvSlot
      <4> QED
        BY <1>2, <1>5, <1>8, <1>11, <2>1, <4>1, <4>3
    <3> QED
      BY <3>2, <3>3
  <2> QED
    BY <2>2, <2>3
<1> QED
  BY <1>9, <1>10, <1>11
-----------------------------------------------------------------------------
(***************************************************************************)
(* The theorems.                                                           *)
(***************************************************************************)
LEMMA NothingMoves == EvIInv /\ UNCHANGED evVars => EvIInv'
<1>1. ASSUME EvIInv, UNCHANGED evVars PROVE EvIInv'
  <2>1. EvTypeOK' /\ Users'
    BY <1>1 DEF evVars, EvIInv, Users, EvTypeOK, EvSlot
  <2>2. NoneStores
    BY <1>1 DEF evVars, NoneStores
  <2> QED
    BY <1>1, <2>1, <2>2, Unmoved DEF evVars, EvIInv
<1> QED
  BY <1>1

(* The inductive invariant: at every moment, in a shift too, each slot     *)
(* holds what the events put and the place of the shift say it shall.      *)
THEOREM EventsInvariance == EvSpec => []EvIInv
<1>1. EvIInv /\ [EvNext]_evVars => EvIInv'
  <2>1. ASSUME EvIInv, EvNext PROVE EvIInv'
    <3>1. CASE KeyEvent
      BY <2>1, <3>1, KeyPressed DEF KeyEvent
    <3>2. ASSUME NEW h \in EvHandlers, EvFind(h) PROVE EvIInv'
      BY <2>1, <3>2, Found
    <3>3. ASSUME NEW h \in EvHandlers, EvStoreType(h) \/ EvStoreData(h) PROVE EvIInv'
      BY <2>1, <3>3, Stored, StoredData
    <3>4. ASSUME NEW h \in EvHandlers, EvWake(h) PROVE EvIInv'
      BY <2>1, <3>4, Woken
    <3>5. CASE \/ EvLook \/ EvTest
               \/ EvSuspend("suspend", "asleep") \/ EvSuspend("suspend again", "asleep again")
               \/ EvResume("asleep", "take") \/ EvResume("asleep again", "look")
      BY <2>1, <3>5, LookingSteps
    <3>6. CASE EvTake
      BY <2>1, <3>6, Taken
    <3>7. CASE EvRead
      BY <2>1, <3>7, SlotRead
    <3>8. CASE EvType
      BY <2>1, <3>8, TypeWritten
    <3>9. CASE EvData
      BY <2>1, <3>9, DataWritten
    <3>10. CASE EvLast
      BY <2>1, <3>10, ShiftEnded
    <3> QED
      BY <2>1, <3>1, <3>2, <3>3, <3>4, <3>5, <3>6, <3>7, <3>8, <3>9, <3>10
         DEF EvNext, HandlerStep, ShellStep
  <2> QED
    BY <2>1, NothingMoves
<1> QED
  BY InitiallyEmpty, <1>1, PTL DEF EvSpec

(* Nothing guards the ring, and yet: as long as at most one event is put   *)
(* while winsys_dequeue_from_event_handler shifts, no handler stores over  *)
(* the start or end of a shift and no two find one slot, the ring holds    *)
(* between two shifts exactly the events not yet taken, in the order they  *)
(* were put, each whole once its handler has stored both words, for a ring *)
(* of any size and any number of handlers.                                 *)
THEOREM EventsStayOrdered == EvSpec => []EventsOrdered
<1>1. EvIInv => EventsOrdered
  <2>1. ASSUME EvIInv PROVE EventsOrdered
    <3>1. EvTypeOK
      BY <2>1 DEF EvIInv, Users
    <3>2. ~ Shifting => evMid = {} /\ Known = Len(evQueue)
      BY <2>1 DEF EvIInv, Counted, Known
    <3> QED
      BY <2>1, <3>1, <3>2 DEF EvIInv, Still, Placed, Half, EventsOrdered
  <2> QED
    BY <2>1
<1> QED
  BY EventsInvariance, <1>1, PTL
=============================================================================
