----------------------------- MODULE EventRing -----------------------------
(***************************************************************************)
(* The events of a window: the keyboard handler puts them into the         *)
(* window's ring, the window's program takes them out.                     *)
(*                                                                         *)
(* Nothing guards the ring.  Taking the first event shifts the others down *)
(* one by one; the handler looks for the first slot marked invalid.  Both  *)
(* copy an event in two words, the type and then the data, with interrupts *)
(* enabled.  The program is the shell, which suspends itself when it sees  *)
(* no event and is woken by the handler.                                   *)
(*                                                                         *)
(* The timer switches handlers out, and they overlap: the mouse handler    *)
(* acknowledges before its body (mouse.c:103) and once more at its end,    *)
(* which may release an interrupt of the keyboard still in service.        *)
(*                                                                         *)
(* evQueue, the events put and not yet taken, evMid, those put during a    *)
(* shift, and evVoid are not in the code.                                  *)
(***************************************************************************)
EXTENDS Integers, FiniteSets, Sequences

CONSTANTS
    EvSlots,         \* EVENT_HANDLER_QUEUE_SIZE (10)
    EvHandlers,      \* bound: the handlers that may be under way at a time
    EvVoidHandlers,  \* bound: so many of them once the claims are void
    EvMark           \* bound: what tells the events apart, in both words

ASSUME EventRingAssumption ==
    /\ EvSlots \in Nat \ {0, 1} /\ IsFiniteSet(EvMark) /\ IsFiniteSet(EvHandlers)
    /\ Cardinality(EvMark) >= EvSlots + Cardinality(EvHandlers)
    /\ "invalid" \notin EvMark

VARIABLES
    events,          \* [1 .. EvSlots -> [type, data]]
    evShell,         \* where the shell is
    evTaken,         \* e, what it has taken, is an event
    evI, evCopy,     \* the slot it shifts into, and what it has read for it
    evSuspended,     \* THREAD_SUSPENDED is set
    evHandler,       \* where each handler is, with the event it puts
    evQueue, evMid, evVoid

evVars == <<events, evShell, evTaken, evI, evCopy, evSuspended, evHandler,
            evQueue, evMid, evVoid>>

EvSlot     == 1 .. EvSlots
Invalid  == "invalid"
NoEvent  == [type |-> Invalid, data |-> Invalid]
Idle     == [at |-> "idle"]
Shifting == evShell \in {"read", "type", "data", "last"}

EvInit ==
    /\ events = [i \in EvSlot |-> NoEvent]
    /\ evShell = "look" /\ evTaken = FALSE /\ evI = 1 /\ evCopy = NoEvent
    /\ evSuspended = FALSE /\ evHandler = [h \in EvHandlers |-> Idle]
    /\ evQueue = <<>> /\ evMid = {} /\ evVoid = FALSE

-----------------------------------------------------------------------------
(***************************************************************************)
(* keyboard_handler                                                        *)
(***************************************************************************)
\* Where a handler stands, in one of the places.
Some(places) == \E h \in EvHandlers : evHandler[h].at \in places
Goes(h, to)  == evHandler' = [evHandler EXCEPT ![h] = to]

\* A press or a release; the press of a modifier makes no event.
keyboard_handler(h) ==
    /\ evHandler[h] = Idle
    /\ evVoid => Cardinality({g \in EvHandlers : evHandler[g] # Idle}) < EvVoidHandlers
    /\ Goes(h, [at |-> "find"])
    /\ UNCHANGED <<events, evShell, evTaken, evI, evCopy, evSuspended,
                   evQueue, evMid, evVoid>>

\* Whether it is a press and which key, and the modifiers that are down:
\* a mark that no event waiting and no other handler has.
NewMark ==
    LET put == {evHandler[h].event : h \in {g \in EvHandlers : evHandler[g].at \in {"store", "data"}}}
               \cup {evQueue[i] : i \in 1 .. Len(evQueue)}
    IN  CHOOSE m \in EvMark : evVoid \/ \A e \in put : e.data # m

\* winsys_enqueue_to_event_handler: the first invalid slot; none, no event.
\* The claims are void when another handler has found one and not stored.
EvFind(h) ==
    LET free == {i \in EvSlot : events[i].type = Invalid}
        slot == CHOOSE i \in free : \A j \in free : i <= j
    IN  /\ evHandler[h].at = "find"
        /\ Goes(h, IF free = {} THEN [at |-> "wake"]
                   ELSE [at |-> "store", slot |-> slot,
                         event |-> [type |-> NewMark, data |-> NewMark]])
        /\ evVoid' = (evVoid \/ (free # {} /\ Some({"store"})))
        /\ evQueue' = IF evVoid' THEN <<>> ELSE evQueue
        /\ evMid' = IF evVoid' THEN {} ELSE evMid
        /\ UNCHANGED <<events, evShell, evTaken, evI, evCopy, evSuspended>>

\* The first word, and the event counts as put.  Two events put during one
\* shift void the claims until the ring is empty.
EvStoreType(h) ==
    LET event == evHandler[h].event
    IN  /\ evHandler[h].at = "store"
        /\ events' = [events EXCEPT ![evHandler[h].slot].type = event.type]
        /\ Goes(h, [at |-> "data", slot |-> evHandler[h].slot, event |-> event])
        /\ evVoid' = (evVoid \/ (Shifting /\ evMid # {}))
        /\ evQueue' = IF evVoid' THEN <<>> ELSE Append(evQueue, event)
        /\ evMid' = IF Shifting /\ ~evVoid' THEN {event} ELSE {}
        /\ UNCHANGED <<evShell, evTaken, evI, evCopy, evSuspended>>

\* The second word.
EvStoreData(h) ==
    /\ evHandler[h].at = "data"
    /\ events' = [events EXCEPT ![evHandler[h].slot].data = evHandler[h].event.data]
    /\ Goes(h, [at |-> "wake"])
    /\ UNCHANGED <<evShell, evTaken, evI, evCopy, evSuspended, evQueue, evMid, evVoid>>

\* Mutant: only the first event of an empty ring wakes.
EvWakeFirst(h) ==
    /\ evHandler[h].at = "wake"
    /\ evSuspended' = (evSuspended /\ events[2].type # Invalid)
    /\ Goes(h, Idle)
    /\ UNCHANGED <<events, evShell, evTaken, evI, evCopy, evQueue, evMid, evVoid>>

\* unsuspend_suspended_threads, whether the event found a place or not.
EvWake(h) ==
    /\ evHandler[h].at = "wake"
    /\ evSuspended' = FALSE
    /\ Goes(h, Idle)
    /\ UNCHANGED <<events, evShell, evTaken, evI, evCopy, evQueue, evMid, evVoid>>

-----------------------------------------------------------------------------
(***************************************************************************)
(* get_shell_input                                                         *)
(***************************************************************************)
ShellGoes(from, to) == evShell = from /\ evShell' = to
Steady == UNCHANGED evHandler

EvLook ==
    /\ evShell = "look"
    /\ evShell' = IF events[1].type = Invalid THEN "suspend" ELSE "take"
    /\ UNCHANGED <<events, evTaken, evI, evCopy, evSuspended, evQueue, evMid, evVoid>> /\ Steady

\* thread_suspend: the flag, then the processor is given up.
EvSuspend(from, to) ==
    /\ ShellGoes(from, to)
    /\ evSuspended' = TRUE
    /\ UNCHANGED <<events, evTaken, evI, evCopy, evQueue, evMid, evVoid>> /\ Steady

EvResume(from, to) ==
    /\ ShellGoes(from, to) /\ ~evSuspended
    /\ UNCHANGED <<events, evTaken, evI, evCopy, evSuspended, evQueue, evMid, evVoid>> /\ Steady

\* winsys_dequeue_from_event_handler: the claims are void when a handler has
\* found its slot and not stored all of its event.
EvTake ==
    /\ ShellGoes("take", "read")
    /\ evTaken' = (events[1].type # Invalid) /\ evI' = 1
    /\ evVoid' = (evVoid \/ Some({"store", "data"}))
    /\ evQueue' = IF evVoid' \/ evQueue = <<>> THEN <<>> ELSE Tail(evQueue)
    /\ UNCHANGED <<events, evCopy, evSuspended, evMid>> /\ Steady

\* The data of an invalid slot counts as 0.  (Two loads; what a handler
\* stores in between makes no other copy than one of the two orders.)
EvRead ==
    /\ ShellGoes("read", "type")
    /\ evCopy' = IF events[evI + 1].type = Invalid THEN NoEvent ELSE events[evI + 1]
    /\ UNCHANGED <<events, evTaken, evI, evSuspended, evQueue, evMid, evVoid>> /\ Steady

EvType ==
    /\ ShellGoes("type", "data")
    /\ events' = [events EXCEPT ![evI].type = evCopy.type]
    /\ UNCHANGED <<evTaken, evI, evCopy, evSuspended, evQueue, evMid, evVoid>> /\ Steady

\* Mutant: the shift ends one slot early.
EvDataShort ==
    /\ ShellGoes("data", IF evI + 2 >= EvSlots THEN "last" ELSE "read")
    /\ events' = [events EXCEPT ![evI].data = evCopy.data]
    /\ evI' = evI + 1
    /\ UNCHANGED <<evTaken, evCopy, evSuspended, evQueue, evMid, evVoid>> /\ Steady

EvData ==
    /\ ShellGoes("data", IF evI + 1 = EvSlots THEN "last" ELSE "read")
    /\ events' = [events EXCEPT ![evI].data = evCopy.data]
    /\ evI' = evI + 1
    /\ UNCHANGED <<evTaken, evCopy, evSuspended, evQueue, evMid, evVoid>> /\ Steady

Clean(ring) == \A i \in EvSlot : ring[i].type = Invalid

\* The events put before the shift; one put during it is the last.
EvKept == IF evMid = {} THEN evQueue ELSE SubSeq(evQueue, 1, Len(evQueue) - 1)

\* An event put during the shift may be gone, have the data of another, or
\* lie behind a gap; so may one whose slot was found before the shift ended.
EvLast ==
    LET kept == EvKept
        next == Len(kept) + 1
        gap  == next < EvSlots /\ events[next].type = Invalid
                /\ \E i \in next + 1 .. EvSlots - 1 : events[i].type # Invalid
    IN  /\ ShellGoes("last", "test")
        /\ events' = [events EXCEPT ![EvSlots] = NoEvent]
        /\ evI' = 1 /\ evCopy' = NoEvent
        /\ evVoid' = (\/ Some({"store", "data"})
                      \/ IF evVoid THEN ~Clean(events') ELSE evMid # {} /\ gap)
        /\ evQueue' = IF evVoid' THEN <<>>
                      ELSE IF evMid # {} /\ next < EvSlots /\ events[next].type # Invalid
                           THEN Append(kept, events[next]) ELSE kept
        /\ evMid' = {}
        /\ UNCHANGED <<evTaken, evSuspended>> /\ Steady

\* Keys go to the line, releases are passed over; no event, and it sleeps.
EvTest ==
    /\ evShell = "test"
    /\ evShell' = IF evTaken THEN "look" ELSE "suspend again"
    /\ evTaken' = FALSE
    /\ UNCHANGED <<events, evI, evCopy, evSuspended, evQueue, evMid, evVoid>> /\ Steady

ShellStep ==
    \/ EvLook \/ EvSuspend("suspend", "asleep") \/ EvResume("asleep", "take")
    \/ EvTake \/ EvRead \/ EvType \/ EvData \/ EvLast \/ EvTest
    \/ EvSuspend("suspend again", "asleep again") \/ EvResume("asleep again", "look")

HandlerStep(h) == EvFind(h) \/ EvStoreType(h) \/ EvStoreData(h) \/ EvWake(h)

KeyEvent == \E h \in EvHandlers : keyboard_handler(h)

EvNext == KeyEvent \/ (\E h \in EvHandlers : HandlerStep(h)) \/ ShellStep

(* Threads and handlers run again and again, and keys keep coming.         *)
EvFairness ==
    /\ WF_evVars(ShellStep) /\ WF_evVars(KeyEvent)
    /\ \A h \in EvHandlers : WF_evVars(HandlerStep(h))

EvSpec == EvInit /\ [][EvNext]_evVars /\ EvFairness
-----------------------------------------------------------------------------
(* The type invariant of the ring and its two users.                       *)
EvTypeOK ==
    /\ \A i \in EvSlot : events[i].type \in EvMark \cup {Invalid}
    /\ evShell \in {"look", "suspend", "asleep", "take", "read", "type", "data", "last",
                    "test", "suspend again", "asleep again"}
    /\ evI \in 1 .. EvSlots
    /\ evSuspended \in BOOLEAN /\ evVoid \in BOOLEAN /\ evTaken \in BOOLEAN
    /\ \A h \in EvHandlers : evHandler[h].at \in {"idle", "find", "store", "data", "wake"}
    /\ Len(evQueue) <= EvSlots + 1

(* An event put while the shell shifts may be lost or get the data of      *)
(* another, and so may one that a handler has not stored whole when the    *)
(* shift begins or ends, or whose slot two handlers found at a time.  As   *)
(* long as there is only one put in a shift, and none of the others,       *)
(* nothing else is lost: between shifts the ring holds, from its first     *)
(* slot on and in the order they were put, exactly the events not yet      *)
(* taken, none twice, each with the modifiers of the moment its key was    *)
(* pressed unless a handler is just about to store these.                  *)
EventsOrdered ==
    /\ EvTypeOK
    /\ (~Shifting /\ ~evVoid) =>
        /\ \A i \in 1 .. Len(evQueue) :
             \/ events[i] = evQueue[i]
             \/ /\ events[i].type = evQueue[i].type
                /\ \E h \in EvHandlers : evHandler[h].at = "data" /\ evHandler[h].slot = i
                                       /\ evHandler[h].event = evQueue[i]
        /\ \A i \in Len(evQueue) + 1 .. EvSlots : events[i].type = Invalid

(* The shell looks at the ring and suspends itself in two steps, and a key *)
(* that comes in between leaves it asleep with an event before it.  If     *)
(* keys keep coming, it takes an event all the same.                       *)
EventsServed ==
    (evSuspended /\ events[1].type # Invalid) ~> (evShell = "test" /\ evTaken)
=============================================================================
