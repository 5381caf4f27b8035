----------------------------- MODULE WindowList -----------------------------
(***************************************************************************)
(* The list of windows in depth order and the window that has the focus    *)
(* (kernel/window_sys.c).                                                  *)
(*                                                                         *)
(* Only the window server's listener moves and frees windows; programs     *)
(* append theirs.  Both write the list under winsys_win_list_lock, but it  *)
(* is read without: when a window id is chosen, when the windows of a      *)
(* process are released, when the mouse looks for a window.  So the list   *)
(* is modelled by its pointers, each write a step, each node an unlocked   *)
(* reader visits a step.                                                   *)
(*                                                                         *)
(* The ring of operations is the FIFO of OperationQueue.  Of the           *)
(* operations only those that change the list matter: "focus" is           *)
(* WINSYS_SET_WORKING_WINDOW (WINSYS_MOVE_WINDOW does the same to the      *)
(* list), "remove" is WINSYS_REMOVE_WINDOW.                                *)
(***************************************************************************)
EXTENDS Integers, Sequences, FiniteSets

CONSTANTS
  Window,      \* what kcalloc may return for a WINDOW
  Desktop,     \* a window of the kernel that cannot be closed
  NoWin,       \* the null pointer
  Program,     \* processes that create windows
  Kernel,      \* the parent of Desktop
  Handlers,    \* runs of the handler of irq 12, which may interrupt itself
  MaxCreated,  \* bound: windows that programs create
  MaxOps       \* bound: operations in the ring

ASSUME WindowAssumption ==
  /\ IsFiniteSet(Window) /\ Desktop \in Window /\ NoWin \notin Window
  /\ Kernel \notin Program /\ Handlers \cap Program = {}
  /\ MaxCreated \in Nat /\ MaxOps \in Nat

VARIABLES
  head,      \* win_list
  next,      \* WINDOW.next
  id,        \* WINDOW.id
  owner,     \* WINDOW.parent_pid
  used,      \* the windows allocated and not yet freed
  created,   \* how many programs have created
  working,   \* working_window
  lock,      \* winsys_win_list_lock
  ops,       \* the ring of operations
  step,      \* where the listener is
  wid,       \* the id the listener brings to the front
  removing,  \* the window the listener removes
  pc,        \* where a program or a mouse handler is
  mine,      \* the window a program creates
  handles,   \* the ids in a program's own copies of its windows
  at,        \* the window a reader of the list has come to
  best,      \* the id a program has found free so far
  victim,    \* the process whose windows a context releases
  dead       \* the processes that do not run any more

listVars   == << head, next, id, owner, used, created, created >>
serverVars == << working, lock, step, wid, removing >>
clientVars == << pc, mine, handles, at, best, victim, dead >>
vars       == << listVars, serverVars, ops, clientVars >>

Client == Program \cup Handlers

Init ==
  /\ head = Desktop /\ next = [w \in Window |-> NoWin]
  /\ id = [w \in Window |-> IF w = Desktop THEN 1 ELSE 0]
  /\ owner = [w \in Window |-> Kernel]
  /\ used = {Desktop} /\ created = 0
  /\ working = Desktop /\ lock = FALSE /\ ops = << >>
  /\ step = "idle" /\ wid = 0 /\ removing = NoWin
  /\ pc = [c \in Client |-> "run"]
  /\ mine = [p \in Program |-> NoWin]
  /\ handles = [p \in Program |-> {}]
  /\ at = [c \in Client |-> NoWin]
  /\ best = [p \in Program |-> 0]
  /\ victim = [c \in Client |-> Kernel]
  /\ dead = {}
-----------------------------------------------------------------------------
(***************************************************************************)
(* The list as its readers see it.                                         *)
(***************************************************************************)
After(w) == IF w = NoWin THEN NoWin ELSE next[w]

\* The nodes of the list in order, NoWin from its end on.
Node[k \in 0 .. Cardinality(Window)] == IF k = 0 THEN head ELSE After(Node[k - 1])

Ends   == Node[Cardinality(Window)] = NoWin
Linked == {Node[k] : k \in DOMAIN Node} \ {NoWin}

\* winsys_get_window_by_id
ById(i) ==
  LET found == {k \in DOMAIN Node : Node[k] # NoWin /\ id[Node[k]] = i}
  IN  IF found = {} THEN NoWin
      ELSE Node[CHOOSE k \in found : \A l \in found : k <= l]

Last == CHOOSE w \in Linked : next[w] = NoWin

\* The list without w; the node before w, or the head, now leads past it.
Unlink(w) ==
  IF head = w THEN head' = next[w] /\ UNCHANGED next
  ELSE /\ next' = [next EXCEPT ![CHOOSE u \in Linked : next[u] = w] = next[w]]
       /\ UNCHANGED head
-----------------------------------------------------------------------------
(***************************************************************************)
(* The listener.                                                           *)
(***************************************************************************)
\* winsys_dequeue_from_winsys_listener and winsys_do_operation.
TakeFocus ==
  /\ step = "idle" /\ ops # << >> /\ Head(ops).op = "focus"
  /\ wid' = Head(ops).wid
  /\ ops' = Tail(ops)
  /\ step' = "focus"
  /\ UNCHANGED << listVars, working, lock, removing, clientVars >>

TakeRemove ==
  /\ step = "idle" /\ ops # << >> /\ Head(ops).op = "remove"
  /\ removing' = ById(Head(ops).wid)
  /\ step' = IF removing' = NoWin THEN "idle" ELSE "unlink"
  /\ ops' = Tail(ops)
  /\ UNCHANGED << listVars, working, lock, wid, clientVars >>

\* winsys_set_working_window_operation returns, to the loop or to a removal.
Back ==
  /\ step' = IF removing = NoWin THEN "idle" ELSE "free"
  /\ wid' = 0

Focus ==
  /\ step = "focus" /\ ~ lock
  /\ LET w == ById(wid) IN
       IF w = NoWin THEN Back /\ UNCHANGED << working, lock >>
       ELSE /\ working' = w
            /\ IF w = working \/ next[head] = NoWin THEN Back /\ UNCHANGED lock
               ELSE step' = "detach" /\ lock' = TRUE /\ UNCHANGED wid
  /\ UNCHANGED << listVars, removing, ops, clientVars >>

Detach ==
  /\ step = "detach"
  /\ Unlink(working)
  /\ step' = "append"
  /\ UNCHANGED << id, owner, used, created, working, lock, wid, removing, ops, clientVars >>

AppendLast ==
  /\ step = "append"
  /\ next' = [next EXCEPT ![Last] = working]
  /\ step' = "cut"
  /\ UNCHANGED << head, id, owner, used, created, working, lock, wid, removing, ops, clientVars >>

Cut ==
  /\ step = "cut"
  /\ next' = [next EXCEPT ![working] = NoWin]
  /\ lock' = FALSE
  /\ Back
  /\ UNCHANGED << head, id, owner, used, created, working, removing, ops, clientVars >>

\* winsys_remove_window_operation, winsys_remove_window_user
RemoveUnlink ==
  /\ step = "unlink" /\ ~ lock
  /\ Unlink(removing)
  /\ step' = "refocus"
  /\ UNCHANGED << id, owner, used, created, working, lock, wid, removing, ops, clientVars >>

\* Faulty: the focus stays on the removed window.
RefocusNever ==
  /\ step = "refocus"
  /\ step' = "free"
  /\ UNCHANGED << listVars, working, lock, wid, removing, ops, clientVars >>

Refocus ==
  /\ step = "refocus"
  /\ IF id[working] = id[removing]
     THEN working' = NoWin /\ wid' = id[Last] /\ step' = "focus"
     ELSE step' = "free" /\ UNCHANGED << working, wid >>
  /\ UNCHANGED << listVars, lock, removing, ops, clientVars >>

Free ==
  /\ step = "free"
  /\ used' = used \ {removing}
  /\ removing' = NoWin
  /\ step' = "idle"
  /\ UNCHANGED << head, next, id, owner, created, working, lock, wid, ops, clientVars >>
-----------------------------------------------------------------------------
(***************************************************************************)
(* Programs create windows (winsys_create_win, winsys_create_win_user).    *)
(***************************************************************************)
Runs(c) == c \notin dead

Enqueue(op, i) ==
  /\ Len(ops) < MaxOps
  /\ ops' = Append(ops, [op |-> op, wid |-> i])

(***************************************************************************)
(* On top of the listener a handler drops its operation when the ring's    *)
(* lock is taken, by the listener or by an enqueuer that was preempted.    *)
(***************************************************************************)
Send(c, op, i) == Enqueue(op, i) \/ (c \in Handlers /\ UNCHANGED ops)

\* kcalloc clears the window; winsys_get_free_id starts at the head of the list.
Create(p) ==
  /\ pc[p] = "run" /\ Runs(p)
  /\ created < MaxCreated /\ created' = created + 1
  /\ \E w \in Window \ used :
       /\ used' = used \cup {w}
       /\ owner' = [owner EXCEPT ![w] = p]
       /\ next' = [next EXCEPT ![w] = NoWin]
       /\ id' = [id EXCEPT ![w] = 0]
       /\ mine' = [mine EXCEPT ![p] = w]
  /\ at' = [at EXCEPT ![p] = head]
  /\ best' = [best EXCEPT ![p] = 1]
  /\ pc' = [pc EXCEPT ![p] = "scan"]
  /\ UNCHANGED << head, serverVars, ops, handles, victim, dead >>

Scan(p) ==
  /\ pc[p] = "scan" /\ Runs(p) /\ at[p] # NoWin
  /\ best' = [best EXCEPT ![p] = IF id[at[p]] >= @ THEN id[at[p]] + 1 ELSE @]
  /\ at' = [at EXCEPT ![p] = next[@]]
  /\ UNCHANGED << listVars, serverVars, ops, pc, mine, handles, victim, dead >>

TakeId(p) ==
  /\ pc[p] = "scan" /\ Runs(p) /\ at[p] = NoWin
  /\ id' = [id EXCEPT ![mine[p]] = best[p]]
  /\ best' = [best EXCEPT ![p] = 0]
  /\ pc' = [pc EXCEPT ![p] = "link"]
  /\ UNCHANGED << head, next, owner, used, created, serverVars, ops, mine, handles, at, victim, dead >>

\* Faulty: appends without taking the lock.
LinkUnlocked(p) ==
  /\ pc[p] = "link" /\ Runs(p)
  /\ next' = [next EXCEPT ![Last] = mine[p]]
  /\ pc' = [pc EXCEPT ![p] = "announce"]
  /\ UNCHANGED << head, id, owner, used, created, serverVars, ops, mine, handles, at, best, victim, dead >>

Link(p) ==
  /\ pc[p] = "link" /\ Runs(p) /\ ~ lock
  /\ next' = [next EXCEPT ![Last] = mine[p]]
  /\ pc' = [pc EXCEPT ![p] = "announce"]
  /\ UNCHANGED << head, id, owner, used, created, serverVars, ops, mine, handles, at, best, victim, dead >>

\* Faulty: the new window does not ask for the focus.
AnnounceNot(p) ==
  /\ pc[p] = "announce" /\ Runs(p)
  /\ pc' = [pc EXCEPT ![p] = "copy"]
  /\ UNCHANGED << listVars, serverVars, ops, mine, handles, at, best, victim, dead >>

Announce(p) ==
  /\ pc[p] = "announce" /\ Runs(p)
  /\ Enqueue("focus", id[mine[p]])
  /\ pc' = [pc EXCEPT ![p] = "copy"]
  /\ UNCHANGED << listVars, serverVars, mine, handles, at, best, victim, dead >>

\* The program gets a copy of the window, as it is by then.
Copy(p) ==
  /\ pc[p] = "copy" /\ Runs(p)
  /\ handles' = [handles EXCEPT ![p] = @ \cup {id[mine[p]]}]
  /\ mine' = [mine EXCEPT ![p] = NoWin]
  /\ pc' = [pc EXCEPT ![p] = "run"]
  /\ UNCHANGED << listVars, serverVars, ops, at, best, victim, dead >>

\* A program closes a window of its own and runs on (winsys_remove_window).
CloseOwn(p) ==
  /\ pc[p] = "run" /\ Runs(p)
  /\ \E i \in handles[p] :
       /\ Enqueue("remove", i)
       /\ handles' = [handles EXCEPT ![p] = @ \ {i}]
  /\ UNCHANGED << listVars, serverVars, pc, mine, at, best, victim, dead >>
-----------------------------------------------------------------------------
(***************************************************************************)
(* The end of a process: its own exit, or the mouse on its close button.   *)
(* Both walk the list first (winsys_remove_windows_by_pid).                *)
(***************************************************************************)
Terminate(c, p) ==
  /\ pc[c] = "run" /\ Runs(c) /\ Runs(p)
  /\ c = p \/ (c \in Handlers /\ \E w \in Linked : owner[w] = p)
  /\ at' = [at EXCEPT ![c] = head]
  /\ victim' = [victim EXCEPT ![c] = p]
  /\ pc' = [pc EXCEPT ![c] = "release"]
  /\ UNCHANGED << listVars, serverVars, ops, mine, handles, best, dead >>

ReleasePass(c) ==
  /\ pc[c] = "release" /\ Runs(c) /\ at[c] # NoWin /\ owner[at[c]] # victim[c]
  /\ at' = [at EXCEPT ![c] = next[@]]
  /\ UNCHANGED << listVars, serverVars, ops, pc, mine, handles, best, victim, dead >>

\* The walk is over, with the first window of the process or without one.
ReleaseFound(c) ==
  /\ pc[c] = "release" /\ Runs(c) /\ at[c] # NoWin /\ owner[at[c]] = victim[c]
  /\ Send(c, "remove", id[at[c]])
  /\ at' = [at EXCEPT ![c] = NoWin]
  /\ pc' = [pc EXCEPT ![c] = "stop"]
  /\ UNCHANGED << listVars, serverVars, mine, handles, best, victim, dead >>

ReleaseNone(c) ==
  /\ pc[c] = "release" /\ Runs(c) /\ at[c] = NoWin
  /\ pc' = [pc EXCEPT ![c] = "stop"]
  /\ UNCHANGED << listVars, serverVars, ops, mine, handles, at, best, victim, dead >>

\* Faulty: forgets whom to stop before the threads are marked.
StopForgetful(c) ==
  /\ pc[c] = "stop" /\ Runs(c)
  /\ victim' = [victim EXCEPT ![c] = Kernel]
  /\ dead' = dead \cup {victim'[c]}
  /\ pc' = [pc EXCEPT ![c] = "run"]
  /\ UNCHANGED << listVars, serverVars, ops, mine, handles, at, best >>

\* The threads are marked: the process runs no further, and of what it was
\* doing only the window it was creating remains.
Stop(c) ==
  /\ pc[c] = "stop" /\ Runs(c)
  /\ LET p == victim[c]
         creating == pc[p] \in {"scan", "link", "announce"}
     IN  /\ dead' = dead \cup {p}
         /\ pc' = [pc EXCEPT ![c] = "run", ![p] = IF creating THEN @ ELSE "run"]
         /\ mine' = [mine EXCEPT ![p] = IF creating THEN @ ELSE NoWin]
         /\ handles' = [handles EXCEPT ![p] = {}]
         /\ at' = [at EXCEPT ![p] = NoWin]
         /\ best' = [best EXCEPT ![p] = 0]
         /\ victim' = [victim EXCEPT ![c] = Kernel, ![p] = Kernel]
  /\ UNCHANGED << listVars, serverVars, ops >>

(***************************************************************************)
(* A click on another window than the one with the focus: the handler may  *)
(* be preempted between finding the window and reading its id.             *)
(***************************************************************************)
Click(h, w) ==
  /\ pc[h] = "run" /\ w \in Linked /\ w # working
  /\ at' = [at EXCEPT ![h] = w]
  /\ pc' = [pc EXCEPT ![h] = "click"]
  /\ UNCHANGED << listVars, serverVars, ops, mine, handles, best, victim, dead >>

SendClick(h) ==
  /\ pc[h] = "click"
  /\ Send(h, "focus", id[at[h]])
  /\ at' = [at EXCEPT ![h] = NoWin]
  /\ pc' = [pc EXCEPT ![h] = "run"]
  /\ UNCHANGED << listVars, serverVars, mine, handles, best, victim, dead >>

Listener == \/ TakeFocus \/ Focus \/ Detach \/ AppendLast \/ Cut
            \/ TakeRemove \/ RemoveUnlink \/ Refocus \/ Free

Creates(p)  == Create(p) \/ Scan(p) \/ TakeId(p) \/ Link(p) \/ Announce(p) \/ Copy(p)
Releases(c) == ReleasePass(c) \/ ReleaseFound(c) \/ ReleaseNone(c) \/ Stop(c)

Next ==
  \/ Listener
  \/ \E p \in Program : Creates(p) \/ CloseOwn(p)
  \/ \E c \in Client : Releases(c) \/ \E p \in Program : Terminate(c, p)
  \/ \E h \in Handlers : SendClick(h) \/ \E w \in Window : Click(h, w)

Spec == Init /\ [][Next]_vars

(***************************************************************************)
(* Fairness: the listener's thread and every program run again and again,  *)
(* and an interrupt handler returns.  Nobody is obliged to create a window,*)
(* close, to end or to click.  The ring is shared, hence the strong form.  *)
(***************************************************************************)
Fairness ==
  /\ WF_vars(Listener)
  /\ \A h \in Handlers : SF_vars(SendClick(h))
  /\ \A p \in Program : SF_vars(Scan(p) \/ TakeId(p) \/ Link(p) \/ Announce(p) \/ Copy(p))
  /\ \A c \in Client : SF_vars(Releases(c))

FairSpec == Spec /\ Fairness
-----------------------------------------------------------------------------
(***************************************************************************)
(* Properties.                                                             *)
(***************************************************************************)
Pointer == Window \cup {NoWin}

\* The type invariant: pointers, ids and contexts.
TypeOK ==
  /\ head \in Pointer /\ next \in [Window -> Pointer] /\ working \in Pointer
  /\ id \in [Window -> Nat] /\ owner \in [Window -> Program \cup {Kernel}]
  /\ used \subseteq Window /\ created \in Nat /\ lock \in BOOLEAN
  /\ ops \in Seq([op : {"focus", "remove"}, wid : Nat])
  /\ step \in {"idle", "focus", "detach", "append", "cut", "unlink", "refocus", "free"}
  /\ wid \in Nat /\ removing \in Pointer
  /\ pc \in [Client -> {"run", "scan", "link", "announce", "copy", "release", "stop", "click"}]
  /\ mine \in [Program -> Pointer] /\ handles \in [Program -> SUBSET Nat] /\ at \in [Client -> Pointer]
  /\ best \in [Program -> Nat] /\ victim \in [Client -> Program \cup {Kernel}]
  /\ dead \subseteq Program

(***************************************************************************)
(* Whatever is created, clicked and closed meanwhile, the list leads       *)
(* through windows that are allocated, each once, and no window is lost    *)
(* from it but the one the listener has in hand and those not yet linked.  *)
(* Only under the lock may it be a circle, between window_sys.c:508 and    *)
(* :509.                                                                   *)
(***************************************************************************)
ListSound ==
  /\ Linked \subseteq used
  /\ ~ lock => Ends
  /\ \A w \in used : \/ w \in Linked
                     \/ w = removing
                     \/ w = working /\ step = "append"
                     \/ \E p \in Program : mine[p] = w /\ pc[p] \in {"scan", "link"}

(***************************************************************************)
(* The focus is never on a freed window, nor read through a null pointer   *)
(* when a window is removed (window_sys.c:1127, :1202).  This rests on the *)
(* desktop, which is never closed: see NoReuse in WindowListProofs.        *)
(***************************************************************************)
FocusAlive ==
  /\ working \in used \cup {NoWin}
  /\ step \in {"idle", "refocus"} => working # NoWin

(***************************************************************************)
(* When no operation is left and no running program is about to ask for    *)
(* the focus, the window with the focus is the one in front                *)
(* (working_window is the last of win_list): keyboard events and the eye   *)
(* agree.  The exception is a window whose program was closed before it    *)
(* could ask.  Two windows may get the same id, because winsys_get_free_id *)
(* does not see a window that is being moved; the property is about lists  *)
(* without such a pair.                                                    *)
(***************************************************************************)
UniqueIds == \A v, w \in Linked : id[v] = id[w] => v = w

FocusInFront ==
  /\ step = "idle" /\ ops = << >> /\ \A p \in Program \ dead : pc[p] # "announce"
  /\ UniqueIds
  => working = Last \/ \E p \in dead : pc[p] = "announce" /\ mine[p] = Last

(***************************************************************************)
(* A process that has ended leaves no window behind: "release windows      *)
(* created by process" (process.c:161, :547).                              *)
(***************************************************************************)
WindowsReleased ==
  \A p \in Program : [](p \in dead => <>(\A w \in Linked : owner[w] # p))
=============================================================================
