--------------------------- MODULE AddressSpaces ---------------------------
(***************************************************************************)
(* Page directories (kernel/vmm.c) and what fills and empties them: the    *)
(* loader, createProcess, fork, sbrk, user windows, the end of a process   *)
(* and the dispatcher that frees what is left of it.                       *)
(*                                                                         *)
(* Virtual pages are numbered.  Table 0 is the kernel's, shared by all.    *)
(* Images and heaps are counted in quarters of a page.  A process that     *)
(* runs out of frames faults in the kernel, and one that fills an area of  *)
(* its directory runs into the next: the model takes the calls that leave  *)
(* a frame (Left) and find a page.  Kernel processes do not end here.      *)
(***************************************************************************)
EXTENDS PhysMem

CONSTANTS
    Slot,            \* process descriptors
    Available, Special,   \* sequences of regions, see Boot
    Images,          \* the executables: [base, size, sections], in quarters
    SbrkLim,         \* SBRK_LIM, in quarters
    Increments,      \* what programs ask of sbrk
    TablePages,      \* pages of a table
    PageCount,       \* pages of a directory
    KernelStacks,    \* USER_KERNEL_STACK_ALLOC_BASE, as a page
    UserSpace,       \* USER_SPACE, the windows' buffers
    OwnKernelStacks, \* KERNEL_STACK_ALLOC_BASE
    SpaceMaxCalls    \* bound: calls in a behaviour

ASSUME LayoutAssumption ==
    /\ {TablePages, PageCount, KernelStacks, UserSpace, OwnKernelStacks} \subseteq Nat
    /\ 0 < TablePages /\ TablePages <= KernelStacks /\ KernelStacks <= UserSpace
    /\ UserSpace <= OwnKernelStacks /\ OwnKernelStacks < PageCount

VARIABLES
    spMem,           \* [map, used]
    spDirs,          \* directory frame -> [tables, pages]: their frames, 0 for none
    spProcs,         \* Slot -> process
    spWins,          \* win_list: [page, pid, removing], the buffer's page in the server
    spCur,           \* _cur_directory
    spKernel,        \* the server's and the shell's directory, the shell's stack
    spCalls

spaceVars == <<spMem, spDirs, spProcs, spWins, spCur, spKernel, spCalls>>

Pages       == 0 .. PageCount - 1
TableOf(v)  == v \div TablePages
Tables      == {TableOf(v) : v \in Pages}
PageOf(byte) == byte \div 4
FromPageEnd(byte) == IF byte % 4 = 0 THEN 0 ELSE 4 - (byte % 4)

\* What create_user_stack goes down through, create_user_kernel_stack up,
\* find_user_space_pages and create_kernel_stack.
UserStackArea      == TablePages .. KernelStacks - 1
KernelStackArea    == KernelStacks .. UserSpace - 1
WindowArea         == UserSpace .. OwnKernelStacks - 1
OwnKernelStackArea == OwnKernelStacks .. PageCount - 1
-----------------------------------------------------------------------------
(***************************************************************************)
(* vmm.c, on s = [mem, dirs]                                               *)
(***************************************************************************)
\* pmmngr_alloc_block's frame becomes a page table, or a page; 0 is none.
GivenTable(s, d, t, a) ==
    IF a.frame = 0 THEN s
    ELSE [mem |-> a.mem, dirs |-> [s.dirs EXCEPT ![d].tables[t] = a.frame]]

GivenPage(s, d, v, a) ==
    IF a.frame = 0 THEN s
    ELSE [mem |-> a.mem, dirs |-> [s.dirs EXCEPT ![d].pages[v] = a.frame]]

WithTable(s, d, t) ==
    IF s.dirs[d].tables[t] # 0 THEN s ELSE GivenTable(s, d, t, pmmngr_alloc_block(s.mem))

HasTable(s, d, v) == s.dirs[d].tables[TableOf(v)] # 0

Mapped(s, d, frame, v) == IF HasTable(s, d, v) THEN [s EXCEPT !.dirs[d].pages[v] = frame] ELSE s

vmmngr_map_page(s, d, frame, v) == Mapped(WithTable(s, d, TableOf(v)), d, frame, v)

vmmngr_alloc_page(s, d, v) == GivenPage(s, d, v, pmmngr_alloc_block(s.mem))

vmmngr_check_virt_present(s, d, v) == s.dirs[d].pages[v] # 0

\* A page that is present stays.
AllocIn(s, d, v) ==
    IF ~HasTable(s, d, v) \/ vmmngr_check_virt_present(s, d, v) THEN s
    ELSE vmmngr_alloc_page(s, d, v)

vmmngr_alloc_virt(s, d, v) == AllocIn(WithTable(s, d, TableOf(v)), d, v)

AllocPages(s, d, from, to) ==
    LET after[v \in from - 1 .. to] ==
            IF v < from THEN s ELSE vmmngr_alloc_virt(after[v - 1], d, v)
    IN  IF to < from THEN s ELSE after[to]

\* vmmngr_free_page for those of the pages that are present.
vmmngr_free_virt(s, d, pages) ==
    LET present == {v \in pages : vmmngr_check_virt_present(s, d, v)}
    IN  [mem  |-> pmmngr_free_block(s.mem, {s.dirs[d].pages[v] : v \in present},
                                    Cardinality(present)),
         dirs |-> [s.dirs EXCEPT ![d].pages =
                      [v \in Pages |-> IF v \in pages THEN 0 ELSE s.dirs[d].pages[v]]]]

vmmngr_unmap_virt(s, d, v) == [s EXCEPT !.dirs[d].pages[v] = 0]

\* vmmngr_mmap_virt2virt, vmmngr_virt2phys_pdir: shares a page.
Share(s, from, vFrom, to, vTo) == vmmngr_map_page(s, to, s.dirs[from].pages[vFrom], vTo)

\* vmmngr_create_pdir, clone_kernel_space from the current directory; 0 is
\* no directory yet.
NewSpace(s, cur, a) ==
    LET dir == [tables |-> [t \in Tables |-> IF t = 0 /\ cur # 0 THEN s.dirs[cur].tables[0] ELSE 0],
                pages  |-> [v \in Pages |-> 0]]
    IN  [dir |-> a.frame,
         s   |-> [mem  |-> a.mem,
                  dirs |-> [x \in DOMAIN s.dirs \cup {a.frame} |->
                               IF x = a.frame THEN dir ELSE s.dirs[x]]]]

create_address_space(s, cur) == NewSpace(s, cur, pmmngr_alloc_block(s.mem))

\* Mutant: the kernel's table stays in the directory.
clear_nothing(s, d) == s

clear_kernel_space(s, d) == [s EXCEPT !.dirs[d].tables[0] = 0]

\* The tables and the directory, not the pages.
vmmngr_free_pdir(s, d) ==
    LET present == {t \in Tables : s.dirs[d].tables[t] # 0}
    IN  [mem  |-> pmmngr_free_block(s.mem, {s.dirs[d].tables[t] : t \in present} \cup {d},
                                    Cardinality(present) + 1),
         dirs |-> [x \in DOMAIN s.dirs \ {d} |-> s.dirs[x]]]

\* The page that is found going up or down, as a set; empty if the area is full.
FirstAbsent(s, d, area) ==
    {v \in area : /\ ~vmmngr_check_virt_present(s, d, v)
                  /\ \A w \in area : w < v => vmmngr_check_virt_present(s, d, w)}

LastAbsent(s, d, area) ==
    {v \in area : /\ ~vmmngr_check_virt_present(s, d, v)
                  /\ \A w \in area : v < w => vmmngr_check_virt_present(s, d, w)}

\* allocate_user_space_pages, find_user_space_pages_by_pdir, for one page.
find_user_space_pages(s, d) == FirstAbsent(s, d, WindowArea)

create_user_stack(s, d) == LastAbsent(s, d, UserStackArea)

\* A process that is started from one whose kernel stack is page stack of
\* directory cur; 0 while the scheduler does not run.
CallerMapped(c, cur, stack) ==
    [dir |-> c.dir, s |-> IF stack = 0 THEN c.s ELSE Share(c.s, cur, stack, c.dir, stack)]

CallerUnmapped(s, d, stack) == IF stack = 0 THEN s ELSE vmmngr_unmap_virt(s, d, stack)

WithKernelStack(c, stack, v) ==
    [dir |-> c.dir, stack |-> v,
     s |-> CallerUnmapped(vmmngr_alloc_virt(c.s, c.dir, v), c.dir, stack)]

FirstKernelStack(c, stack) ==
    {WithKernelStack(c, stack, v) : v \in FirstAbsent(c.s, c.dir, OwnKernelStackArea)}

createKernelProcess(s, cur, stack) ==
    FirstKernelStack(CallerMapped(create_address_space(s, cur), cur, stack), stack)

\* vmmngr_initialize and scheduler_initialize: the kernel's directory with
\* its table and stack, the launcher, the window server and the shell that
\* the launcher starts.
KernelSpace(c) == vmmngr_alloc_virt(WithTable(c.s, c.dir, 0), c.dir, OwnKernelStacks)

NoProc == [state |-> "none", pid |-> 0, dir |-> 0, image |-> [base |-> 0, size |-> 0],
           brk |-> 0, threads |-> {}]

BootMap == Boot(Available, Special)

SpaceInit ==
    /\ \E c \in {create_address_space([mem |-> BootMap, dirs |-> <<>>], 0)} :
       \E l \in createKernelProcess(KernelSpace(c), c.dir, 0) :
       \E w \in createKernelProcess(l.s, c.dir, 0) :
       \E sh \in createKernelProcess(w.s, l.dir, l.stack) :
            /\ spMem = sh.s.mem /\ spDirs = sh.s.dirs /\ Left(spMem)
            /\ spKernel = [winsys |-> w.dir, shell |-> sh.dir, stack |-> sh.stack]
            /\ spCur = sh.dir
    /\ spProcs = [p \in Slot |-> NoProc]
    /\ spWins = <<>>
    /\ spCalls = 0

Winsys == spKernel.winsys
Shell  == spKernel.shell

Space == [mem |-> spMem, dirs |-> spDirs]
BecomesSpace(s) == spMem' = s.mem /\ spDirs' = s.dirs

Running(p) == spProcs[p].state = "active" /\ spCur = spProcs[p].dir

Calls == spCalls < SpaceMaxCalls /\ spCalls' = spCalls + 1
-----------------------------------------------------------------------------
(***************************************************************************)
(* The loader and createProcess                                            *)
(***************************************************************************)
\* The pages from the first to the one after the last; the first is found
\* by going back as far as the page's end is away.
SectionFrom(image, section) ==
    LET from == image.base + section.va IN PageOf(from - FromPageEnd(from))

SectionTo(image, section) ==
    LET to == image.base + section.va + section.raw
              + (IF section.bss THEN section.virtual ELSE 0)
    IN  PageOf(to + FromPageEnd(to)) - 1

LoadSection(s, d, image, section) ==
    AllocPages(s, d, SectionFrom(image, section), SectionTo(image, section))

load_executable(s, d, image) ==
    LET after[i \in 0 .. Len(image.sections)] ==
            IF i = 0 THEN s ELSE LoadSection(after[i - 1], d, image, image.sections[i])
    IN  after[Len(image.sections)]

\* The kernel stack of the calling thread, in its directory.
CallerStacks ==
    IF spCur = Shell THEN {spKernel.stack}
    ELSE {t.kernel : t \in UNION {spProcs[q].threads : q \in {r \in Slot : Running(r)}}}

\* Kernel processes have 1 to 4.
Listed == {p \in Slot : spProcs[p].state = "active"}
getFreeID == IF Listed = {} THEN 5
             ELSE CHOOSE n \in {spProcs[p].pid + 1 : p \in Listed} :
                      \A p \in Listed : spProcs[p].pid < n

\* A thread's user stack and then its kernel stack.
ThreadAt(s, d, us, ks) ==
    [s |-> vmmngr_alloc_virt(s, d, ks), thread |-> [user |-> us, kernel |-> ks]]
AndKernelStack(s, d, us) ==
    {ThreadAt(s, d, us, ks) : ks \in FirstAbsent(s, d, KernelStackArea)}
WithStacks(s, d) ==
    UNION {AndKernelStack(vmmngr_alloc_virt(s, d, us), d, us) : us \in create_user_stack(s, d)}

\* From the shell or from a program: the caller's stack is mapped while the
\* new directory is loaded.
createProcess(p, image) ==
    /\ spProcs[p].state = "none"
    /\ Calls
    /\ \E stack \in CallerStacks :
       \E c \in {CallerMapped(create_address_space(Space, spCur), spCur, stack)} :
       \E k \in WithStacks(load_executable(c.s, c.dir, image), c.dir) :
            /\ Left(k.s.mem)
            /\ BecomesSpace(vmmngr_unmap_virt(k.s, c.dir, stack))
            /\ spProcs' = [spProcs EXCEPT ![p] =
                   [state |-> "active", pid |-> getFreeID, dir |-> c.dir, image |-> image,
                    brk |-> image.base + image.size, threads |-> {k.thread}]]
    /\ UNCHANGED <<spWins, spCur, spKernel>>

\* load_executable returns nothing: no file, or not an executable.
CreateFails ==
    /\ Calls
    /\ \E stack \in CallerStacks :
       \E c \in {CallerMapped(create_address_space(Space, spCur), spCur, stack)} :
            /\ Left(c.s.mem)
            /\ BecomesSpace(vmmngr_free_pdir(clear_kernel_space(c.s, c.dir), c.dir))
    /\ UNCHANGED <<spProcs, spWins, spCur, spKernel>>

fork(p) ==
    /\ Running(p) /\ Calls
    /\ \E k \in WithStacks(Space, spCur) :
            /\ Left(k.s.mem) /\ BecomesSpace(k.s)
            /\ spProcs' = [spProcs EXCEPT ![p].threads = @ \cup {k.thread}]
    /\ UNCHANGED <<spWins, spCur, spKernel>>

\* The pages from the old end to the new one, unless the new end lies in the
\* page that is mapped already.
Grown(old, new, grows) ==
    IF grows THEN AllocPages(Space, spCur, PageOf(old), PageOf(new + FromPageEnd(new)) - 1)
    ELSE Space

GrowTo(p, old, new, grows) ==
    /\ Running(p) /\ Calls
    /\ new <= spProcs[p].image.base + spProcs[p].image.size + SbrkLim
    /\ spProcs' = [spProcs EXCEPT ![p].brk = new]
    /\ \E s \in {Grown(old, new, grows)} : Left(s.mem) /\ BecomesSpace(s)
    /\ UNCHANGED <<spWins, spCur, spKernel>>

NewPages(old, inc) == (old % 4) + inc >= 4

\* Mutant: an end on a page's boundary is taken for a page that is mapped.
inc_proc_brkInPage(p, inc) ==
    GrowTo(p, spProcs[p].brk, spProcs[p].brk + inc, NewPages(spProcs[p].brk, inc))

inc_proc_brk(p, inc) ==
    GrowTo(p, spProcs[p].brk, spProcs[p].brk + inc,
           NewPages(spProcs[p].brk, inc) \/ spProcs[p].brk % 4 = 0)
-----------------------------------------------------------------------------
(***************************************************************************)
(* Windows of programs: a page of the program, shared with the server      *)
(***************************************************************************)
winsys_create_win_user(p) ==
    /\ Running(p) /\ Calls
    /\ \E v \in find_user_space_pages(Space, spCur) :
       \E s \in {vmmngr_alloc_virt(Space, spCur, v)} :
       \E w \in find_user_space_pages(s, Winsys) :
       \E z \in {Share(s, spCur, v, Winsys, w)} :
            /\ Left(z.mem) /\ BecomesSpace(z)
            /\ spWins' = Append(spWins, [page |-> w, pid |-> spProcs[p].pid, removing |-> FALSE])
    /\ UNCHANGED <<spProcs, spCur, spKernel>>

\* The operation for window i is enqueued.
Removing(wins, i) == [wins EXCEPT ![i].removing = TRUE]

winsys_remove_window(p, i) ==
    /\ Running(p) /\ Calls /\ i \in DOMAIN spWins
    /\ spWins[i].pid = spProcs[p].pid
    /\ spWins' = Removing(spWins, i)
    /\ UNCHANGED <<spMem, spDirs, spProcs, spCur, spKernel>>

\* Only the first window of the process is found.
winsys_remove_windows_by_pid(pid) ==
    LET mine == {i \in DOMAIN spWins : spWins[i].pid = pid}
    IN  IF mine = {} THEN spWins
        ELSE Removing(spWins, CHOOSE i \in mine : \A j \in mine : i <= j)

\* The server frees the frames; the program still has them mapped.
winsys_remove_window_user(i) ==
    /\ spCur = Winsys /\ i \in DOMAIN spWins /\ spWins[i].removing
    /\ BecomesSpace(vmmngr_free_virt(Space, spCur, {spWins[i].page}))
    /\ spWins' = RemoveAt(spWins, i)
    /\ UNCHANGED <<spProcs, spCur, spKernel, spCalls>>
-----------------------------------------------------------------------------
(***************************************************************************)
(* The end of a process                                                    *)
(***************************************************************************)
\* The pages of the image, rounded up, and those the heap may have.
HeapEnd(image) == image.base + image.size + FromPageEnd(image.size)
                  + SbrkLim + FromPageEnd(SbrkLim)
ImagePages(image) == PageOf(image.base) .. PageOf(HeapEnd(image)) - 1

\* By itself or by another: image, heap and user stacks.
terminateProcessById(p) ==
    /\ spProcs[p].state = "active" /\ Calls
    /\ BecomesSpace(vmmngr_free_virt(Space, spProcs[p].dir,
            ImagePages(spProcs[p].image) \cup {t.user : t \in spProcs[p].threads}))
    /\ spWins' = winsys_remove_windows_by_pid(spProcs[p].pid)
    /\ spProcs' = [spProcs EXCEPT ![p].state = "terminated"]
    /\ UNCHANGED <<spCur, spKernel>>

\* The dispatcher meets a terminated thread: its kernel stack, and with the
\* last one the directory; not while that directory is loaded.
DispatchTerminated(p, t) ==
    /\ spProcs[p].state = "terminated" /\ t \in spProcs[p].threads
    /\ spCur # spProcs[p].dir
    /\ \E d \in {spProcs[p].dir} : \E s \in {vmmngr_free_virt(Space, d, {t.kernel})} :
            \/ /\ spProcs[p].threads = {t}
               /\ BecomesSpace(vmmngr_free_pdir(clear_kernel_space(s, d), d))
               /\ spProcs' = [spProcs EXCEPT ![p] = NoProc]
            \/ /\ spProcs[p].threads # {t}
               /\ BecomesSpace(s)
               /\ spProcs' = [spProcs EXCEPT ![p].threads = @ \ {t}]
    /\ UNCHANGED <<spWins, spCur, spKernel, spCalls>>

\* Another process runs.
vmmngr_switch_pdirectory(d) ==
    /\ d \in {Shell, Winsys} \cup {spProcs[p].dir : p \in Listed}
    /\ d # spCur
    /\ spCur' = d
    /\ UNCHANGED <<spMem, spDirs, spProcs, spWins, spKernel, spCalls>>

SpaceNext ==
    \/ \E p \in Slot, image \in Images : createProcess(p, image)
    \/ CreateFails
    \/ \E p \in Slot : fork(p) \/ winsys_create_win_user(p) \/ terminateProcessById(p)
    \/ \E p \in Slot, inc \in Increments : inc_proc_brk(p, inc)
    \/ \E p \in Slot, i \in 1 .. Len(spWins) : winsys_remove_window(p, i)
    \/ \E i \in 1 .. Len(spWins) : winsys_remove_window_user(i)
    \/ \E p \in Slot : \E t \in spProcs[p].threads : DispatchTerminated(p, t)
    \/ \E d \in DOMAIN spDirs : vmmngr_switch_pdirectory(d)

SpaceSpec == SpaceInit /\ [][SpaceNext]_spaceVars
-----------------------------------------------------------------------------
\* The pages that the loader maps, and with those of the heap.
SectionPages(image) ==
    UNION {SectionFrom(image, image.sections[i]) .. SectionTo(image, image.sections[i]) :
               i \in 1 .. Len(image.sections)}
ProgramPages(q) ==
    SectionPages(q.image)
    \cup {PageOf(byte) : byte \in q.image.base + q.image.size .. q.brk - 1}

\* What the firmware reports lies in memory.
ASSUME BootAssumption == BootMap.map \subseteq Frame /\ 0 \in BootMap.map /\ BootMap.used \in Nat

\* The programs as they are linked: on a page's boundary, above the kernel's
\* table (the loader refuses others), with room for the heap below the
\* stacks, sections inside the image, and its last page, if it is in part the
\* heap's, in a section.
ASSUME ImagesAssumption ==
    /\ SbrkLim \in Nat /\ Increments \subseteq Nat
    /\ \A x \in Images :
        /\ x.base \in Nat /\ x.base % 4 = 0 /\ x.size \in Nat
        /\ TablePages <= PageOf(x.base) /\ PageOf(HeapEnd(x)) <= KernelStacks
        /\ Len(x.sections) \in Nat
        /\ \A i \in 1 .. Len(x.sections) :
            /\ SectionFrom(x, x.sections[i]) \in Nat /\ SectionTo(x, x.sections[i]) \in Nat
            /\ SectionFrom(x, x.sections[i]) .. SectionTo(x, x.sections[i]) \subseteq ImagePages(x)
        /\ (x.base + x.size) % 4 # 0 => PageOf(x.base + x.size) \in SectionPages(x)

(* The type invariant of the manager, the directories and the processes.   *)
SpaceTypeOK ==
    /\ spMem.map \subseteq Frame /\ 0 \in spMem.map /\ spMem.used \in Nat
    /\ DOMAIN spDirs \subseteq Frame \ {0}
    /\ \A d \in DOMAIN spDirs : /\ spDirs[d].tables \in [Tables -> Frame]
                                /\ spDirs[d].pages \in [Pages -> Frame]
    /\ \A p \in Slot : spProcs[p].state \in {"none", "active", "terminated"}
    /\ spCur \in Frame /\ spKernel.winsys \in Frame /\ spKernel.shell \in Frame

\* What a directory owns: itself, its tables without the kernel's, and its
\* pages without those of windows, which belong to the server.
OwnedBy(d) ==
    {<<d, "dir", 0>>}
    \cup {<<d, "table", t>> : t \in {u \in Tables \ {0} : spDirs[d].tables[u] # 0}}
    \cup {<<d, "page", v>> : v \in {u \in Pages : spDirs[d].pages[u] # 0
                                                 /\ (u \in WindowArea => d = Winsys)}}

Owned == UNION {OwnedBy(d) : d \in DOMAIN spDirs}

FrameOf(o) == IF o[2] = "dir" THEN o[1]
              ELSE IF o[2] = "table" THEN spDirs[o[1]].tables[o[3]] ELSE spDirs[o[1]].pages[o[3]]

(* Every frame in use since the system started has one owner, a directory  *)
(* that exists, the one loaded among them, and every owned frame is in     *)
(* use: no end of a process, failed start, closed window or fork leaks a   *)
(* frame or frees one that someone else has.  The counter is off by what   *)
(* was counted twice when the memory was set up, and by no more later.     *)
FramesOwned ==
    LET frames == {FrameOf(o) : o \in Owned}
        kernel == spDirs[Winsys].tables[0]
    IN  /\ SpaceTypeOK
        /\ Cardinality(Owned) = Cardinality(frames)
        /\ spMem.map = BootMap.map \cup {kernel} \cup frames
        /\ (BootMap.map \cup {kernel}) \cap frames = {}
        /\ spCur \in DOMAIN spDirs
        /\ spMem.used - Cardinality(spMem.map) = BootMap.used - Cardinality(BootMap.map)

(* A running program has every page of its sections and of its heap, up to *)
(* the end that inc_proc_brk told it.                                      *)
HeapMapped ==
    \A p \in Listed : \A v \in ProgramPages(spProcs[p]) :
        vmmngr_check_virt_present(Space, spProcs[p].dir, v)
=============================================================================
