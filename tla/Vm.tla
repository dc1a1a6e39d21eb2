---------------------------------- MODULE Vm ----------------------------------
(***************************************************************************)
(* Virtual memory: the free page list and the kernel's own mappings in     *)
(* kernel/memory.c, areas and address spaces in kernel/aspace.c, and the   *)
(* callers that give them their meaning: new_thread() and brk() in         *)
(* kernel/kernel.c, thr_spawn() and task_destroy() in kernel/task.c and    *)
(* _execve() in lib/libposix/exec.c.                                       *)
(*                                                                         *)
(* A team is identified with its address space.  Sizes are in pages.  Each *)
(* C function is an operator from states to states and each system call is *)
(* an action.  A panic, and a write past the end of a page table, end the  *)
(* run: what follows is not modelled.  The blocks of kmalloc() come from   *)
(* pages that are set aside.                                               *)
(***************************************************************************)
EXTENDS Integers, Sequences, FiniteSets, SequencesExt

CONSTANTS
    Aspace,     \* the address spaces
    Boot,       \* the one that go_kernel() sets up
    AreaId,     \* the ids of areas, and as many page groups
    NPages,     \* the number of physical pages
    Dev,        \* a page of a device or of the boot image, not in Page
    Top,        \* the last entry of a page table, 1023 in the code
    Line,       \* where the search for space starts by default, 512 in the code
    KPages,     \* the pages of kernel addresses to hand out, from the top down
    Sizes,      \* the sizes, in pages, that programs ask for
    MaxThreads, \* threads per team
    MaxMine     \* areas that a program has at a time, besides those of _execve()

ASSUME VmAssumption ==
    /\ Boot \in Aspace
    /\ AreaId \subseteq Nat \ {0} /\ NPages \in Nat /\ Dev \in Nat \ (0 .. NPages)
    /\ Top \in Nat /\ Line \in 1 .. Top /\ KPages \in Nat /\ {MaxThreads, MaxMine} \subseteq Nat
    /\ Sizes \subseteq Nat \ {0}

VARIABLES
    vm,         \* the kernel's records
    threads,    \* the threads: a set of [team, kstack, stack]
    mine,       \* mine[a]: the ids of the areas that the program of a created
    exec,       \* exec[a]: where the program of a is in _execve()
    halt        \* how the run ended

vmVars == <<vm, threads, mine, exec, halt>>

NoArea == [pg |-> 0, virt |-> 0, length |-> 0]
NoGroup == [refcount |-> 0, physmap |-> FALSE, pages |-> << >>]
NoDir == << >>
NotInExec == [pc |-> "idle", area |-> 0, sarea |-> 0]

Page == 1 .. NPages
Table == [0 .. Top -> Page \cup {0, Dev}]

VmTypeOK ==
    /\ vm \in [free : Seq(Page),                        \* freepage and pagelist
               high : [0 .. KPages -> Page \cup {0}],   \* flat->high
               freev : Seq(0 .. KPages),                \* freevpagelist
               nextmem : 0 .. KPages,
               dir : [Aspace -> Seq(0 .. KPages)],      \* a->pdir and a->ptab
               ptab : [Aspace -> Table],
               areas : [Aspace -> Seq(AreaId)],         \* a->areas
               heap : [Aspace -> AreaId \cup {0}],      \* team->heap_id
               area : [AreaId -> [pg : AreaId \cup {0}, virt : Nat, length : Nat]],
               group : [AreaId -> [refcount : Nat, physmap : BOOLEAN, pages : Seq(Page \cup {Dev})]]]
    /\ threads \subseteq [team : Aspace, kstack : 0 .. KPages, stack : AreaId \cup {0}]
    /\ mine \in [Aspace -> SUBSET AreaId]
    /\ exec \in [Aspace -> [pc : {"idle", "image", "loaded", "spawned", "clean", "fault"},
                            area : AreaId \cup {0}, sarea : AreaId \cup {0}]]
    /\ halt \in {"no", "panic", "overrun"}

-----------------------------------------------------------------------------
(* Physical pages and kernel addresses *)

\* n calls of getpage(), and the pages they return.
getpage(s, n) == [s EXCEPT !.free = SubSeq(@, n + 1, Len(@))]
got(s, n) == SubSeq(s.free, 1, n)

\* putpage() of each page of ps.  The free lists are kept sorted: which free page or
\* address comes next makes no difference, and one that is freed twice is there twice.
putpage(s, ps) == [s EXCEPT !.free = SortSeq(ps \o @, <)]

\* The kernel address that kgetpage() returns.
kvaddr(s) == IF s.freev # << >> THEN Head(s.freev) ELSE s.nextmem - 1

kgetpage(s) ==
    LET fresh == s.freev = << >> IN
    [getpage(s, 1) EXCEPT !.high[kvaddr(s)] = Head(s.free),
                          !.freev = IF fresh THEN @ ELSE Tail(@),
                          !.nextmem = IF fresh THEN @ - 1 ELSE @]

\* Mutant: the page is released but stays mapped.
kfreepage_mapped(s, v) ==
    [putpage(s, <<s.high[v]>>) EXCEPT !.freev = SortSeq(<<v>> \o @, <)]

kfreepage(s, v) ==
    [putpage(s, <<s.high[v]>>) EXCEPT !.high[v] = 0, !.freev = SortSeq(<<v>> \o @, <)]

\* Both would panic: getpage() without a page, kgetpage() without an address.
OutOfPages(s, n) == Len(s.free) < n
OutOfAddresses(s, n) == Len(s.freev) + s.nextmem < n

-----------------------------------------------------------------------------
(* Address spaces and areas *)

aspace_create(s, a) ==
    LET s1 == kgetpage(s) IN
    [kgetpage(s1) EXCEPT !.dir[a] = <<kvaddr(s), kvaddr(s1)>>,
                         !.ptab[a] = [v \in 0 .. Top |-> 0],
                         !.areas[a] = << >>,
                         !.heap[a] = 0]

aspace_map(s, a, ps, at) ==
    [s EXCEPT !.ptab[a] = [v \in 0 .. Top |->
        IF v \in at .. at + Len(ps) - 1 THEN ps[v - at + 1] ELSE @[v]]]

aspace_clr(s, a, at, len) ==
    [s EXCEPT !.ptab[a] = [v \in 0 .. Top |-> IF v \in at .. at + len - 1 THEN 0 ELSE @[v]]]

\* Where the search of locate_span() starts.
span_start(start) == IF start < 1 \/ start > Top THEN Line ELSE start

\* Mutant: a used page does not end the span.
locate_span_over_holes(tab, start, len) ==
    LET from == span_start(start)
        scan[i \in from .. Top + 1] ==
            IF i = from THEN [found |-> 0, at |-> 0]
            ELSE LET p == scan[i - 1] IN
                 IF p.found >= len \/ tab[i - 1] # 0 THEN p
                 ELSE [found |-> p.found + 1, at |-> IF p.found = 0 THEN i - 1 ELSE p.at]
    IN  scan[Top + 1].at

\* scan[i] is the state of the loop before it looks at page i.  When the table ends
\* in a free span that is too short, the function returns its start all the same.
locate_span(tab, start, len) ==
    LET from == span_start(start)
        scan[i \in from .. Top + 1] ==
            IF i = from THEN [found |-> 0, at |-> 0]
            ELSE LET p == scan[i - 1] IN
                 IF p.found >= len THEN p
                 ELSE IF tab[i - 1] # 0 THEN [found |-> 0, at |-> 0]
                 ELSE [found |-> p.found + 1, at |-> IF p.found = 0 THEN i - 1 ELSE p.at]
    IN  scan[Top + 1].at

\* The id and the page group that the next area gets; blocks are not told apart.
FreeIds(s) == {i \in AreaId : s.area[i].pg = 0}
nextid(s) == Min(FreeIds(s))
nextgroup(s) == Min({g \in AreaId : s.group[g].refcount = 0})

\* Link a new area of a page group into an address space and map it.
attach(s, a, g, at, len) ==
    LET id == nextid(s) IN
    aspace_map([s EXCEPT !.area[id] = [pg |-> g, virt |-> at, length |-> len],
                         !.areas[a] = Append(@, id),
                         !.group[g].refcount = @ + 1],
               a, SubSeq(s.group[g].pages, 1, len), at)

\* area_create() at the span that was located.
area_create(s, a, size, at, physmap) ==
    LET pages == IF physmap THEN [i \in 1 .. size |-> Dev] ELSE got(s, size)
        group == [refcount |-> 0, physmap |-> physmap, pages |-> pages]
        g == nextgroup(s)
    IN  attach([getpage(s, IF physmap THEN 0 ELSE size) EXCEPT !.group[g] = group],
               a, g, at, size)

area_clone(s, a, id, at) == attach(s, a, s.area[id].pg, at, s.area[id].length)

\* Mutant: the pages are released with every area of the group.
area_destroy_shared(s, a, id) ==
    LET ar == s.area[id]
        pg == s.group[ar.pg]
        s1 == [aspace_clr(s, a, ar.virt, ar.length)
                 EXCEPT !.areas[a] = RemoveFirst(@, id),
                        !.area[id] = NoArea,
                        !.group[ar.pg] = IF pg.refcount = 1 THEN NoGroup
                                         ELSE [@ EXCEPT !.refcount = pg.refcount - 1]]
    IN  IF id \notin Range(s.areas[a]) THEN s
        ELSE IF pg.physmap THEN s1 ELSE putpage(s1, pg.pages)

\* Mutant: the page group does not lose a reference.
area_destroy_no_deref(s, a, id) ==
    IF id \notin Range(s.areas[a]) THEN s
    ELSE [aspace_clr(s, a, s.area[id].virt, s.area[id].length)
            EXCEPT !.areas[a] = RemoveFirst(@, id), !.area[id] = NoArea]

area_destroy(s, a, id) ==
    LET ar == s.area[id]
        pg == s.group[ar.pg]
        s1 == [aspace_clr(s, a, ar.virt, ar.length)
                 EXCEPT !.areas[a] = RemoveFirst(@, id),
                        !.area[id] = NoArea,
                        !.group[ar.pg] = IF pg.refcount = 1 THEN NoGroup
                                         ELSE [@ EXCEPT !.refcount = pg.refcount - 1]]
    IN  IF id \notin Range(s.areas[a]) THEN s
        ELSE IF pg.refcount > 1 \/ pg.physmap THEN s1 ELSE putpage(s1, pg.pages)

\* Mutant: the length of the area stays what it was.
area_resize_length(s, a, id, add) ==
    LET ps == s.group[s.area[id].pg].pages
    IN  aspace_map([getpage(s, add) EXCEPT !.group[s.area[id].pg].pages = ps \o got(s, add)],
                   a, got(s, add), s.area[id].virt + Len(ps))

\* area_resize() by add pages, at the end of the area.
area_resize(s, a, id, add) ==
    LET ar == s.area[id]
        ps == s.group[ar.pg].pages
    IN  aspace_map([getpage(s, add) EXCEPT !.group[ar.pg].pages = ps \o got(s, add),
                                           !.area[id].length = @ + add],
                   a, got(s, add), ar.virt + Len(ps))

aspace_destroy(s, a) ==
    LET s1 == FoldLeft(LAMBDA u, id : area_destroy(u, a, id), s, s.areas[a])
        s2 == kfreepage(kfreepage(s1, s.dir[a][1]), s.dir[a][2])
    IN  [s2 EXCEPT !.dir[a] = NoDir, !.heap[a] = 0]

-----------------------------------------------------------------------------
(* Threads and programs *)

ThreadsOf(a) == {t \in threads : t.team = a}
Live(a) == ThreadsOf(a) # {}

\* The highest free page of the table, or 0.
stack_page(tab) == Max({0} \cup {v \in 1 .. Top : tab[v] = 0})

\* A thread of a that is not in _execve() may make a system call.
Calls(a) == halt = "no" /\ Cardinality(ThreadsOf(a)) > IF exec[a].pc = "idle" THEN 0 ELSE 1

\* A thread of a is at this place of _execve().
InExec(a, pc) == halt = "no" /\ Live(a) /\ exec[a].pc = pc

\* How a call ends that maps len pages from entry at on, with pages of physical
\* memory for itself and more for addrs kernel addresses.
Outcome(at, len, pages, addrs) ==
    IF OutOfPages(vm, pages + addrs) \/ OutOfAddresses(vm, addrs) THEN "panic"
    ELSE IF at + len - 1 > Top THEN "overrun"
    ELSE "no"

\* area_create() as a system call.  A call that fails changes nothing and is left
\* out, here and below.
AreaCreate(a, size, physmap) ==
    LET at == locate_span(vm.ptab[a], 0, size) IN
    /\ Calls(a) /\ FreeIds(vm) # {} /\ Cardinality(mine[a]) < MaxMine
    /\ at # 0
    /\ halt' = Outcome(at, size, IF physmap THEN 0 ELSE size, 0)
    /\ IF halt' = "no"
       THEN /\ vm' = area_create(vm, a, size, at, physmap)
            /\ mine' = [mine EXCEPT ![a] = @ \cup {nextid(vm)}]
       ELSE UNCHANGED <<vm, mine>>
    /\ UNCHANGED <<threads, exec>>

\* area_clone(), of any id the program was told.
AreaClone(a, id) ==
    LET at == locate_span(vm.ptab[a], 0, vm.area[id].length) IN
    /\ Calls(a) /\ FreeIds(vm) # {} /\ Cardinality(mine[a]) < MaxMine
    /\ vm.area[id].pg # 0 /\ at # 0
    /\ halt' = Outcome(at, vm.area[id].length, 0, 0)
    /\ IF halt' = "no"
       THEN /\ vm' = area_clone(vm, a, id, at)
            /\ mine' = [mine EXCEPT ![a] = @ \cup {nextid(vm)}]
       ELSE UNCHANGED <<vm, mine>>
    /\ UNCHANGED <<threads, exec>>

\* area_destroy(), of an area that the program created.
AreaDestroy(a, id) ==
    /\ Calls(a) /\ id \in mine[a]
    /\ vm' = area_destroy(vm, a, id)
    /\ mine' = [mine EXCEPT ![a] = @ \ {id}]
    /\ UNCHANGED <<threads, exec, halt>>

\* The pages brk() asks for.  It subtracts the page number of the area from an
\* address.
brk_pages(virt, page, off) == 1 + (page * 4096 + off - virt) \div 4096

\* brk() of the address at offset off of a page.
brk(a, page, off) ==
    LET id == vm.heap[a]
        ar == vm.area[id]
        size == Len(vm.group[ar.pg].pages)
        add == brk_pages(ar.virt, page, off) - size
    IN  /\ Calls(a) /\ id # 0
        /\ add > 0
        /\ locate_span(vm.ptab[a], ar.virt + size, add) = ar.virt + size
        /\ halt' = Outcome(ar.virt + size, add, add, 0)
        /\ vm' = IF halt' = "no" THEN area_resize(vm, a, id, add) ELSE vm
        /\ UNCHANGED <<threads, mine, exec>>

\* new_thread(), on the highest page that is free.
new_thread(a) ==
    LET at == stack_page(vm.ptab[a])
        s1 == IF at = 0 THEN vm ELSE area_create(vm, a, 1, at, FALSE)
        t == [team |-> a, kstack |-> kvaddr(s1), stack |-> IF at = 0 THEN 0 ELSE nextid(vm)]
    IN  /\ Calls(a) /\ FreeIds(vm) # {}
        /\ Cardinality(ThreadsOf(a)) < MaxThreads
        /\ halt' = Outcome(at, 1, IF at = 0 THEN 0 ELSE 1, 1)
        /\ IF halt' = "no"
           THEN vm' = kgetpage(s1) /\ threads' = threads \cup {t}
           ELSE UNCHANGED <<vm, threads>>
        /\ UNCHANGED <<mine, exec>>

\* terminate() and, later, task_destroy(): the thread's stacks go, and with the last
\* thread the team.
task_destroy(t) ==
    LET a == t.team
        s1 == IF t.stack = 0 THEN vm ELSE area_destroy(vm, a, t.stack)
        s2 == kfreepage(s1, t.kstack)
        last == ThreadsOf(a) = {t}
    IN  /\ halt = "no"
        /\ exec[a].pc \in {"idle", "fault"} \/ ~last
        /\ threads' = threads \ {t}
        /\ vm' = IF last THEN aspace_destroy(s2, a) ELSE s2
        /\ mine' = IF last THEN [mine EXCEPT ![a] = {}] ELSE mine
        /\ exec' = IF exec[a].pc = "fault" THEN [exec EXCEPT ![a] = NotInExec] ELSE exec
        /\ UNCHANGED halt

-----------------------------------------------------------------------------
(* _execve(): an area for the image, one for the stack, and a team that gets *)
(* clones of both                                                            *)

\* The area for the image, and, when that is loaded, the one for the stack.  The
\* result is not checked: without an area the program faults.
exec_area(a, pc, next, size) ==
    LET at == locate_span(vm.ptab[a], 0, size) IN
    /\ InExec(a, pc) /\ FreeIds(vm) # {}
    /\ IF at = 0
       THEN /\ exec' = [exec EXCEPT ![a].pc = "fault"]
            /\ UNCHANGED <<vm, halt>>
       ELSE /\ halt' = Outcome(at, size, size, 0)
            /\ IF halt' = "no"
               THEN /\ vm' = area_create(vm, a, size, at, FALSE)
                    /\ exec' = IF next = "image"
                               THEN [exec EXCEPT ![a] = [pc |-> next, area |-> nextid(vm), sarea |-> 0]]
                               ELSE [exec EXCEPT ![a].pc = next, ![a].sarea = nextid(vm)]
               ELSE UNCHANGED <<vm, exec>>
    /\ UNCHANGED <<threads, mine>>

\* The file is no program.
exec_fail(a) ==
    /\ InExec(a, "image")
    /\ vm' = area_destroy(vm, a, exec[a].area)
    /\ exec' = [exec EXCEPT ![a] = NotInExec]
    /\ UNCHANGED <<threads, mine, halt>>

\* thr_spawn(): a team with a thread, the image as its heap from page 1 on, and the
\* stack on the last page.
thr_spawn(a, c) ==
    LET s1 == aspace_create(vm, c)
        s2 == kgetpage(s1)
        s3 == [area_clone(s2, c, exec[a].area, 1) EXCEPT !.heap[c] = nextid(s2)]
    IN  /\ InExec(a, "loaded")
        /\ vm.dir[c] = NoDir /\ Cardinality(FreeIds(vm)) > 1
        /\ halt' = Outcome(1, 1, 0, 3)
        /\ IF halt' = "no"
           THEN /\ vm' = area_clone(s3, c, exec[a].sarea, Top)
                /\ threads' = threads \cup {[team |-> c, kstack |-> kvaddr(s1), stack |-> 0]}
                /\ exec' = [exec EXCEPT ![a].pc = "spawned"]
           ELSE UNCHANGED <<vm, threads, exec>>
        /\ UNCHANGED mine

\* The parent gives up its two areas, one after the other.
exec_clean(a) ==
    /\ InExec(a, "spawned") \/ InExec(a, "clean")
    /\ IF exec[a].pc = "spawned"
       THEN /\ vm' = area_destroy(vm, a, exec[a].area)
            /\ exec' = [exec EXCEPT ![a].pc = "clean"]
       ELSE /\ vm' = area_destroy(vm, a, exec[a].sarea)
            /\ exec' = [exec EXCEPT ![a] = NotInExec]
    /\ UNCHANGED <<threads, mine, halt>>

-----------------------------------------------------------------------------
\* memory_init(), then go_kernel(): a team with a thread whose stack is on the last
\* page, a page of the boot image and a page of heap.
VmInit ==
    LET s0 == [free |-> [p \in Page |-> p],
               high |-> [v \in 0 .. KPages |-> 0],
               freev |-> << >>,
               nextmem |-> KPages,
               dir |-> [a \in Aspace |-> NoDir],
               ptab |-> [a \in Aspace |-> [v \in 0 .. Top |-> 0]],
               areas |-> [a \in Aspace |-> << >>],
               heap |-> [a \in Aspace |-> 0],
               area |-> [i \in AreaId |-> NoArea],
               group |-> [g \in AreaId |-> NoGroup]]
        s1 == area_create(aspace_create(s0, Boot), Boot, 1, Top, FALSE)
        s2 == area_create(kgetpage(s1), Boot, 1, 1, TRUE)
    IN  /\ vm = [area_create(s2, Boot, 1, 2, FALSE) EXCEPT !.heap[Boot] = nextid(s2)]
        /\ threads = {[team |-> Boot, kstack |-> kvaddr(s1), stack |-> Min(AreaId)]}
        /\ mine = [a \in Aspace |-> {}]
        /\ exec = [a \in Aspace |-> NotInExec]
        /\ halt = "no"

VmNext ==
    \/ \E a \in Aspace :
        \/ \E size \in Sizes, physmap \in BOOLEAN : AreaCreate(a, size, physmap)
        \/ \E id \in AreaId : AreaClone(a, id) \/ AreaDestroy(a, id)
        \/ \E page \in 1 .. Top, off \in {0, 4095} : brk(a, page, off)
        \/ new_thread(a)
        \/ \E size \in Sizes : exec_area(a, "idle", "image", size)
        \/ exec_area(a, "image", "loaded", 1)
        \/ exec_fail(a)
        \/ \E c \in Aspace : thr_spawn(a, c)
        \/ exec_clean(a)
    \/ \E t \in threads : task_destroy(t)

VmSpec == VmInit /\ [][VmNext]_vmVars

-----------------------------------------------------------------------------
(* Properties *)

\* Every page is on the free list or in use, and by one holder only: none is freed
\* twice, handed out twice or lost.
PagesOwnedOnce ==
    LET all == FlattenSeq(<<vm.free>> \o [g \in 1 .. Cardinality(AreaId) |->
                  SelectSeq(vm.group[g].pages, LAMBDA p : p # Dev)])
               \o SelectSeq([v \in 1 .. KPages + 1 |-> vm.high[v - 1]], LAMBDA p : p # 0)
    IN  Range(all) = Page /\ Len(all) = Cardinality(Page)

\* The page that the areas of a say is at entry v.
Mapped(a, v) ==
    {vm.group[vm.area[i].pg].pages[v - vm.area[i].virt + 1] :
        i \in {j \in Range(vm.areas[a]) : v \in vm.area[j].virt .. vm.area[j].virt + vm.area[j].length - 1}}

\* A page table says what the areas of its address space say: no page that was
\* freed is still mapped, and no two areas overlap.
MapsExact ==
    \A a \in {b \in Aspace : vm.dir[b] # NoDir} : \A v \in 0 .. Top :
        IF vm.ptab[a][v] = 0 THEN Mapped(a, v) = {} ELSE Mapped(a, v) = {vm.ptab[a][v]}

\* The reference count of a page group is the number of areas on it, and each area
\* is on the list of one address space.
GroupRefcount ==
    /\ VmTypeOK
    /\ \A i \in AreaId :
        vm.area[i].pg # 0 <=> Cardinality({a \in Aspace : i \in Range(vm.areas[a])}) = 1
    /\ \A g \in AreaId :
        vm.group[g].refcount = Cardinality({i \in AreaId : vm.area[i].pg = g})

\* The kernel addresses in use are those of the tables of live address spaces and of
\* the kernel stacks, each held once and mapped; the others are free, once each, so
\* kfreepage() never meets an address that is unmapped, nor kgetpage() one that is
\* not.
KernelMapsOK ==
    LET held == {t.kstack : t \in threads}
                  \cup UNION {Range(vm.dir[a]) : a \in Aspace}
        dirs == {a \in Aspace : vm.dir[a] # NoDir}
    IN  /\ Cardinality(held) = Cardinality(threads) + 2 * Cardinality(dirs)
        /\ held = {v \in 0 .. KPages : vm.high[v] # 0}
        /\ IsInjective(vm.freev)
        /\ Range(vm.freev) = (vm.nextmem .. KPages - 1) \ held

\* While a stack holds the last page, locate_span() finds what there is: a span it
\* returns is free and inside of the table, and without one there is none.
SpanIsRight ==
    \A a \in {b \in Aspace : vm.dir[b] # NoDir /\ vm.ptab[b][Top] # 0} :
    \A start \in 0 .. Top, len \in 1 .. Top :
        LET tab == vm.ptab[a]
            at == locate_span(tab, start, len)
            FreeSpan(v) == v + len - 1 <= Top /\ \A w \in v .. v + len - 1 : tab[w] = 0
        IN  IF at = 0 THEN \A v \in span_start(start) .. Top : ~FreeSpan(v)
            ELSE at >= span_start(start) /\ FreeSpan(at)
=============================================================================
