------------------------------ MODULE Processes ------------------------------
(***************************************************************************)
(* The life of a process object: the two constructors with every failure   *)
(* path, the loading of its code, heap growth, graphics ownership, and     *)
(* destruction by the kernel or by the reaper.                             *)
(*                                                                         *)
(* The scheduler's variables and table operations are those of Scheduler;  *)
(* this module adds the resources a process owns and shows that its steps  *)
(* are steps of Scheduler.  A constructor runs with interrupts masked, so  *)
(* it is one action, but it is modelled step by step: each routine maps a  *)
(* construction c = [ok, res, o] (did it succeed, the kernel's pools, the  *)
(* object) to the next one.                                                *)
(***************************************************************************)
EXTENDS Scheduler, AddressSpace

CONSTANTS
    Pools,              \* pool sizes to start from, and the descriptors that
                        \* the drivers' call gates have taken
    V86_PRIVATE_PAGES,  \* private pages of a VM86 task (160)
    USER_HEAP_PAGES     \* USER_HEAP_MAX_SIZE in pages (1024)

ASSUME PoolsAssumption ==
    Pools \subseteq [heap : Nat, growth : Nat, frames : Nat, tables : Nat,
                     gates : SUBSET Selector]
ASSUME PagesAssumption == V86_PRIVATE_PAGES \in Nat /\ USER_HEAP_PAGES \in Nat \ {0}

VARIABLES
    pool,           \* what the pools held at boot
    res,            \* what they hold now, and the allocation bitmaps
    obj,            \* the fields of each process object
    process_table,  \* process_table
    active,         \* process_active_count
    graphics        \* owner_tss_selector and status of the graphics driver

pvars == <<pool, res, obj, process_table, active, graphics>>
allvars == <<vars, pvars>>

None == -1          \* 0FFFFFFFFh in PROC_SLOT_INDEX and PROC_TABLE_INDEX

\* A zeroed object.  dir, ldt_base, ldt_bitmap, tss_base and kstack say
\* whether the pointer is set; tables and pages are the user page tables and
\* the pages marked PAGE_OWNED of its directory.
Blank ==
    [dir |-> FALSE, tables |-> {}, pages |-> {}, heap_current |-> USER_HEAP_BASE,
     ldt_base |-> FALSE, ldt_bitmap |-> FALSE, ldt_selector |-> 0,
     tss_base |-> FALSE, kstack |-> FALSE, tss_selector |-> 0,
     slot |-> None, index |-> None]

-----------------------------------------------------------------------------
(* The pools.                                                              *)

Fail(c) == [c EXCEPT !.ok = FALSE]

pmm_alloc_page(c) ==
    IF c.res.frames = 0 THEN Fail(c) ELSE [c EXCEPT !.res.frames = @ - 1]

pmm_free_page(c) == [c EXCEPT !.res.frames = @ + 1]

alloc_page_table(c) ==
    IF c.res.tables = 0 THEN Fail(c) ELSE [c EXCEPT !.res.tables = @ - 1]

free_page_table(c) == [c EXCEPT !.res.tables = @ + 1]

\* A block of the kernel heap.  With none free the heap grows by a frame,
\* which it keeps when the block is freed.
heap_alloc(c) ==
    IF c.res.heap > 0 THEN [c EXCEPT !.res.heap = @ - 1]
    ELSE IF c.res.frames > 0 /\ c.res.grown < pool.growth
    THEN [c EXCEPT !.res.frames = @ - 1, !.res.grown = @ + 1]
    ELSE Fail(c)

heap_free(c) == [c EXCEPT !.res.heap = @ + 1]

FreeSelectors(c) == Selector \ c.res.gdt

\* The lowest free descriptor of the GDT.
gdt_alloc_selector(c) ==
    IF FreeSelectors(c) = {} THEN Fail(c)
    ELSE [c EXCEPT !.res.gdt = @ \cup {Min(FreeSelectors(c))}]

gdt_free_selector(c, selector) == [c EXCEPT !.res.gdt = @ \ {selector}]

FreeSlots(c) == Index \ c.res.slots

process_slot_alloc(c) ==
    IF FreeSlots(c) = {} THEN Fail(c)
    ELSE LET slot == Min(FreeSlots(c))
         IN  [c EXCEPT !.res.slots = @ \cup {slot}, !.o.slot = slot]

\* Mutant: the slot's bit stays set.
slot_stays_taken(c, slot) == c

process_slot_free(c, slot) == [c EXCEPT !.res.slots = @ \ {slot}]

-----------------------------------------------------------------------------
(* Address spaces.                                                         *)

create_page_directory(c) ==
    LET a == alloc_page_table(c)
    IN  IF a.ok THEN [a EXCEPT !.o.dir = TRUE] ELSE a

\* Every owned page goes back to the PMM and its table to the pool, then the
\* directory.
destroy_page_directory(c) ==
    free_page_table([c EXCEPT !.res.frames = @ + Cardinality(c.o.pages),
                              !.res.tables = @ + Cardinality(c.o.tables),
                              !.o.pages = {}, !.o.tables = {}, !.o.dir = FALSE])

\* Entering an owned page; a page that was there before is overwritten.
map_user_page(c, page) ==
    LET a == IF pde(page) \in c.o.tables THEN c ELSE alloc_page_table(c)
    IN  IF ~user_mappable(page) THEN Fail(c)
        ELSE IF ~a.ok THEN a
        ELSE [a EXCEPT !.o.tables = @ \cup {pde(page)}, !.o.pages = @ \cup {page}]

\* The sequence used for every private page: allocate, fill through the
\* kernel's temporary window (its table exists since boot, so that cannot
\* fail), map, and free the frame if that fails.
map_owned_page(c, page) ==
    LET a == pmm_alloc_page(c)
        b == map_user_page(a, page)
    IN  IF ~a.ok THEN a ELSE IF ~b.ok THEN pmm_free_page(b) ELSE b

process_heap_grow(c) ==
    IF c.o.heap_current >= USER_HEAP_BASE + USER_HEAP_PAGES THEN Fail(c)
    ELSE LET a == map_owned_page(c, c.o.heap_current)
         IN  IF a.ok THEN [a EXCEPT !.o.heap_current = @ + 1] ELSE a

\* The pages from 0 up; the shared device and ROM pages that follow them use
\* the same page table and are not owned.
v86_map_low_memory(c) ==
    LET mapped[n \in 0 .. V86_PRIVATE_PAGES] ==
            IF n = 0 THEN c
            ELSE IF mapped[n - 1].ok THEN map_owned_page(mapped[n - 1], n - 1)
            ELSE mapped[n - 1]
    IN  mapped[V86_PRIVATE_PAGES]

\* The object, its directory, and fill(c), the first pages; a failure frees
\* the directory and the object.
memory_create(c, fill(_)) ==
    LET a == heap_alloc(c)
        b == create_page_directory(a)
        d == fill(b)
    IN  IF ~a.ok THEN a
        ELSE IF ~b.ok THEN heap_free(b)
        ELSE IF ~d.ok THEN heap_free(destroy_page_directory(d))
        ELSE d

process_memory_create(c) == memory_create(c, process_heap_grow)

v86_process_memory_create(c) == memory_create(c, v86_map_low_memory)

process_memory_destroy(c) == heap_free(destroy_page_directory(c))

-----------------------------------------------------------------------------
(* Descriptors.                                                            *)

gdt_create_ldt_descriptor(c) ==
    LET a == gdt_alloc_selector(c)
    IN  IF a.ok THEN [a EXCEPT !.o.ldt_selector = Min(FreeSelectors(c))] ELSE a

\* The LDT, its bitmap and its descriptor.  The three LDT selectors come from
\* a fresh bitmap of 512 and cannot run out.  A failure frees what was taken
\* but leaves the fields set.
process_create_random_ldt(c) ==
    LET a == heap_alloc(c)
        b == heap_alloc([a EXCEPT !.o.ldt_base = TRUE])
        d == gdt_create_ldt_descriptor([b EXCEPT !.o.ldt_bitmap = TRUE])
    IN  IF ~a.ok THEN a
        ELSE IF ~b.ok THEN heap_free(b)
        ELSE IF ~d.ok THEN heap_free(heap_free(d))
        ELSE d

gdt_create_tss_descriptor(c) ==
    LET a == gdt_alloc_selector(c)
    IN  IF a.ok THEN [a EXCEPT !.o.tss_selector = Min(FreeSelectors(c))] ELSE a

gdt_create_tss_descriptor_with_limit(c) == gdt_create_tss_descriptor(c)

\* The TSS, the ring-0 stack and describe(c), the descriptor.  A failure frees
\* what was taken and clears the fields.
create_tss(c, describe(_)) ==
    LET a == heap_alloc(c)
        b == heap_alloc(a)
        d == describe(b)
    IN  IF ~a.ok THEN a
        ELSE IF ~b.ok THEN heap_free(b)
        ELSE IF ~d.ok THEN heap_free(heap_free(d))
        ELSE [d EXCEPT !.o.tss_base = TRUE, !.o.kstack = TRUE]

process_create_tss(c) == create_tss(c, gdt_create_tss_descriptor)

v86_process_create_tss(c) == create_tss(c, gdt_create_tss_descriptor_with_limit)

process_install_syscall_gateway(c) == map_owned_page(c, USER_SYSCALL_GATEWAY_PAGE)

FreeEntries == {i \in Index : process_table[i] = NoProcess}

process_register(c) ==
    IF c.o.index # None \/ FreeEntries = {} THEN Fail(c)
    ELSE [c EXCEPT !.o.index = Min(FreeEntries)]

-----------------------------------------------------------------------------
(* Destruction: the resources of process_destroy.  What it does to the     *)
(* scheduler's table is Scheduler's process_destroy.                       *)

\* Mutant: the ring-0 stack is not freed.
destroy_keeps_stack(c) ==
    LET Drop(held, d, freed) == IF held THEN freed ELSE d
        d1 == Drop(c.o.tss_selector # 0, c, gdt_free_selector(c, c.o.tss_selector))
        d2 == Drop(c.o.tss_base, d1, heap_free(d1))
        d4 == Drop(c.o.ldt_selector # 0, d2, gdt_free_selector(d2, c.o.ldt_selector))
        d5 == Drop(c.o.ldt_bitmap, d4, heap_free(d4))
        d6 == Drop(c.o.ldt_base, d5, heap_free(d5))
        d7 == Drop(c.o.slot # None, d6, process_slot_free(d6, c.o.slot))
        d8 == Drop(c.o.dir, d7, destroy_page_directory(d7))
    IN  [heap_free(d8) EXCEPT !.o = Blank]

\* Each field that is set is released, then the object itself.
release_resources(c) ==
    LET Drop(held, d, freed) == IF held THEN freed ELSE d
        d1 == Drop(c.o.tss_selector # 0, c, gdt_free_selector(c, c.o.tss_selector))
        d2 == Drop(c.o.tss_base, d1, heap_free(d1))
        d3 == Drop(c.o.kstack, d2, heap_free(d2))
        d4 == Drop(c.o.ldt_selector # 0, d3, gdt_free_selector(d3, c.o.ldt_selector))
        d5 == Drop(c.o.ldt_bitmap, d4, heap_free(d4))
        d6 == Drop(c.o.ldt_base, d5, heap_free(d5))
        d7 == Drop(c.o.slot # None, d6, process_slot_free(d6, c.o.slot))
        d8 == Drop(c.o.dir, d7, destroy_page_directory(d7))
    IN  [heap_free(d8) EXCEPT !.o = Blank]

\* The protected-mode constructor.  Until it has an LDT the object is taken
\* back piece by piece, afterwards by process_destroy.
process_create_protected32(c) ==
    LET a == process_memory_create(c)
        b == process_slot_alloc(a)
        d == process_create_random_ldt(b)
        e == process_create_tss(d)
        f == process_install_syscall_gateway(e)
        g == process_register(f)
    IN  IF ~a.ok THEN a
        ELSE IF ~b.ok THEN process_memory_destroy(b)
        ELSE IF ~d.ok THEN process_memory_destroy(process_slot_free(d, d.o.slot))
        ELSE IF ~e.ok THEN release_resources(e)
        ELSE IF ~f.ok THEN release_resources(f)
        ELSE IF ~g.ok THEN release_resources(g)
        ELSE IF ~scheduler_add_process(sched, g.o.tss_selector).ok
        THEN Fail(release_resources(g))
        ELSE g

v86_process_create(c) ==
    LET a == v86_process_memory_create(c)
        b == v86_process_create_tss(a)
        d == process_register(b)
    IN  IF ~a.ok THEN a
        ELSE IF ~b.ok THEN release_resources(b)
        ELSE IF ~d.ok THEN release_resources(d)
        ELSE IF ~scheduler_add_process(sched, d.o.tss_selector).ok
        THEN Fail(release_resources(d))
        ELSE d

\* The page of the entry point, then the first stack page.  A failure at the
\* second leaves the first mapped: the caller destroys the process.
process_prepare_test_task(c) ==
    LET a == map_owned_page(c, code_page(c.o.slot))
    IN  IF a.ok THEN map_owned_page(a, stack_page(c.o.slot)) ELSE a

-----------------------------------------------------------------------------
(* The actions.                                                            *)

Construction(o) == [ok |-> TRUE, res |-> res, o |-> o]

\* The kernel after kernel_main has set up the drivers.
PInit ==
    /\ Init
    /\ pool \in Pools
    /\ res = [heap |-> pool.heap, grown |-> 0, frames |-> pool.frames,
              tables |-> pool.tables, gdt |-> pool.gates, slots |-> {}]
    /\ obj = [p \in Process |-> Blank]
    /\ process_table = [i \in Index |-> NoProcess]
    /\ active = 0
    /\ graphics = [owner |-> 0, status |-> "ready"]

\* Mutant: the constructor returns a process it has not made runnable.
create_without_scheduling(p, type) ==
    LET c == IF type = PROTECTED32 THEN process_create_protected32(Construction(Blank))
                                   ELSE v86_process_create(Construction(Blank))
    IN  /\ Running
        /\ tr = KERNEL_TSS
        /\ p \notin live
        /\ c.ok
        /\ res' = c.res
        /\ live' = live \cup {p}
        /\ tss' = [tss EXCEPT ![p] = c.o.tss_selector]
        /\ ptype' = [ptype EXCEPT ![p] = type]
        /\ obj' = [obj EXCEPT ![p] = c.o]
        /\ process_table' = [process_table EXCEPT ![c.o.index] = p]
        /\ active' = active + 1
        /\ UNCHANGED <<sched, reap_process, tr, machine, pool, graphics>>

\* The object's address is that of the first block heap_alloc hands out.
kernel_process_create(p, type) ==
    LET c == IF type = PROTECTED32 THEN process_create_protected32(Construction(Blank))
                                   ELSE v86_process_create(Construction(Blank))
    IN  /\ Running
        /\ tr = KERNEL_TSS
        /\ p \notin live
        /\ res' = c.res
        /\ IF c.ok
           THEN /\ sched' = scheduler_add_process(sched, c.o.tss_selector).s
                /\ live' = live \cup {p}
                /\ tss' = [tss EXCEPT ![p] = c.o.tss_selector]
                /\ ptype' = [ptype EXCEPT ![p] = type]
                /\ obj' = [obj EXCEPT ![p] = c.o]
                /\ process_table' = [process_table EXCEPT ![c.o.index] = p]
                /\ active' = active + 1
           ELSE UNCHANGED <<sched, live, tss, ptype, obj, process_table, active>>
        /\ UNCHANGED <<reap_process, tr, machine, pool, graphics>>

\* The kernel loads a process's code and stack, once.  TSS_CS of a VM86 task
\* is no LDT selector, so the call fails for it.
kernel_process_prepare(p) ==
    LET c == process_prepare_test_task(Construction(obj[p]))
    IN  /\ Running
        /\ tr = KERNEL_TSS
        /\ p \in live \ {reap_process}
        /\ ptype[p] = PROTECTED32
        /\ code_page(obj[p].slot) \notin obj[p].pages
        /\ res' = c.res
        /\ obj' = [obj EXCEPT ![p] = c.o]
        /\ UNCHANGED <<vars, pool, process_table, active, graphics>>

\* PROC_HEAP_CURRENT and PROC_HEAP_LIMIT of a VM86 task are both 0, so the
\* call fails for it.
kernel_process_heap_grow(p) ==
    LET c == process_heap_grow(Construction(obj[p]))
    IN  /\ Running
        /\ tr = KERNEL_TSS
        /\ p \in live \ {reap_process}
        /\ ptype[p] = PROTECTED32
        /\ res' = c.res
        /\ obj' = [obj EXCEPT ![p] = c.o]
        /\ UNCHANGED <<vars, pool, process_table, active, graphics>>

intel915_claim_desktop(p) ==
    /\ Running
    /\ tr = KERNEL_TSS
    /\ p \in live \ {reap_process}
    /\ graphics.status = "ready"
    /\ graphics.owner = 0
    /\ graphics' = [graphics EXCEPT !.owner = tss[p]]
    /\ UNCHANGED <<vars, pool, res, obj, process_table, active>>

\* The owner's request to draw: the GPU answers or the driver gives up.
intel915_driver_service ==
    /\ Running
    /\ tr = graphics.owner
    /\ graphics.status = "ready"
    /\ \E status \in {"drawn", "failed"} : graphics' = [graphics EXCEPT !.status = status]
    /\ UNCHANGED <<vars, pool, res, obj, process_table, active>>

\* Mutant: ownership is not revoked.
owner_not_revoked(p) == graphics

graphics_release_process(p) ==
    IF tss[p] # 0 /\ tss[p] = graphics.owner
    THEN [graphics EXCEPT !.owner = 0] ELSE graphics

process_unregister(p) ==
    IF obj[p].index \in Index /\ process_table[obj[p].index] = p
    THEN [table |-> [process_table EXCEPT ![obj[p].index] = NoProcess],
          count |-> IF active = 0 THEN 0 ELSE active - 1]
    ELSE [table |-> process_table, count |-> active]

\* The rest of process_destroy, for the process it is called on, if any.
Dispose(freed) ==
    /\ \/ /\ freed = {}
          /\ UNCHANGED <<res, obj, process_table, active, graphics>>
       \/ \E p \in freed :
             /\ process_table' = process_unregister(p).table
             /\ active' = process_unregister(p).count
             /\ graphics' = graphics_release_process(p)
             /\ res' = release_resources(Construction(obj[p])).res
             /\ obj' = [obj EXCEPT ![p] = Blank]
    /\ UNCHANGED pool

PNext ==
    \/ \E p \in Process, type \in {PROTECTED32, V86} : kernel_process_create(p, type)
    \/ \E p \in Process : kernel_process_prepare(p)
    \/ \E p \in Process : kernel_process_heap_grow(p)
    \/ \E p \in Process : intel915_claim_desktop(p)
    \/ intel915_driver_service
    \/ \E p \in Process : kernel_process_destroy(p) /\ Dispose(process_destroy(p).freed)
    \/ int20_handler /\ Dispose(scheduler_reap_terminated.freed)
    \/ exception_terminate_current /\ Dispose(scheduler_reap_terminated.freed)
    \/ kernel_exception_panic /\ UNCHANGED pvars

PSpec == PInit /\ [][PNext]_allvars

-----------------------------------------------------------------------------
(* Properties.                                                             *)

\* Blocks of the kernel heap an object stands for, its own included.
HeapBlocks(p) ==
    1 + Cardinality({f \in {"ldt_base", "ldt_bitmap", "tss_base", "kstack"} : obj[p][f]})

\* At every moment each heap block, frame and page-table page of the boot-time
\* pools is either free or owned by exactly one allocated process (or, for a
\* frame, built into the kernel heap): no failing constructor, partial load,
\* destruction or reaping loses one or returns one twice.
NothingLeaks ==
    /\ res.heap + MapThenSumSet(HeapBlocks, live) = pool.heap + res.grown
    /\ LET Frames(p) == Cardinality(obj[p].pages)
       IN  res.frames + res.grown + MapThenSumSet(Frames, live) = pool.frames
    /\ LET Tables(p) == Cardinality(obj[p].tables) + 1
       IN  res.tables + MapThenSumSet(Tables, live) = pool.tables

SelectorsOf(p) == {obj[p].ldt_selector, obj[p].tss_selector} \ {0}

\* The GDT and slot bitmaps hold exactly what the allocated processes hold,
\* and no two of them hold the same: neither an LDT and a TSS descriptor, nor
\* the ring-1 and ring-2 stacks that go with a slot, are ever shared.
\* process_table lists every allocated process once, at the index it
\* remembers, and process_active_count is their number.
TablesAreExact ==
    /\ res.gdt = pool.gates \cup UNION {SelectorsOf(p) : p \in live}
    /\ res.slots = {obj[p].slot : p \in live} \ {None}
    /\ \A p \in live : SelectorsOf(p) \cap pool.gates = {}
    /\ \A p, q \in live : p # q =>
           /\ SelectorsOf(p) \cap SelectorsOf(q) = {}
           /\ obj[p].slot = obj[q].slot => obj[p].slot = None
    /\ \A p \in live : process_table[obj[p].index] = p
    /\ \A i \in Index : process_table[i] # NoProcess =>
           process_table[i] \in live /\ obj[process_table[i]].index = i
    /\ active = Cardinality(live)

\* What graphics_release_process promises: ownership is revoked before the
\* TSS selector can be recycled, so a new process never starts out owning
\* the screen through the selector of a dead one.
GraphicsNotInherited ==
    [][\A p \in live' \ live : graphics'.owner # tss'[p]]_allvars

\* Every step here is a step of Scheduler or leaves its variables alone: the
\* failure paths that pass through process_destroy never disturb the table,
\* and the selector a constructor hands over is a fresh one.
ImplementsScheduler == Spec

=============================================================================
