----------------------------- MODULE KernelHeap -----------------------------
(***************************************************************************)
(* The kernel heap: a list of blocks in address order, first fit, splitting*)
(* on allocation, merging on release, growth by whole pages.               *)
(*                                                                         *)
(* Addresses and sizes are in the allocator's unit of 8 bytes and relative *)
(* to KHEAP_BASE.  The list is a sequence of headers [addr, size, used];   *)
(* the next pointer of a header is the address of its successor.           *)
(*                                                                         *)
(* An allocation runs to its end before the kernel does anything else; its *)
(* steps are the scan, one per page by which the heap grows, and the scan  *)
(* that follows.                                                           *)
(***************************************************************************)
EXTENDS Pmm, Sequences

CONSTANTS
    PAGE_SIZE,          \* units in a page (512)
    KHEAP_MAX_PAGES,    \* pages the heap may grow to (1024)
    Load                \* sizes: what callers of the heap ask for, rounded up to the
                        \* unit; pages: bound on the frames that others hold

HEAP_HDR_SIZE  == 2
HEAP_MIN_SPLIT == 3

ASSUME HeapAssumption ==
    /\ PAGE_SIZE \in Nat /\ PAGE_SIZE > HEAP_HDR_SIZE
    /\ KHEAP_MAX_PAGES \in Nat \ {0}
    /\ Load \subseteq [sizes : SUBSET (Nat \ {0}), pages : Nat]
    /\ Ram \ Reserved # {}

VARIABLES
    load,               \* what is asked of the memory
    list,               \* the blocks from heap_head on
    heap_committed,     \* end of the mapped part
    mapped,             \* the frames mapped there
    allocated,          \* what callers hold: [ptr, size] of each allocation
    heap                \* the allocation under way: op, size, pages to add

pmm == <<used, pmm_next_page, eax, held>>
area == <<load, list, heap_committed, mapped, allocated>>

Idle == [op |-> "none", size |-> 0, pages |-> 0]

Block(addr, size, taken) == [addr |-> addr, size |-> size, used |-> taken]

\* The first address past a block, where a contiguous successor begins.
End(b) == b.addr + HEAP_HDR_SIZE + b.size

-----------------------------------------------------------------------------
\* Mutant: the sizes are added without the header that disappears.
merge_loses_header(done, b) ==
    LET n == Len(done)
    IN  IF n > 0 /\ ~done[n].used /\ ~b.used /\ End(done[n]) = b.addr
        THEN [done EXCEPT ![n].size = @ + b.size]
        ELSE Append(done, b)

\* A free block swallows a free block that follows it.
merge(done, b) ==
    LET n == Len(done)
    IN  IF n > 0 /\ ~done[n].used /\ ~b.used /\ End(done[n]) = b.addr
        THEN [done EXCEPT ![n].size = @ + HEAP_HDR_SIZE + b.size]
        ELSE Append(done, b)

\* The walk over the list; done[i] is what the first i blocks become.
heap_coalesce(blocks) ==
    LET done[i \in 0 .. Len(blocks)] == IF i = 0 THEN <<>> ELSE merge(done[i - 1], blocks[i])
    IN  done[Len(blocks)]

\* The free blocks that are large enough.
Fits(size) == {i \in DOMAIN list : ~list[i].used /\ list[i].size >= size}

\* The first block that is large enough is used whole, or split when the rest
\* can hold a header and a unit.
take_first_fit(size) ==
    LET i    == Min(Fits(size))
        b    == list[i]
        rest == b.size - size
    IN  /\ list' = IF rest < HEAP_MIN_SPLIT
                   THEN [list EXCEPT ![i].used = TRUE]
                   ELSE SubSeq(list, 1, i - 1)
                            \o <<Block(b.addr, size, TRUE),
                                 Block(b.addr + HEAP_HDR_SIZE + size, rest - HEAP_HDR_SIZE, FALSE)>>
                            \o SubSeq(list, i + 1, Len(list))
        /\ allocated' = allocated \cup {[ptr |-> b.addr + HEAP_HDR_SIZE, size |-> size]}
        /\ heap' = Idle
        /\ UNCHANGED <<pmm, load, heap_committed, mapped>>

\* Mutant: the header is not counted when the pages are.
pages_without_header(size) == (size + PAGE_SIZE - 1) \div PAGE_SIZE

pages_needed(size) == (size + HEAP_HDR_SIZE + PAGE_SIZE - 1) \div PAGE_SIZE

\* A scan; if nothing fits, enough pages for the request are to be added.
scan(size) ==
    IF Fits(size) # {} THEN take_first_fit(size)
    ELSE /\ heap' = [op |-> "grow", size |-> size, pages |-> pages_needed(size)]
         /\ UNCHANGED <<pmm, area>>

heap_alloc(size) == heap.op = "none" /\ scan(size)

retry_scan == heap.op = "retry" /\ scan(heap.size)

\* The request fails; pages added before stay in the heap.
grow_fails == heap' = Idle /\ UNCHANGED area

grown == heap_coalesce(Append(list, Block(heap_committed, PAGE_SIZE - HEAP_HDR_SIZE, FALSE)))

add_page ==
    /\ list' = grown
    /\ heap_committed' = heap_committed + PAGE_SIZE
    /\ mapped' = mapped \cup {eax'}
    /\ UNCHANGED <<load, allocated>>

\* heap_grow_pages calls it for one page after the other.  map_page does not
\* fail: heap_init has made the page table of the heap's whole range.
heap_grow_one_page ==
    /\ heap.op = "grow"
    /\ \/ /\ heap_committed >= KHEAP_MAX_PAGES * PAGE_SIZE
          /\ grow_fails /\ UNCHANGED pmm
       \/ /\ heap_committed < KHEAP_MAX_PAGES * PAGE_SIZE
          /\ pmm_alloc_page
          /\ \/ eax' = 0 /\ grow_fails
             \/ /\ eax' # 0
                /\ add_page
                /\ heap' = [heap EXCEPT !.pages = @ - 1,
                                        !.op = IF heap.pages = 1 THEN "retry" ELSE "grow"]

heap_free(a) ==
    /\ heap.op = "none"
    /\ list' = heap_coalesce([i \in DOMAIN list |->
                   IF list[i].addr = a.ptr - HEAP_HDR_SIZE
                   THEN [list[i] EXCEPT !.used = FALSE] ELSE list[i]])
    /\ allocated' = allocated \ {a}
    /\ UNCHANGED <<pmm, load, heap_committed, mapped, heap>>

HInit ==
    /\ Init
    /\ load \in Load
    /\ list = <<>> /\ heap_committed = 0 /\ mapped = {} /\ allocated = {}
    /\ heap = [Idle EXCEPT !.op = "init"]

\* An empty list, then one page.
heap_init ==
    /\ heap.op = "init"
    /\ pmm_alloc_page /\ add_page
    /\ heap' = Idle

heap_step ==
    \/ heap_init
    \/ \E size \in load.sizes : heap_alloc(size)
    \/ retry_scan
    \/ heap_grow_one_page
    \/ \E a \in allocated : heap_free(a)

-----------------------------------------------------------------------------

\* The kernel's own check of its heap, run at boot around a trial allocation.
heap_validate ==
    \A i \in DOMAIN list :
        /\ list[i].addr >= 0 /\ list[i].addr < heap_committed
        /\ list[i].size # 0
        /\ End(list[i]) <= heap_committed
        /\ i < Len(list) =>
               /\ list[i + 1].addr > list[i].addr
               /\ list[i + 1].addr <= heap_committed
               /\ ~(~list[i].used /\ ~list[i + 1].used /\ End(list[i]) = list[i + 1].addr)

\* After any sequence of splits, merges and growth heap_validate accepts the
\* heap; the blocks cover the mapped pages without gap or overlap, so that no
\* unit of memory is lost; and the used ones are exactly what callers hold,
\* each with room for what was asked.
HeapIsExact ==
    /\ heap_validate
    /\ list # <<>> => list[1].addr = 0 /\ End(list[Len(list)]) = heap_committed
    /\ \A i \in 1 .. Len(list) - 1 : End(list[i]) = list[i + 1].addr
    /\ heap_committed <= KHEAP_MAX_PAGES * PAGE_SIZE
    /\ {list[i].addr + HEAP_HDR_SIZE : i \in {j \in DOMAIN list : list[j].used}}
           = {a.ptr : a \in allocated}
    /\ \A a \in allocated : \E i \in DOMAIN list :
           list[i].addr + HEAP_HDR_SIZE = a.ptr /\ list[i].size >= a.size
    /\ \A a, b \in allocated : a.ptr = b.ptr => a = b

\* After it has grown the heap, heap_alloc finds a block that fits: its retry
\* loop goes round once and never consumes memory page after page.
RetrySucceeds == heap.op = "retry" => Fits(heap.size) # {}

=============================================================================
