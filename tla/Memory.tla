------------------------------- MODULE Memory -------------------------------
(***************************************************************************)
(* Everybody who takes page frames from the physical memory manager: the   *)
(* heap, whose frames stay; the graphics driver, which once looks for four *)
(* consecutive ones; and all others, who take one frame and give it back.  *)
(***************************************************************************)
EXTENDS KernelHeap, Functions

CONSTANT CURSOR_PAGES       \* frames the search for the cursor takes at most (64)

ASSUME CursorAssumption == CURSOR_PAGES \in Nat \ {0}

VARIABLES
    others,     \* frames the others hold
    cursor      \* allocate_cursor_pages: op, pages, the first of the four or 0

mvars == <<pmm, area, heap, others, cursor>>

Quiet == heap.op = "none" /\ cursor.op \in {"never", "done"}

\* A page of a process's heap, stack or code, or of a driver.
page_alloc ==
    /\ Quiet /\ Cardinality(others) < load.pages
    /\ pmm_alloc_page
    /\ others' = others \cup ({eax'} \ {0})
    /\ UNCHANGED <<area, heap, cursor>>

page_free ==
    /\ Quiet
    /\ \E page \in others : pmm_free_page(page) /\ others' = others \ {page}
    /\ UNCHANGED <<area, heap, cursor>>

\* The places where four consecutive frames begin; the code takes the first.
intel915_find_cursor_pages(pages) ==
    {i \in 1 .. Len(pages) - 3 : pages[i] # 0 /\ \A k \in 1 .. 3 : pages[i + k] = pages[i] + k}

search_begins ==
    /\ Quiet /\ cursor.op = "never"
    /\ cursor' = [cursor EXCEPT !.op = "search"]
    /\ UNCHANGED <<pmm, area, heap, others>>

\* One frame more, until there are four in a row, no more frames, or too many.
search ==
    /\ cursor.op = "search" /\ Len(cursor.pages) < CURSOR_PAGES
    /\ pmm_alloc_page
    /\ LET pages == Append(cursor.pages, eax')
           found == intel915_find_cursor_pages(pages)
       IN  cursor' = IF eax' = 0 THEN [cursor EXCEPT !.op = "release"]
                     ELSE IF found = {} THEN [cursor EXCEPT !.pages = pages]
                     ELSE [op |-> "release", pages |-> pages, base |-> pages[Min(found)]]
    /\ UNCHANGED <<area, heap, others>>

search_ends ==
    /\ cursor.op = "search" /\ Len(cursor.pages) = CURSOR_PAGES
    /\ cursor' = [cursor EXCEPT !.op = "release"]
    /\ UNCHANGED <<pmm, area, heap, others>>

\* Mutant: all frames up to the four are kept.
kept_all(page) == cursor.base # 0

kept(page) == cursor.base # 0 /\ page \in cursor.base .. cursor.base + 3

\* The frames that are not kept are given back in the order they came.
release ==
    /\ cursor.op = "release" /\ cursor.pages # <<>>
    /\ cursor' = [cursor EXCEPT !.pages = Tail(@)]
    /\ IF kept(Head(cursor.pages)) THEN UNCHANGED pmm ELSE pmm_free_page(Head(cursor.pages))
    /\ UNCHANGED <<area, heap, others>>

release_ends ==
    /\ cursor.op = "release" /\ cursor.pages = <<>>
    /\ cursor' = [cursor EXCEPT !.op = "done"]
    /\ UNCHANGED <<pmm, area, heap, others>>

allocate_cursor_pages == search_begins \/ search \/ search_ends \/ release \/ release_ends

MInit ==
    /\ HInit
    /\ others = {}
    /\ cursor = [op |-> "never", pages |-> <<>>, base |-> 0]

MNext ==
    \/ cursor.op \in {"never", "done"} /\ heap_step /\ UNCHANGED <<others, cursor>>
    \/ page_alloc \/ page_free
    \/ allocate_cursor_pages

MSpec == MInit /\ [][MNext]_mvars

-----------------------------------------------------------------------------
(* Properties.                                                             *)

Run == IF cursor.base = 0 THEN {} ELSE cursor.base .. cursor.base + 3

\* Every frame the bitmap has given away has one owner, and the heap has as many
\* as its size says: no owner of frames takes another's, and neither a growth
\* that fails half way nor the search for the cursor's frames loses one.
FramesAreAccounted ==
    /\ held = mapped \cup others \cup Run \cup Range(cursor.pages)
    /\ mapped \cap others = {}
    /\ (Run \cup Range(cursor.pages)) \cap (mapped \cup others) = {}
    /\ heap_committed = PAGE_SIZE * Cardinality(mapped)

=============================================================================
