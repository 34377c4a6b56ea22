--------------------------------- MODULE Pmm ---------------------------------
(***************************************************************************)
(* The physical memory manager: a bitmap of page frames, and a hint that   *)
(* saves the allocator from scanning the frames below it.                  *)
(***************************************************************************)
EXTENDS Integers, FiniteSetsExt

CONSTANTS
    MAIN_RAM_START,     \* first usable frame (256)
    MAIN_RAM_END,       \* first frame past the usable ones (260992)
    Reserved            \* frames pmm_init takes back for the kernel's images

ASSUME RamAssumption ==
    /\ MAIN_RAM_START \in Nat \ {0}
    /\ MAIN_RAM_END \in Nat
    /\ MAIN_RAM_START <= MAIN_RAM_END
    /\ Reserved \subseteq MAIN_RAM_START .. MAIN_RAM_END - 1

VARIABLES
    used,               \* frames whose bit is set in the bitmap
    pmm_next_page,      \* where the next scan starts
    eax,                \* what the last pmm_alloc_page returned
    held                \* frames callers hold: allocated and not yet freed

vars == <<used, pmm_next_page, eax, held>>

Frame == 0 .. MAIN_RAM_END - 1
Ram == MAIN_RAM_START .. MAIN_RAM_END - 1

\* Everything used, the RAM free, the kernel's images used again.
Init ==
    /\ used = (Frame \ Ram) \cup Reserved
    /\ pmm_next_page = MAIN_RAM_START
    /\ eax = 0
    /\ held = {}

\* Mutant: the scan stops one frame short of the end.
alloc_misses_last ==
    LET clear == {n \in Frame : n >= pmm_next_page /\ n < MAIN_RAM_END - 1 /\ n \notin used}
    IN  \/ /\ clear = {}
           /\ eax' = 0
           /\ UNCHANGED <<used, pmm_next_page, held>>
        \/ /\ clear # {}
           /\ eax' = Min(clear)
           /\ used' = used \cup {Min(clear)}
           /\ pmm_next_page' = Min(clear) + 1
           /\ held' = held \cup {Min(clear)}

\* The first clear bit from the hint up.
pmm_alloc_page ==
    LET clear == {n \in Frame : n >= pmm_next_page /\ n \notin used}
    IN  \/ /\ clear = {}
           /\ eax' = 0
           /\ UNCHANGED <<used, pmm_next_page, held>>
        \/ /\ clear # {}
           /\ eax' = Min(clear)
           /\ used' = used \cup {Min(clear)}
           /\ pmm_next_page' = Min(clear) + 1
           /\ held' = held \cup {Min(clear)}

\* A caller gives back a frame it holds.
pmm_free_page(page) ==
    /\ used' = used \ {page}
    /\ pmm_next_page' = IF page < pmm_next_page THEN page ELSE pmm_next_page
    /\ held' = held \ {page}
    /\ UNCHANGED eax

Next == pmm_alloc_page \/ \E page \in held : pmm_free_page(page)

Spec == Init /\ [][Next]_vars

-----------------------------------------------------------------------------
\* Type invariant.
TypeOK ==
    /\ used \subseteq Frame
    /\ pmm_next_page \in MAIN_RAM_START .. MAIN_RAM_END
    /\ eax \in Ram \cup {0}
    /\ held \subseteq Ram

\* The bitmap is exactly the frames outside the RAM, the kernel's own and the
\* ones callers hold; those never overlap, so no frame is held twice, handed
\* out from under the kernel, or lost.
BitmapIsExact ==
    /\ used = (Frame \ Ram) \cup Reserved \cup held
    /\ held \cap Reserved = {}

\* No frame below the hint is free, whatever the order of allocations and
\* frees: the scan may skip them.
HintIsSound == \A n \in Frame : n < pmm_next_page => n \in used

IInv == TypeOK /\ BitmapIsExact /\ HintIsSound

Allocator == INSTANCE PageAllocator
    WITH Page <- Ram \ Reserved, free <- Frame \ used, answer <- eax

\* The bitmap and the hint implement the abstract allocator: in particular
\* pmm_alloc_page returns 0 only when no frame at all is free.
ImplementsAllocator == Allocator!Spec

=============================================================================
