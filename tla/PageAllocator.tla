--------------------------- MODULE PageAllocator ---------------------------
(***************************************************************************)
(* What a physical page allocator promises: a page is handed out only while*)
(* it is free, and a request is refused only when nothing is free.         *)
(***************************************************************************)
EXTENDS Integers

CONSTANT Page       \* the pages that can be handed out, all above 0

VARIABLES
    free,           \* the pages nobody holds
    answer          \* the answer to the last request; 0 refuses it

Init == free = Page /\ answer = 0

Grant ==
    \E page \in free :
        /\ answer' = page
        /\ free' = free \ {page}

Refuse == free = {} /\ answer' = 0 /\ UNCHANGED free

Return ==
    \E page \in Page \ free :
        /\ free' = free \cup {page}
        /\ UNCHANGED answer

Spec == Init /\ [][Grant \/ Refuse \/ Return]_<<free, answer>>

=============================================================================
