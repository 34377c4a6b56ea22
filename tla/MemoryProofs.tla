---------------------------- MODULE MemoryProofs ----------------------------
(***************************************************************************)
(* Proofs about the physical memory manager, for any amount of RAM and any *)
(* reserved frames, and about the kernel heap and the others who take      *)
(* frames from it, for any size of a page and of the heap.                 *)
(***************************************************************************)
EXTENDS Memory, KernelLemmas, FiniteSetTheorems, TLAPS

USE RamAssumption

Clear == {n \in Frame : n >= pmm_next_page /\ n \notin used}

\* The frame the scan finds, if there is one, is usable and nobody's, and the
\* scan passed over no free frame on its way.
LEMMA ScanFindsFree ==
    ASSUME IInv, Clear # {}
    PROVE  /\ Min(Clear) \in Ram \ Reserved
           /\ Min(Clear) \in Frame \ used
           /\ Min(Clear) >= pmm_next_page
           /\ \A n \in Frame : n < Min(Clear) => n \in used
<1>1. Clear \in SUBSET Nat
    BY DEF Clear, Frame
<1>2. Min(Clear) \in Clear /\ \A n \in Clear : Min(Clear) =< n
    BY <1>1, LeastOfNaturals, Zenon DEF Min
<1>3. Min(Clear) \in Frame /\ Min(Clear) >= pmm_next_page /\ Min(Clear) \notin used
    BY <1>2 DEF Clear
<1>4. Min(Clear) \in Ram \ Reserved
    BY <1>3 DEF IInv, BitmapIsExact
<1>5. ASSUME NEW n \in Frame, n < Min(Clear) PROVE n \in used
    <2>1. CASE n < pmm_next_page
        BY <2>1 DEF IInv, HintIsSound
    <2>2. CASE n >= pmm_next_page
        BY <1>2, <1>3, <1>5, <2>2 DEF Clear, Frame
    <2>. QED
        BY <2>1, <2>2 DEF IInv, TypeOK, Frame
<1>. QED
    BY <1>3, <1>4, <1>5

\* pmm_init leaves the bitmap exact and the hint at the first usable frame.
LEMMA InitHolds == Init => IInv
<1>. SUFFICES ASSUME Init PROVE IInv
    OBVIOUS
<1>. USE DEF Init
<1>1. TypeOK
    BY DEF TypeOK, Frame, Ram
<1>2. BitmapIsExact
    BY DEF BitmapIsExact
<1>3. HintIsSound
    BY DEF HintIsSound, Frame, Ram
<1>. QED
    BY <1>1, <1>2, <1>3 DEF IInv

\* Allocation keeps the invariant.
LEMMA AllocHolds == IInv /\ pmm_alloc_page => IInv'
<1>. SUFFICES ASSUME IInv, pmm_alloc_page PROVE IInv'
    OBVIOUS
<1>1. CASE Clear = {}
    <2>1. eax' = 0 /\ used' = used /\ pmm_next_page' = pmm_next_page /\ held' = held
        BY <1>1 DEF pmm_alloc_page, Clear
    <2>. QED
        BY <2>1 DEF IInv, TypeOK, BitmapIsExact, HintIsSound
<1>2. CASE Clear # {}
    <2>. DEFINE n == Min(Clear)
    <2>1. /\ eax' = n
          /\ used' = used \cup {n}
          /\ pmm_next_page' = n + 1
          /\ held' = held \cup {n}
        BY <1>2 DEF pmm_alloc_page, Clear
    <2>2. /\ n \in Ram \ Reserved
          /\ n \in Frame \ used
          /\ n >= pmm_next_page
          /\ \A m \in Frame : m < n => m \in used
        BY <1>2, ScanFindsFree
    <2>. HIDE DEF n
    <2>3. TypeOK'
        BY <2>1, <2>2 DEF IInv, TypeOK, Ram, Frame
    <2>4. BitmapIsExact'
        BY <2>1, <2>2 DEF IInv, BitmapIsExact
    <2>5. HintIsSound'
        BY <2>1, <2>2 DEF HintIsSound, Frame
    <2>. QED
        BY <2>3, <2>4, <2>5 DEF IInv
<1>. QED
    BY <1>1, <1>2

\* Freeing a frame that is held keeps the invariant.
LEMMA FreeHolds ==
    ASSUME NEW page \in held, IInv, pmm_free_page(page)
    PROVE  IInv'
<1>1. page \in Ram /\ page \notin Reserved
    BY DEF IInv, TypeOK, BitmapIsExact
<1>2. TypeOK'
    BY <1>1 DEF pmm_free_page, IInv, TypeOK, Ram
<1>3. BitmapIsExact'
    BY <1>1 DEF pmm_free_page, IInv, BitmapIsExact
<1>4. HintIsSound'
    BY <1>1 DEF pmm_free_page, IInv, TypeOK, HintIsSound, Frame, Ram
<1>. QED
    BY <1>2, <1>3, <1>4 DEF IInv

\* The bitmap, the held frames and the hint stay consistent for ever.
THEOREM Invariant == Spec => []IInv
<1>1. IInv /\ [Next]_vars => IInv'
    <2>. SUFFICES ASSUME IInv, [Next]_vars PROVE IInv'
        OBVIOUS
    <2>1. CASE UNCHANGED vars
        BY <2>1 DEF vars, IInv, TypeOK, BitmapIsExact, HintIsSound
    <2>2. CASE Next
        BY <2>2, AllocHolds, FreeHolds DEF Next
    <2>. QED
        BY <2>1, <2>2
<1>. QED
    BY <1>1, InitHolds, PTL DEF Spec

\* No frame is held twice, taken from the kernel's images, or lost.
THEOREM FramesExact == Spec => []BitmapIsExact
<1>1. IInv => BitmapIsExact
    BY DEF IInv
<1>. QED
    BY <1>1, Invariant, PTL

\* The scan of pmm_alloc_page may start at the hint.
THEOREM HintSafe == Spec => []HintIsSound
<1>1. IInv => HintIsSound
    BY DEF IInv
<1>. QED
    BY <1>1, Invariant, PTL

\* A step of the manager is a step of the abstract allocator: a page granted
\* was free, and a request refused means that nothing was.
LEMMA StepRefines ==
    ASSUME IInv, [Next]_vars
    PROVE  [Allocator!Grant \/ Allocator!Refuse \/ Allocator!Return]_<<Frame \ used, eax>>
<1>1. CASE UNCHANGED vars
    BY <1>1 DEF vars
<1>2. CASE pmm_alloc_page /\ Clear = {}
    <2>1. eax' = 0 /\ used' = used
        BY <1>2 DEF pmm_alloc_page, Clear
    <2>2. Frame \ used = {}
        BY <1>2 DEF IInv, TypeOK, HintIsSound, Clear, Frame
    <2>. QED
        BY <2>1, <2>2 DEF Allocator!Refuse
<1>3. CASE pmm_alloc_page /\ Clear # {}
    <2>1. eax' = Min(Clear) /\ used' = used \cup {Min(Clear)}
        BY <1>3 DEF pmm_alloc_page, Clear
    <2>2. Min(Clear) \in Frame \ used
        BY <1>3, ScanFindsFree
    <2>3. Frame \ used' = (Frame \ used) \ {Min(Clear)}
        BY <2>1
    <2>. QED
        BY <2>1, <2>2, <2>3 DEF Allocator!Grant
<1>4. ASSUME NEW page \in held, pmm_free_page(page)
      PROVE  Allocator!Return
    <2>1. used' = used \ {page} /\ eax' = eax
        BY <1>4 DEF pmm_free_page
    <2>2. page \in Frame /\ page \in used /\ page \in Ram \ Reserved
        BY DEF IInv, TypeOK, BitmapIsExact, Frame, Ram
    <2>3. Frame \ used' = (Frame \ used) \cup {page}
        BY <2>1, <2>2
    <2>. QED
        BY <2>1, <2>2, <2>3 DEF Allocator!Return
<1>. QED
    BY <1>1, <1>2, <1>3, <1>4 DEF Next

\* The bitmap with its hint implements the abstract page allocator, for any
\* size of memory: pmm_alloc_page fails only when every frame is in use.
THEOREM Refinement == Spec => ImplementsAllocator
<1>1. Init => Allocator!Init
    BY DEF Init, Allocator!Init, Frame, Ram
<1>2. IInv /\ [Next]_vars =>
          [Allocator!Grant \/ Allocator!Refuse \/ Allocator!Return]_<<Frame \ used, eax>>
    BY StepRefines
<1>. QED
    BY <1>1, <1>2, Invariant, PTL DEF Spec, ImplementsAllocator, Allocator!Spec

-----------------------------------------------------------------------------
Cell == [addr : Nat, size : Nat \ {0}, used : BOOLEAN]

Tiled(l, end) ==
    /\ l \in Seq(Cell) /\ end \in Nat
    /\ Len(l) = 0 => end = 0
    /\ Len(l) # 0 => l[1].addr = 0 /\ End(l[Len(l)]) = end
    /\ \A i \in 1 .. Len(l) - 1 : End(l[i]) = l[i + 1].addr

Apart(l) == \A i \in 1 .. Len(l) - 1 : l[i].used \/ l[i + 1].used

Taken(l) == {l[i] : i \in {j \in 1 .. Len(l) : l[j].used}}

\* Where a block ends.
LEMMA EndOfCell ==
    ASSUME NEW b \in Cell
    PROVE  /\ b.addr \in Nat /\ b.size \in Nat \ {0} /\ b.used \in BOOLEAN
           /\ End(b) = b.addr + 2 + b.size /\ End(b) \in Nat /\ End(b) > b.addr
    BY DEF Cell, End, HEAP_HDR_SIZE

\* A function on 1 .. n into the blocks is a list of blocks.
LEMMA CellsInOrder ==
    ASSUME NEW n \in Nat, NEW e, DOMAIN e = 1 .. n, e = [i \in 1 .. n |-> e[i]],
           \A i \in 1 .. n : e[i] \in Cell
    PROVE  e \in Seq(Cell) /\ Len(e) = n
<1>1. e \in [1 .. n -> Cell]
    BY Zenon
<1> QED
    BY <1>1

\* In a tiled list the blocks lie one behind the other.
LEMMA Ordered ==
    ASSUME NEW l \in Seq(Cell), \A i \in 1 .. Len(l) - 1 : End(l[i]) = l[i + 1].addr
    PROVE  \A i, j \in 1 .. Len(l) : i < j => End(l[i]) <= l[j].addr
<1>1. PICK n \in Nat : n = Len(l)
    OBVIOUS
<1>2. \A i \in 1 .. n : l[i] \in Cell
    BY <1>1
<1> SUFFICES ASSUME NEW i \in 1 .. n, NEW j \in 1 .. n, i < j
             PROVE  End(l[i]) <= l[j].addr
    BY <1>1
<1> DEFINE S == {k \in Nat : i + 1 + k <= n => End(l[i]) <= l[i + 1 + k].addr}
<1>3. 0 \in S
    <2>1. i + 1 <= n => End(l[i]) = l[i + 1].addr /\ End(l[i]) \in Nat
        BY <1>1, <1>2, EndOfCell
    <2>2. i + 1 + 0 = i + 1
        OBVIOUS
    <2> QED
        BY <2>1, <2>2
<1>4. ASSUME NEW k \in Nat, k \in S PROVE k + 1 \in S
    <2> SUFFICES ASSUME i + 2 + k <= n PROVE End(l[i]) <= l[i + 2 + k].addr
        <3>1. i + 1 + (k + 1) = i + 2 + k
            OBVIOUS
        <3> QED
            BY <3>1
    <2>1. i + 1 + k \in 1 .. n - 1 /\ i + 2 + k \in 1 .. n /\ (i + 1 + k) + 1 = i + 2 + k
        OBVIOUS
    <2>2. End(l[i]) <= l[i + 1 + k].addr
        BY <1>4, <2>1
    <2>3. End(l[i + 1 + k]) = l[i + 2 + k].addr
        BY <1>1, <2>1
    <2>4. l[i] \in Cell /\ l[i + 1 + k] \in Cell /\ l[i + 2 + k] \in Cell
        BY <1>2, <2>1
    <2>5. /\ End(l[i]) \in Nat /\ l[i + 1 + k].addr \in Nat /\ End(l[i + 1 + k]) \in Nat
          /\ End(l[i + 1 + k]) > l[i + 1 + k].addr
        BY <2>4, EndOfCell, Zenon
    <2>6. \A p, q, r \in Nat : p <= q /\ r > q => p <= r
        OBVIOUS
    <2> QED
        BY <2>2, <2>3, <2>5, <2>6, Zenon
<1>5. Nat \subseteq S
    <2> HIDE DEF S
    <2> QED
        BY <1>3, <1>4, NaturalsByCounting
<1>6. PICK k \in Nat : i + 1 + k = j
    <2>1. j - i - 1 \in Nat /\ i + 1 + (j - i - 1) = j
        OBVIOUS
    <2> QED
        BY <2>1, Zenon
<1>7. i + 1 + k <= n
    BY <1>6
<1>8. End(l[i]) <= l[i + 1 + k].addr
    <2>1. k \in S
        BY <1>5
    <2> QED
        BY <1>7, <2>1
<1> QED
    BY <1>6, <1>8, Zenon

\* A block behind the last one.
LEMMA AppendTiles ==
    ASSUME NEW d, NEW b \in Cell, Tiled(d, b.addr), Apart(d),
           Len(d) # 0 => d[Len(d)].used \/ b.used, NEW e, e = Append(d, b)
    PROVE  /\ Tiled(e, End(b)) /\ Apart(e)
           /\ Taken(e) = Taken(d) \cup {x \in {b} : x.used}
<1>1. PICK n \in Nat : n = Len(d)
    BY DEF Tiled
<1>2. /\ d \in Seq(Cell)
      /\ n = 0 => b.addr = 0
      /\ n # 0 => d[1].addr = 0 /\ End(d[n]) = b.addr /\ (d[n].used \/ b.used)
      /\ \A i \in 1 .. n - 1 : End(d[i]) = d[i + 1].addr
    BY <1>1 DEF Tiled
<1>3. \A i \in 1 .. n - 1 : d[i].used \/ d[i + 1].used
    BY <1>1 DEF Apart
<1>4. /\ e \in Seq(Cell) /\ Len(e) = n + 1 /\ e[n + 1] = b
      /\ \A i \in 1 .. n : e[i] = d[i]
    BY <1>1, <1>2
<1>5. End(b) \in Nat /\ b.addr \in Nat
    BY EndOfCell
<1>6. e[1].addr = 0
    <2>1. CASE n = 0
        BY <1>2, <1>4, <2>1
    <2>2. CASE n # 0
        BY <1>2, <1>4, <2>2
    <2> QED
        BY <2>1, <2>2
<1>7. ASSUME NEW i \in 1 .. n PROVE End(e[i]) = e[i + 1].addr /\ (e[i].used \/ e[i + 1].used)
    <2>1. CASE i = n
        BY <1>2, <1>4, <2>1
    <2>2. CASE i \in 1 .. n - 1
        <3>1. e[i] = d[i] /\ e[i + 1] = d[i + 1]
            BY <1>4, <2>2
        <3> QED
            BY <1>2, <1>3, <2>2, <3>1
    <2>3. i = n \/ i \in 1 .. n - 1
        OBVIOUS
    <2> QED
        BY <2>1, <2>2, <2>3, Zenon
<1>9. Taken(e) = Taken(d) \cup {x \in {b} : x.used}
    <2>1. ASSUME NEW x \in Taken(e) PROVE x \in Taken(d) \cup {y \in {b} : y.used}
        <3>1. PICK j \in 1 .. n + 1 : x = e[j] /\ e[j].used
            BY <1>4 DEF Taken
        <3>2. CASE j = n + 1
            BY <1>4, <3>1, <3>2
        <3>3. CASE j \in 1 .. n
            BY <1>1, <1>4, <3>1, <3>3 DEF Taken
        <3> QED
            BY <3>2, <3>3
    <2>2. ASSUME NEW x \in Taken(d) PROVE x \in Taken(e)
        <3>1. PICK j \in 1 .. n : x = d[j] /\ d[j].used
            BY <1>1 DEF Taken
        <3> QED
            BY <1>4, <3>1 DEF Taken
    <2>3. ASSUME b.used PROVE b \in Taken(e)
        <3>1. n + 1 \in 1 .. Len(e)
            BY <1>4
        <3> QED
            BY <1>4, <2>3, <3>1 DEF Taken
    <2> QED
        BY <2>1, <2>2, <2>3
<1>10. Tiled(e, End(b))
    BY <1>4, <1>5, <1>6, <1>7 DEF Tiled
<1>11. Apart(e)
    BY <1>4, <1>7 DEF Apart
<1> QED
    BY <1>9, <1>10, <1>11

\* A block that is changed in place.
LEMMA ChangeTiles ==
    ASSUME NEW d, NEW end, Tiled(d, end), NEW e, e \in Seq(Cell), Len(e) = Len(d),
           \A i \in 1 .. Len(d) : e[i].addr = d[i].addr /\ e[i].size = d[i].size
    PROVE  Tiled(e, end)
<1>1. PICK n \in Nat : n = Len(d) /\ n = Len(e)
    BY DEF Tiled
<1>2. \A i \in 1 .. n : End(e[i]) = End(d[i]) /\ e[i].addr = d[i].addr
    BY <1>1 DEF End
<1>3. \A i \in 1 .. n - 1 : End(e[i]) = e[i + 1].addr
    <2> TAKE i \in 1 .. n - 1
    <2>1. i \in 1 .. n /\ i + 1 \in 1 .. n
        OBVIOUS
    <2>2. End(d[i]) = d[i + 1].addr
        BY <1>1 DEF Tiled
    <2> QED
        BY <1>2, <2>1, <2>2, Zenon
<1>4. n # 0 => e[1].addr = 0 /\ End(e[n]) = end
    <2> SUFFICES ASSUME n # 0 PROVE e[1].addr = 0 /\ End(e[n]) = end
        OBVIOUS
    <2>1. 1 \in 1 .. n /\ n \in 1 .. n
        OBVIOUS
    <2>2. d[1].addr = 0 /\ End(d[n]) = end
        BY <1>1 DEF Tiled
    <2> QED
        BY <1>2, <2>1, <2>2, Zenon
<1> QED
    BY <1>1, <1>3, <1>4 DEF Tiled

\* heap_coalesce on one block: it is merged into a free predecessor or appended.
LEMMA MergeTiles ==
    ASSUME NEW d, NEW b \in Cell, Tiled(d, b.addr), Apart(d), NEW e, e = merge(d, b)
    PROVE  /\ Tiled(e, End(b)) /\ Apart(e)
           /\ Taken(e) = Taken(d) \cup {x \in {b} : x.used}
<1>1. PICK n \in Nat : n = Len(d)
    BY DEF Tiled
<1>2. /\ d \in Seq(Cell) /\ \A i \in 1 .. n : d[i] \in Cell
      /\ n # 0 => d[1].addr = 0 /\ End(d[n]) = b.addr
      /\ \A i \in 1 .. n - 1 : End(d[i]) = d[i + 1].addr
    BY <1>1 DEF Tiled
<1>3. CASE n > 0 /\ ~d[n].used /\ ~b.used
    <2>1. e = [d EXCEPT ![n].size = @ + HEAP_HDR_SIZE + b.size]
        BY <1>1, <1>2, <1>3 DEF merge
    <2>2. n \in 1 .. n /\ DOMAIN d = 1 .. n /\ d[n] \in Cell /\ DOMAIN e = 1 .. n
        BY <1>1, <1>2, <1>3, <2>1
    <2>3. e[n] = [d[n] EXCEPT !.size = @ + HEAP_HDR_SIZE + b.size]
        BY <2>1, <2>2
    <2>4. /\ e[n] \in Cell /\ e[n].addr = d[n].addr /\ ~e[n].used
          /\ e[n].size = d[n].size + 2 + b.size
        <3>1. PICK s : s = d[n].size + HEAP_HDR_SIZE + b.size
            BY Zenon
        <3>2. d[n].size \in Nat \ {0} /\ b.size \in Nat \ {0}
            BY <2>2, EndOfCell
        <3>3. s \in Nat \ {0} /\ s = d[n].size + 2 + b.size
            BY <3>1, <3>2 DEF HEAP_HDR_SIZE
        <3>4. e[n] = [d[n] EXCEPT !.size = s]
            BY <2>3, <3>1, Zenon
        <3> QED
            BY <1>3, <2>2, <3>3, <3>4 DEF Cell
    <2>5. \A i \in 1 .. n : i # n => e[i] = d[i]
        BY <2>1, <2>2
    <2>6. e \in Seq(Cell) /\ Len(e) = n
        <3>1. e \in [1 .. n -> Cell]
            <4>1. \A i \in 1 .. n : e[i] \in Cell
                BY <1>2, <2>4, <2>5
            <4> QED
                BY <2>1, <2>2, <4>1, Zenon
        <3> QED
            BY <3>1
    <2>7. End(e[n]) = End(b)
        <3>1. End(d[n]) = b.addr
            BY <1>2, <1>3
        <3>2. /\ End(d[n]) = d[n].addr + 2 + d[n].size /\ End(e[n]) = e[n].addr + 2 + e[n].size
              /\ End(b) = b.addr + 2 + b.size
            BY <2>2, <2>4, EndOfCell
        <3>3. d[n].addr \in Nat /\ d[n].size \in Nat /\ b.addr \in Nat /\ b.size \in Nat
            BY <2>2, EndOfCell
        <3>4. End(e[n]) = d[n].addr + 2 + (d[n].size + 2 + b.size)
            BY <2>4, <3>2, Zenon
        <3>5. End(b) = (d[n].addr + 2 + d[n].size) + 2 + b.size
            BY <3>1, <3>2, Zenon
        <3> QED
            BY <3>3, <3>4, <3>5
    <2>8. \A i \in 1 .. n : e[i].addr = d[i].addr
        BY <2>4, <2>5
    <2>9. ASSUME NEW i \in 1 .. n - 1
          PROVE  End(e[i]) = e[i + 1].addr /\ (e[i].used \/ e[i + 1].used)
        <3>1. i \in 1 .. n /\ i + 1 \in 1 .. n /\ i # n
            OBVIOUS
        <3>2. e[i] = d[i] /\ e[i + 1].addr = d[i + 1].addr
            BY <2>5, <2>8, <3>1, Zenon
        <3>3. d[i].used \/ d[i + 1].used
            BY <1>1 DEF Apart
        <3>4. CASE i + 1 = n
            BY <1>2, <1>3, <3>2, <3>3, <3>4
        <3>5. CASE i + 1 # n
            BY <1>2, <2>5, <3>1, <3>2, <3>3, <3>5
        <3> QED
            BY <3>4, <3>5
    <2>10. Tiled(e, End(b))
        <3>1. End(b) \in Nat
            BY EndOfCell
        <3>2. e[1].addr = 0
            BY <1>2, <1>3, <2>8
        <3> QED
            BY <1>3, <2>6, <2>7, <2>9, <3>1, <3>2 DEF Tiled
    <2>11. Apart(e)
        BY <2>6, <2>9 DEF Apart
    <2>12. Taken(e) = Taken(d)
        <3>1. ASSUME NEW x PROVE x \in Taken(e) <=> \E i \in 1 .. n : i # n /\ x = d[i] /\ d[i].used
            BY <2>4, <2>5, <2>6 DEF Taken
        <3>2. ASSUME NEW x PROVE x \in Taken(d) <=> \E i \in 1 .. n : i # n /\ x = d[i] /\ d[i].used
            BY <1>1, <1>3 DEF Taken
        <3> QED
            BY <3>1, <3>2, Zenon
    <2> QED
        BY <1>3, <2>10, <2>11, <2>12
<1>4. CASE ~(n > 0 /\ ~d[n].used /\ ~b.used)
    <2>1. e = Append(d, b)
        BY <1>1, <1>4 DEF merge
    <2>2. Len(d) # 0 => d[Len(d)].used \/ b.used
        BY <1>1, <1>4
    <2> QED
        BY <2>1, <2>2, AppendTiles, Zenon
<1> QED
    BY <1>3, <1>4

\* done is what the walk of heap_coalesce has made of the first n blocks.
Walk(l, n, done) ==
    done = [i \in 0 .. n |-> IF i = 0 THEN <<>> ELSE merge(done[i - 1], l[i])]

WalkOf(l) == CHOOSE done : Walk(l, Len(l), done)

\* The recursion of heap_coalesce has a solution.
LEMMA WalkExists ==
    ASSUME NEW l
    PROVE  \A n \in Nat : \E done : Walk(l, n, done)
<1> DEFINE S == {n \in Nat : \E done : Walk(l, n, done)}
<1>1. 0 \in S
    <2>1. Walk(l, 0, [i \in 0 .. 0 |-> <<>>])
        BY DEF Walk
    <2> QED
        BY <2>1
<1>2. ASSUME NEW n \in Nat, n \in S PROVE n + 1 \in S
    <2>1. PICK done : Walk(l, n, done)
        BY <1>2
    <2> DEFINE longer == [i \in 0 .. n + 1 |-> IF i = n + 1 THEN merge(done[n], l[i]) ELSE done[i]]
    <2>2. \A i \in 0 .. n + 1 : longer[i] = IF i = 0 THEN <<>> ELSE merge(longer[i - 1], l[i])
        BY <2>1 DEF Walk
    <2>3. Walk(l, n + 1, longer)
        BY <2>2 DEF Walk
    <2> QED
        BY <2>3
<1> HIDE DEF S
<1>3. Nat \subseteq S
    BY <1>1, <1>2, NaturalsByCounting
<1> QED
    BY <1>3 DEF S

\* heap_coalesce merges one block after the other into what it has.
LEMMA CoalesceWalks ==
    ASSUME NEW l \in Seq(Cell), NEW n \in Nat, n = Len(l)
    PROVE  \E done : /\ done[0] = <<>> /\ heap_coalesce(l) = done[n]
                     /\ \A i \in 0 .. n - 1 : done[i + 1] = merge(done[i], l[i + 1])
<1>1. Walk(l, Len(l), WalkOf(l))
    BY WalkExists, Zenon DEF WalkOf
<1>2. heap_coalesce(l) = WalkOf(l)[Len(l)]
    BY Zenon DEF heap_coalesce, Walk, WalkOf
<1>3. PICK done : Walk(l, n, done) /\ heap_coalesce(l) = done[n]
    BY <1>1, <1>2
<1>4. done[0] = <<>>
    BY <1>3 DEF Walk
<1>5. ASSUME NEW i \in 0 .. n - 1 PROVE done[i + 1] = merge(done[i], l[i + 1])
    <2>1. i + 1 \in 0 .. n /\ i + 1 # 0 /\ (i + 1) - 1 = i
        OBVIOUS
    <2>2. done[i + 1] = merge(done[(i + 1) - 1], l[i + 1])
        BY <1>3, <2>1 DEF Walk
    <2> QED
        BY <2>1, <2>2
<1> QED
    BY <1>3, <1>4, <1>5

EndTo(l, i) == IF i = 0 THEN 0 ELSE End(l[i])
TakenTo(l, i) == {l[j] : j \in {k \in 1 .. i : l[k].used}}

\* The blocks it leaves cover the same memory, no two free ones touch, and the
\* used ones are the same.
LEMMA CoalesceTiles ==
    ASSUME NEW l, NEW end, Tiled(l, end)
    PROVE  /\ Tiled(heap_coalesce(l), end) /\ Apart(heap_coalesce(l))
           /\ Taken(heap_coalesce(l)) = Taken(l)
<1>1. PICK n \in Nat : n = Len(l)
    BY DEF Tiled
<1>2. l \in Seq(Cell) /\ \A i \in 1 .. n : l[i] \in Cell
    BY <1>1 DEF Tiled
<1>3. PICK done : /\ done[0] = <<>> /\ heap_coalesce(l) = done[n]
                  /\ \A i \in 0 .. n - 1 : done[i + 1] = merge(done[i], l[i + 1])
    BY <1>1, <1>2, CoalesceWalks
<1>4. \A i \in 0 .. n - 1 : l[i + 1].addr = EndTo(l, i)
    <2> TAKE i \in 0 .. n - 1
    <2>1. CASE i = 0
        BY <1>1, <2>1 DEF EndTo, Tiled
    <2>2. CASE i # 0
        BY <1>1, <2>2 DEF EndTo, Tiled
    <2> QED
        BY <2>1, <2>2
<1> DEFINE Good(i) == /\ Tiled(done[i], EndTo(l, i)) /\ Apart(done[i])
                      /\ Taken(done[i]) = TakenTo(l, i)
           S == {i \in Nat : i <= n => Good(i)}
<1>5. 0 \in S
    <2>1. Tiled(<<>>, 0) /\ Apart(<<>>) /\ Taken(<<>>) = {}
        BY DEF Tiled, Apart, Taken
    <2>2. EndTo(l, 0) = 0 /\ TakenTo(l, 0) = {}
        BY DEF EndTo, TakenTo
    <2> QED
        BY <1>3, <2>1, <2>2, Zenon
<1>6. ASSUME NEW i \in Nat, i \in S PROVE i + 1 \in S
    <2> SUFFICES ASSUME i + 1 <= n PROVE Good(i + 1)
        OBVIOUS
    <2>1. i \in 0 .. n - 1 /\ i + 1 \in 1 .. n /\ i + 1 # 0 /\ Good(i)
        BY <1>6
    <2> HIDE DEF S
    <2>2. PICK b \in Cell : b = l[i + 1] /\ b.addr = EndTo(l, i) /\ End(b) = EndTo(l, i + 1)
        BY <1>2, <1>4, <2>1 DEF EndTo
    <2>3. done[i + 1] = merge(done[i], b)
        BY <1>3, <2>1, <2>2, Zenon
    <2>4. /\ Tiled(done[i + 1], End(b)) /\ Apart(done[i + 1])
          /\ Taken(done[i + 1]) = Taken(done[i]) \cup {x \in {b} : x.used}
        <3>1. Tiled(done[i], b.addr) /\ Apart(done[i])
            BY <2>1, <2>2, Zenon
        <3> HIDE DEF Good
        <3> QED
            BY <2>3, <3>1, MergeTiles
    <2>5. TakenTo(l, i + 1) = TakenTo(l, i) \cup {x \in {b} : x.used}
        <3>1. \A j : j \in 1 .. i + 1 <=> j \in 1 .. i \/ j = i + 1
            OBVIOUS
        <3> QED
            BY <2>2, <3>1, Zenon DEF TakenTo
    <2> QED
        BY <2>1, <2>2, <2>4, <2>5, Zenon
<1>7. Good(n)
    <2>1. Nat \subseteq S
        <3> HIDE DEF S
        <3> QED
            BY <1>5, <1>6, NaturalsByCounting
    <2> HIDE DEF Good
    <2> QED
        BY <2>1
<1>8. EndTo(l, n) = end /\ TakenTo(l, n) = Taken(l)
    BY <1>1 DEF EndTo, Tiled, TakenTo, Taken
<1> QED
    BY <1>3, <1>7, <1>8, Zenon

\* A page added at the end of a heap without neighbouring free blocks only meets
\* the last block.
LEMMA CoalesceLast ==
    ASSUME NEW l, NEW b \in Cell, l \in Seq(Cell), Apart(l)
    PROVE  heap_coalesce(Append(l, b)) = merge(l, b)
<1>1. PICK n \in Nat : n = Len(l)
    OBVIOUS
<1>2. PICK m : m = Append(l, b)
    BY Zenon
<1>3. /\ m \in Seq(Cell) /\ Len(m) = n + 1 /\ m[n + 1] = b
      /\ \A i \in 1 .. n : m[i] = l[i]
    BY <1>1, <1>2
<1>4. PICK done : /\ done[0] = <<>> /\ heap_coalesce(m) = done[n + 1]
                  /\ \A i \in 0 .. (n + 1) - 1 : done[i + 1] = merge(done[i], m[i + 1])
    <2>1. n + 1 \in Nat
        OBVIOUS
    <2> QED
        BY <1>3, <2>1, CoalesceWalks, Zenon
<1>5. \A i \in 0 .. n : done[i + 1] = merge(done[i], m[i + 1])
    BY <1>4
<1> DEFINE S == {i \in Nat : i <= n => done[i] = SubSeq(l, 1, i)}
<1>6. 0 \in S
    <2>1. SubSeq(l, 1, 0) = <<>>
        OBVIOUS
    <2> QED
        BY <1>4, <2>1, Zenon
<1>7. ASSUME NEW i \in Nat, i \in S PROVE i + 1 \in S
    <2> SUFFICES ASSUME i + 1 <= n PROVE done[i + 1] = SubSeq(l, 1, i + 1)
        OBVIOUS
    <2>1. i \in 0 .. n /\ i + 1 \in 1 .. n /\ done[i] = SubSeq(l, 1, i)
        BY <1>7
    <2> HIDE DEF S
    <2>2. PICK d : d = SubSeq(l, 1, i)
        BY Zenon
    <2>3. d \in Seq(Cell) /\ Len(d) = i /\ \A j \in 1 .. i : d[j] = l[j]
        BY <1>1, <2>1, <2>2
    <2>4. done[i + 1] = merge(d, l[i + 1])
        BY <1>3, <1>5, <2>1, <2>2, Zenon
    <2>5. Len(d) > 0 => d[Len(d)].used \/ l[i + 1].used
        <3> SUFFICES ASSUME i > 0 PROVE d[i].used \/ l[i + 1].used
            BY <2>3
        <3>1. i \in 1 .. Len(l) - 1 /\ i \in 1 .. i
            BY <1>1, <2>1
        <3>2. l[i].used \/ l[i + 1].used
            BY <3>1, Zenon DEF Apart
        <3> QED
            BY <2>3, <3>1, <3>2, Zenon
    <2>6. done[i + 1] = Append(d, l[i + 1])
        BY <2>4, <2>5, Zenon DEF merge
    <2>7. Append(d, l[i + 1]) = SubSeq(l, 1, i + 1)
        BY <1>1, <2>1, <2>3
    <2> QED
        BY <2>6, <2>7, Zenon
<1>8. n \in S
    <2> HIDE DEF S
    <2> QED
        BY <1>6, <1>7, NaturalsByCounting
<1>9. done[n] = l
    <2>1. SubSeq(l, 1, n) = l
        BY <1>1
    <2> QED
        BY <1>8, <2>1
<1>10. done[n + 1] = merge(done[n], m[n + 1])
    BY <1>5
<1> QED
    BY <1>2, <1>3, <1>4, <1>9, <1>10, Zenon

\* The last block after a free block was added at the end: that one, or it and
\* the free block before it.
LEMMA MergeLast ==
    ASSUME NEW l, NEW b \in Cell, Tiled(l, b.addr), ~b.used, NEW g, g = merge(l, b)
    PROVE  /\ Len(g) \in Nat \ {0} /\ ~g[Len(g)].used /\ g[Len(g)].size >= b.size
           /\ Len(l) # 0 /\ ~l[Len(l)].used => g[Len(g)].size = l[Len(l)].size + 2 + b.size
<1>1. PICK n \in Nat : n = Len(l)
    BY DEF Tiled
<1>2. l \in Seq(Cell) /\ (n # 0 => End(l[n]) = b.addr /\ l[n] \in Cell)
    BY <1>1 DEF Tiled
<1>3. b.size \in Nat
    BY EndOfCell
<1>4. CASE n # 0 /\ ~l[n].used
    <2>1. g = [l EXCEPT ![n].size = @ + HEAP_HDR_SIZE + b.size]
        BY <1>1, <1>2, <1>4 DEF merge
    <2>2. n \in 1 .. n /\ DOMAIN l = 1 .. n
        BY <1>1, <1>2, <1>4
    <2>3. Len(g) = n
        BY <1>1, <1>2, <2>1, <2>2
    <2>4. g[n] = [l[n] EXCEPT !.size = @ + HEAP_HDR_SIZE + b.size]
        BY <2>1, <2>2
    <2>5. l[n].size \in Nat /\ l[n] \in Cell
        BY <1>2, <1>4, EndOfCell
    <2>6. ~g[n].used /\ g[n].size = l[n].size + 2 + b.size
        BY <1>4, <2>4, <2>5 DEF HEAP_HDR_SIZE, Cell
    <2>7. g[n].size >= b.size
        BY <1>3, <2>5, <2>6
    <2> QED
        BY <1>1, <1>4, <2>3, <2>6, <2>7
<1>5. CASE ~(n # 0 /\ ~l[n].used)
    <2>1. g = Append(l, b)
        BY <1>1, <1>5 DEF merge
    <2>2. Len(g) = n + 1 /\ g[n + 1] = b
        BY <1>1, <1>2, <2>1
    <2>3. n + 1 \in Nat \ {0} /\ b.size >= b.size
        BY <1>3
    <2> QED
        BY <1>1, <1>5, <2>2, <2>3, Zenon
<1> QED
    BY <1>4, <1>5

\* heap_free: the block at the address becomes free.
Freed(l, at) ==
    [i \in DOMAIN l |-> IF l[i].addr = at THEN [l[i] EXCEPT !.used = FALSE] ELSE l[i]]

\* A block that becomes free keeps its place and its size.
LEMMA CellFreed ==
    ASSUME NEW b \in Cell, NEW c, c = [b EXCEPT !.used = FALSE]
    PROVE  c \in Cell /\ c.addr = b.addr /\ c.size = b.size /\ ~c.used
    BY Zenon DEF Cell

\* heap_free without the walk: the block becomes free where it is.
LEMMA FreeTiles ==
    ASSUME NEW l, NEW end, Tiled(l, end), NEW at, NEW e, e = Freed(l, at)
    PROVE  Tiled(e, end) /\ Taken(e) = {b \in Taken(l) : b.addr # at}
<1>1. PICK n \in Nat : n = Len(l)
    BY DEF Tiled
<1>2. l \in Seq(Cell) /\ DOMAIN l = 1 .. n /\ \A i \in 1 .. n : l[i] \in Cell
    BY <1>1 DEF Tiled
<1>3. \A i \in 1 .. n : /\ l[i].addr = at => e[i] = [l[i] EXCEPT !.used = FALSE]
                        /\ l[i].addr # at => e[i] = l[i]
    BY <1>2 DEF Freed
<1>4. ASSUME NEW i \in 1 .. n
      PROVE  /\ e[i] \in Cell /\ e[i].addr = l[i].addr /\ e[i].size = l[i].size
             /\ l[i].addr = at => ~e[i].used
    <2>1. CASE l[i].addr = at
        BY <1>2, <1>3, <2>1, CellFreed, Zenon
    <2>2. CASE l[i].addr # at
        BY <1>2, <1>3, <2>2, Zenon
    <2> QED
        BY <2>1, <2>2, Zenon
<1>5. e \in Seq(Cell) /\ Len(e) = n
    <2>1. DOMAIN e = 1 .. n /\ e = [i \in 1 .. n |-> e[i]]
        BY <1>2, Zenon DEF Freed
    <2> QED
        BY <1>4, <2>1, CellsInOrder
<1>6. Tiled(e, end)
    BY <1>1, <1>4, <1>5, ChangeTiles
<1>7. ASSUME NEW x
      PROVE  x \in Taken(e) <=> \E i \in 1 .. n : x = l[i] /\ l[i].used /\ l[i].addr # at
    BY <1>3, <1>4, <1>5 DEF Taken
<1>8. ASSUME NEW x PROVE x \in Taken(l) <=> \E i \in 1 .. n : x = l[i] /\ l[i].used
    BY <1>1 DEF Taken
<1> QED
    BY <1>6, <1>7, <1>8

\* take_first_fit without a split: a free block becomes used.
Marked(l, i) == [l EXCEPT ![i].used = TRUE]

\* The block is used as it is.
LEMMA UseTiles ==
    ASSUME NEW l, NEW end, Tiled(l, end), Apart(l), NEW i \in 1 .. Len(l), ~l[i].used, NEW e,
           e = Marked(l, i)
    PROVE  /\ Tiled(e, end) /\ Apart(e)
           /\ \E a \in Cell : /\ Taken(e) = Taken(l) \cup {a}
                              /\ a.addr = l[i].addr /\ a.size = l[i].size
<1>1. PICK n \in Nat : n = Len(l)
    BY DEF Tiled
<1>2. l \in Seq(Cell) /\ DOMAIN l = 1 .. n /\ \A j \in 1 .. n : l[j] \in Cell
    BY <1>1 DEF Tiled
<1>3. i \in 1 .. n /\ e[i] = [l[i] EXCEPT !.used = TRUE] /\ \A j \in 1 .. n : j # i => e[j] = l[j]
    BY <1>1, <1>2, Zenon DEF Marked
<1>4. e[i] \in Cell /\ e[i].addr = l[i].addr /\ e[i].size = l[i].size /\ e[i].used
    BY <1>2, <1>3, Zenon DEF Cell
<1>5. ASSUME NEW j \in 1 .. n
      PROVE  e[j] \in Cell /\ e[j].addr = l[j].addr /\ e[j].size = l[j].size
             /\ (l[j].used => e[j].used)
    BY <1>2, <1>3, <1>4, Zenon
<1>6. e \in Seq(Cell) /\ Len(e) = n
    <2>1. DOMAIN e = 1 .. n /\ e = [j \in 1 .. n |-> e[j]]
        BY <1>2, Zenon DEF Marked
    <2> QED
        BY <1>5, <2>1, CellsInOrder, Zenon
<1>7. Tiled(e, end)
    BY <1>1, <1>5, <1>6, ChangeTiles
<1>8. Apart(e)
    <2>1. ASSUME NEW j \in 1 .. n - 1 PROVE e[j].used \/ e[j + 1].used
        <3>1. j \in 1 .. n /\ j + 1 \in 1 .. n
            OBVIOUS
        <3>2. l[j].used \/ l[j + 1].used
            BY <1>1 DEF Apart
        <3> QED
            BY <1>5, <3>1, <3>2, Zenon
    <2> QED
        BY <1>6, <2>1 DEF Apart
<1>9. Taken(e) = Taken(l) \cup {e[i]}
    <2>1. ASSUME NEW x PROVE x \in Taken(e) <=> \E j \in 1 .. n : x = e[j] /\ e[j].used
        BY <1>6 DEF Taken
    <2>2. ASSUME NEW x PROVE x \in Taken(l) <=> \E j \in 1 .. n : x = l[j] /\ l[j].used
        BY <1>1 DEF Taken
    <2>3. ASSUME NEW j \in 1 .. n, l[j].used PROVE e[j] = l[j]
        BY <1>3, <2>3
    <2>4. ASSUME NEW j \in 1 .. n, e[j].used PROVE j = i \/ (e[j] = l[j] /\ l[j].used)
        BY <1>3, <2>4
    <2>5. ASSUME NEW x \in Taken(e) PROVE x \in Taken(l) \cup {e[i]}
        BY <2>1, <2>2, <2>4
    <2>6. ASSUME NEW x \in Taken(l) PROVE x \in Taken(e)
        BY <2>1, <2>2, <2>3, <1>5
    <2>7. e[i] \in Taken(e)
        BY <1>3, <1>4, <2>1, Zenon
    <2> QED
        BY <2>5, <2>6, <2>7
<1> QED
    BY <1>4, <1>7, <1>8, <1>9

\* take_first_fit with a split: a used block and the free rest replace a free one.
Parted(l, i, a, b) == SubSeq(l, 1, i - 1) \o <<a, b>> \o SubSeq(l, i + 1, Len(l))

IsParted(e, l, i, a, b) ==
    /\ e \in Seq(Cell) /\ Len(e) = Len(l) + 1 /\ e[i] = a /\ e[i + 1] = b
    /\ \A j \in 1 .. i - 1 : e[j] = l[j]
    /\ \A j \in i + 1 .. Len(l) : e[j + 1] = l[j]

\* The elements of a concatenation.
LEMMA Joined ==
    ASSUME NEW x \in Seq(Cell), NEW y \in Seq(Cell)
    PROVE  /\ x \o y \in Seq(Cell) /\ Len(x \o y) = Len(x) + Len(y)
           /\ \A j \in 1 .. Len(x) : (x \o y)[j] = x[j]
           /\ \A j \in 1 .. Len(y) : (x \o y)[Len(x) + j] = y[j]
    OBVIOUS

\* The elements of a list in which one block was split in two.
LEMMA PartedIs ==
    ASSUME NEW l \in Seq(Cell), NEW i \in 1 .. Len(l), NEW a \in Cell, NEW b \in Cell,
           NEW e, e = Parted(l, i, a, b)
    PROVE  IsParted(e, l, i, a, b)
<1>0. PICK n \in Nat : n = Len(l) /\ i \in 1 .. n
    OBVIOUS
<1>1. PICK x, y, z : /\ x = SubSeq(l, 1, i - 1) /\ y = <<a, b>> /\ z = SubSeq(l, i + 1, n)
                     /\ e = (x \o y) \o z
    BY <1>0, Zenon DEF Parted
<1>2. x \in Seq(Cell) /\ Len(x) = i - 1 /\ \A j \in 1 .. i - 1 : x[j] = l[j]
    BY <1>0, <1>1
<1>3. y \in Seq(Cell) /\ Len(y) = 2 /\ y[1] = a /\ y[2] = b
    BY <1>1
<1>4. z \in Seq(Cell) /\ Len(z) = n - i /\ \A k \in 1 .. n - i : z[k] = l[i + k]
    BY <1>0, <1>1, SMTT(30)
<1>5. PICK xy : xy = x \o y
    BY Zenon
<1>6. /\ xy \in Seq(Cell) /\ Len(xy) = (i - 1) + 2
      /\ \A j \in 1 .. i - 1 : xy[j] = x[j]
      /\ \A j \in 1 .. 2 : xy[(i - 1) + j] = y[j]
    <2>1. /\ x \o y \in Seq(Cell) /\ Len(x \o y) = Len(x) + Len(y)
          /\ \A j \in 1 .. Len(x) : (x \o y)[j] = x[j]
          /\ \A j \in 1 .. Len(y) : (x \o y)[Len(x) + j] = y[j]
        BY <1>2, <1>3, Joined, Zenon
    <2> QED
        BY <1>2, <1>3, <1>5, <2>1, Zenon
<1>7. Len(xy) = i + 1 /\ xy[i] = a /\ xy[i + 1] = b
    <2>1. 1 \in 1 .. 2 /\ 2 \in 1 .. 2 /\ (i - 1) + 1 = i /\ (i - 1) + 2 = i + 1
        BY <1>0
    <2>2. xy[(i - 1) + 1] = a /\ xy[(i - 1) + 2] = b
        BY <1>3, <1>6, <2>1, Zenon
    <2> QED
        BY <1>6, <2>1, <2>2
<1>8. /\ e \in Seq(Cell) /\ Len(e) = (i + 1) + (n - i)
      /\ \A j \in 1 .. i + 1 : e[j] = xy[j]
      /\ \A j \in 1 .. n - i : e[(i + 1) + j] = z[j]
    <2>1. /\ xy \o z \in Seq(Cell) /\ Len(xy \o z) = Len(xy) + Len(z)
          /\ \A j \in 1 .. Len(xy) : (xy \o z)[j] = xy[j]
          /\ \A j \in 1 .. Len(z) : (xy \o z)[Len(xy) + j] = z[j]
        BY <1>4, <1>6, Joined, Zenon
    <2>2. e = xy \o z
        BY <1>1, <1>5, Zenon
    <2> QED
        BY <1>4, <1>7, <2>1, <2>2, Zenon
<1>9. \A j \in 1 .. i - 1 : e[j] = l[j]
    <2> TAKE j \in 1 .. i - 1
    <2>1. j \in 1 .. i + 1
        BY <1>0
    <2> QED
        BY <1>2, <1>6, <1>8, <2>1, Zenon
<1>10. e[i] = a /\ e[i + 1] = b
    <2>1. i \in 1 .. i + 1 /\ i + 1 \in 1 .. i + 1
        BY <1>0
    <2> QED
        BY <1>7, <1>8, <2>1, Zenon
<1>11. ASSUME NEW j \in i + 1 .. n PROVE e[j + 1] = l[j]
    <2>1. PICK k \in 1 .. n - i : j = i + k
        <3>1. j - i \in 1 .. n - i /\ j = i + (j - i)
            BY <1>0
        <3> QED
            BY <3>1, Zenon
    <2>2. (i + 1) + k = j + 1
        BY <1>0, <2>1
    <2> QED
        BY <1>4, <1>8, <2>1, <2>2, Zenon
<1>12. (i + 1) + (n - i) = n + 1
    BY <1>0
<1> QED
    BY <1>0, <1>8, <1>9, <1>10, <1>11, <1>12 DEF IsParted

Splits(l, end, i, a, b) ==
    /\ Tiled(l, end) /\ Apart(l) /\ i \in 1 .. Len(l) /\ ~l[i].used
    /\ a \in Cell /\ b \in Cell /\ a.used /\ ~b.used
    /\ a.addr = l[i].addr /\ b.addr = End(a) /\ End(b) = End(l[i])

\* Splitting a free block keeps the heap tiled and takes the first part.
LEMMA SplitTiles ==
    ASSUME NEW l, NEW end, NEW i, NEW a, NEW b, Splits(l, end, i, a, b),
           NEW e, e = Parted(l, i, a, b)
    PROVE  Tiled(e, end) /\ Apart(e) /\ Taken(e) = Taken(l) \cup {a}
<1> USE DEF Splits
<1>1. PICK n \in Nat : n = Len(l) /\ i \in 1 .. n
    BY DEF Tiled
<1>2. /\ l \in Seq(Cell) /\ end \in Nat /\ l[1].addr = 0 /\ End(l[n]) = end
      /\ \A j \in 1 .. n - 1 : End(l[j]) = l[j + 1].addr
    BY <1>1 DEF Tiled
<1>3. \A j \in 1 .. n - 1 : l[j].used \/ l[j + 1].used
    BY <1>1 DEF Apart
<1>4. /\ e \in Seq(Cell) /\ Len(e) = n + 1 /\ e[i] = a /\ e[i + 1] = b
      /\ \A j \in 1 .. i - 1 : e[j] = l[j]
      /\ \A j \in i + 1 .. n : e[j + 1] = l[j]
    <2>1. IsParted(e, l, i, a, b)
        BY <1>2, PartedIs, Zenon
    <2> QED
        BY <1>1, <2>1, Zenon DEF IsParted
<1>5. ASSUME NEW j \in 1 .. n PROVE End(e[j]) = e[j + 1].addr /\ (e[j].used \/ e[j + 1].used)
    <2>1. CASE j \in 1 .. i - 2
        <3>1. e[j] = l[j] /\ e[j + 1] = l[j + 1] /\ j \in 1 .. n - 1
            BY <1>1, <1>4, <2>1
        <3> QED
            BY <1>2, <1>3, <3>1, Zenon
    <2>2. CASE j = i - 1
        <3>1. e[j] = l[j] /\ e[j + 1] = a /\ j \in 1 .. n - 1 /\ j + 1 = i
            BY <1>1, <1>4, <2>2
        <3>2. End(l[j]) = l[i].addr /\ l[j].used
            BY <1>2, <1>3, <3>1, Zenon
        <3> QED
            BY <3>1, <3>2, Zenon
    <2>3. CASE j = i
        BY <1>4, <2>3, Zenon
    <2>4. CASE j = i + 1
        <3>1. e[j] = b /\ e[j + 1] = l[i + 1] /\ i \in 1 .. n - 1
            BY <1>1, <1>4, <2>4
        <3>2. End(l[i]) = l[i + 1].addr /\ l[i + 1].used
            BY <1>2, <1>3, <3>1, Zenon
        <3> QED
            BY <3>1, <3>2, Zenon
    <2>5. CASE j \in i + 2 .. n
        <3>1. PICK k \in i + 1 .. n - 1 : j = k + 1
            <4>1. j - 1 \in i + 1 .. n - 1 /\ j = (j - 1) + 1
                BY <1>1, <2>5
            <4> QED
                BY <4>1, Zenon
        <3>2. e[k + 1] = l[k] /\ e[(k + 1) + 1] = l[k + 1] /\ k \in 1 .. n - 1
            BY <1>1, <1>4, <3>1
        <3> QED
            BY <1>2, <1>3, <3>1, <3>2, Zenon
    <2>6. j \in 1 .. i - 2 \/ j = i - 1 \/ j = i \/ j = i + 1 \/ j \in i + 2 .. n
        BY <1>1
    <2> QED
        BY <2>1, <2>2, <2>3, <2>4, <2>5, <2>6, Zenon
<1>6. e[1].addr = 0
    <2>1. CASE i = 1
        BY <1>2, <1>4, <2>1, Zenon
    <2>2. CASE i # 1
        <3>1. 1 \in 1 .. i - 1
            BY <1>1, <2>2
        <3> QED
            BY <1>2, <1>4, <3>1, Zenon
    <2> QED
        BY <2>1, <2>2, Zenon
<1>7. End(e[n + 1]) = end
    <2>1. CASE i = n
        BY <1>2, <1>4, <2>1, Zenon
    <2>2. CASE i # n
        <3>1. n \in i + 1 .. n
            BY <1>1, <2>2
        <3> QED
            BY <1>2, <1>4, <3>1, Zenon
    <2> QED
        BY <2>1, <2>2, Zenon
<1>8. Tiled(e, end)
    BY <1>2, <1>4, <1>5, <1>6, <1>7 DEF Tiled
<1>9. Apart(e)
    BY <1>4, <1>5 DEF Apart
<1>10. Taken(e) = Taken(l) \cup {a}
    <2>1. ASSUME NEW x PROVE x \in Taken(e) <=> \E j \in 1 .. n + 1 : x = e[j] /\ e[j].used
        BY <1>4 DEF Taken
    <2>2. ASSUME NEW x PROVE x \in Taken(l) <=> \E j \in 1 .. n : x = l[j] /\ l[j].used
        BY <1>1 DEF Taken
    <2>3. ASSUME NEW j \in 1 .. n, l[j].used PROVE \E k \in 1 .. n + 1 : e[k] = l[j]
        <3>1. CASE j \in 1 .. i - 1
            <4>1. j \in 1 .. n + 1 /\ e[j] = l[j]
                BY <1>4, <3>1
            <4> QED
                BY <4>1, Zenon
        <3>2. CASE j \in i + 1 .. n
            <4>1. j + 1 \in 1 .. n + 1 /\ e[j + 1] = l[j]
                BY <1>4, <3>2
            <4> QED
                BY <4>1, Zenon
        <3>3. j # i
            BY <2>3, Zenon
        <3>4. j \in 1 .. i - 1 \/ j \in i + 1 .. n
            BY <1>1, <3>3
        <3> QED
            BY <3>1, <3>2, <3>4, Zenon
    <2>4. ASSUME NEW j \in 1 .. n + 1, e[j].used PROVE e[j] = a \/ \E k \in 1 .. n : e[j] = l[k]
        <3>1. CASE j \in 1 .. i - 1
            <4>1. j \in 1 .. n /\ e[j] = l[j]
                BY <1>1, <1>4, <3>1
            <4> QED
                BY <4>1, Zenon
        <3>2. CASE j \in i + 2 .. n + 1
            <4>1. j - 1 \in i + 1 .. n /\ j - 1 \in 1 .. n /\ (j - 1) + 1 = j
                BY <1>1, <3>2
            <4>2. e[(j - 1) + 1] = l[j - 1]
                BY <1>4, <4>1, Zenon
            <4>3. e[j] = l[j - 1]
                BY <4>1, <4>2
            <4> QED
                BY <4>1, <4>3, Zenon
        <3>3. j # i + 1
            BY <1>4, <2>4, Zenon
        <3>4. j \in 1 .. i - 1 \/ j = i \/ j \in i + 2 .. n + 1
            BY <1>1, <3>3
        <3> QED
            BY <1>4, <3>1, <3>2, <3>4, Zenon
    <2>5. ASSUME NEW x \in Taken(e) PROVE x \in Taken(l) \cup {a}
        <3>1. PICK j \in 1 .. n + 1 : x = e[j] /\ e[j].used
            BY <2>1, Zenon
        <3>2. x = a \/ \E k \in 1 .. n : x = l[k]
            BY <2>4, <3>1, Zenon
        <3> QED
            BY <2>2, <3>1, <3>2, Zenon
    <2>6. ASSUME NEW x \in Taken(l) PROVE x \in Taken(e)
        <3>1. PICK j \in 1 .. n : x = l[j] /\ l[j].used
            BY <2>2, Zenon
        <3>2. PICK k \in 1 .. n + 1 : e[k] = x
            BY <2>3, <3>1, Zenon
        <3> QED
            BY <2>1, <3>1, <3>2, Zenon
    <2>7. a \in Taken(e)
        <3>1. i \in 1 .. n + 1
            BY <1>1
        <3> QED
            BY <1>4, <2>1, <3>1, Zenon
    <2> QED
        BY <2>5, <2>6, <2>7, Zenon
<1> QED
    BY <1>8, <1>9, <1>10, Zenon

-----------------------------------------------------------------------------
\* What callers hold are the used blocks, one each, with room for the request.
Owned(l, al) ==
    /\ al \subseteq [ptr : Nat, size : Nat \ {0}]
    /\ \A a \in al : \E b \in Taken(l) : b.addr + 2 = a.ptr /\ b.size >= a.size
    /\ \A b \in Taken(l) : \E a \in al : a.ptr = b.addr + 2
    /\ \A a, b \in al : a.ptr = b.ptr => a = b

\* The blocks in use are blocks.
LEMMA TakenAreCells ==
    ASSUME NEW l, NEW end, Tiled(l, end)
    PROVE  \A b \in Taken(l) : b \in Cell /\ b.addr \in Nat
<1>1. l \in Seq(Cell)
    BY DEF Tiled
<1>2. \A b \in Taken(l) : b \in Cell
    BY <1>1 DEF Taken
<1> QED
    BY <1>2, EndOfCell

\* Blocks have different addresses.
LEMMA FreeNotTaken ==
    ASSUME NEW l, NEW end, Tiled(l, end), NEW i \in 1 .. Len(l), ~l[i].used, NEW b \in Taken(l)
    PROVE  b.addr # l[i].addr
<1>1. PICK n \in Nat : n = Len(l)
    BY DEF Tiled
<1>2. l \in Seq(Cell) /\ \A j \in 1 .. n : l[j] \in Cell
    BY <1>1 DEF Tiled
<1>3. \A j, k \in 1 .. n : j < k => End(l[j]) <= l[k].addr
    BY <1>1, <1>2, Ordered, Zenon DEF Tiled
<1>4. PICK j \in 1 .. n : b = l[j] /\ l[j].used
    BY <1>1 DEF Taken
<1>5. i \in 1 .. n /\ j # i
    BY <1>1, <1>4, Zenon
<1>6. l[i] \in Cell /\ l[j] \in Cell
    BY <1>2, <1>5
<1>7. End(l[i]) > l[i].addr /\ End(l[j]) > l[j].addr /\ End(l[i]) \in Nat /\ End(l[j]) \in Nat
      /\ l[i].addr \in Nat /\ l[j].addr \in Nat
    BY <1>6, EndOfCell, Zenon
<1>8. CASE j < i
    <2>1. End(l[j]) <= l[i].addr
        BY <1>3, <1>5, <1>8
    <2> QED
        BY <1>4, <1>7, <2>1
<1>9. CASE i < j
    <2>1. End(l[i]) <= l[j].addr
        BY <1>3, <1>5, <1>9
    <2> QED
        BY <1>4, <1>7, <2>1
<1> QED
    BY <1>5, <1>8, <1>9

\* The freed block was its owner's only one.
LEMMA OwnedFree ==
    ASSUME NEW l, NEW end, Tiled(l, end), NEW al, Owned(l, al), NEW a \in al, NEW m,
           Taken(m) = {b \in Taken(l) : b.addr # a.ptr - 2}
    PROVE  Owned(m, al \ {a})
<1>1. a.ptr \in Nat /\ al \subseteq [ptr : Nat, size : Nat \ {0}]
    BY DEF Owned
<1>2. \A b \in Taken(l) : b.addr \in Nat
    BY TakenAreCells
<1>3. ASSUME NEW x \in al \ {a} PROVE \E b \in Taken(m) : b.addr + 2 = x.ptr /\ b.size >= x.size
    <2>1. PICK b \in Taken(l) : b.addr + 2 = x.ptr /\ b.size >= x.size
        BY DEF Owned
    <2>2. x.ptr # a.ptr
        BY Zenon DEF Owned
    <2>3. b.addr # a.ptr - 2
        BY <1>1, <1>2, <2>1, <2>2
    <2> QED
        BY <2>1, <2>3, Zenon
<1>4. ASSUME NEW b \in Taken(m) PROVE \E x \in al \ {a} : x.ptr = b.addr + 2
    <2>1. b \in Taken(l) /\ b.addr # a.ptr - 2
        OBVIOUS
    <2>2. PICK x \in al : x.ptr = b.addr + 2
        BY <2>1 DEF Owned
    <2>3. x # a
        BY <1>1, <1>2, <2>1, <2>2
    <2> QED
        BY <2>2, <2>3, Zenon
<1>5. \A x, y \in al \ {a} : x.ptr = y.ptr => x = y
    BY Zenon DEF Owned
<1> QED
    BY <1>1, <1>3, <1>4, <1>5, Zenon DEF Owned

\* The new block gets an owner.
LEMMA OwnedTake ==
    ASSUME NEW l, NEW end, Tiled(l, end), NEW al, Owned(l, al), NEW c \in Cell, NEW m,
           Taken(m) = Taken(l) \cup {c}, \A b \in Taken(l) : b.addr # c.addr,
           NEW size \in Nat \ {0}, c.size >= size, NEW a, a = [ptr |-> c.addr + 2, size |-> size]
    PROVE  Owned(m, al \cup {a})
<1>1. c.addr \in Nat /\ \A b \in Taken(l) : b.addr \in Nat
    BY TakenAreCells, EndOfCell
<1>2. a.ptr = c.addr + 2 /\ a.size = size /\ a \in [ptr : Nat, size : Nat \ {0}]
    BY <1>1
<1>3. ASSUME NEW x \in al PROVE x.ptr # a.ptr
    <2>1. PICK b \in Taken(l) : b.addr + 2 = x.ptr
        BY DEF Owned
    <2>2. b.addr # c.addr
        OBVIOUS
    <2> QED
        BY <1>1, <1>2, <2>1, <2>2
<1>4. al \cup {a} \subseteq [ptr : Nat, size : Nat \ {0}]
    BY <1>2, Zenon DEF Owned
<1>5. ASSUME NEW x \in al \cup {a} PROVE \E b \in Taken(m) : b.addr + 2 = x.ptr /\ b.size >= x.size
    <2>1. CASE x = a
        BY <1>2, <2>1, Zenon
    <2>2. CASE x \in al
        <3>1. PICK b \in Taken(l) : b.addr + 2 = x.ptr /\ b.size >= x.size
            BY <2>2, Zenon DEF Owned
        <3> QED
            BY <3>1, Zenon
    <2> QED
        BY <2>1, <2>2, Zenon
<1>6. ASSUME NEW b \in Taken(m) PROVE \E x \in al \cup {a} : x.ptr = b.addr + 2
    <2>1. CASE b = c
        BY <1>2, <2>1, Zenon
    <2>2. CASE b \in Taken(l)
        <3>1. PICK x \in al : x.ptr = b.addr + 2
            BY <2>2, Zenon DEF Owned
        <3> QED
            BY <3>1, Zenon
    <2> QED
        BY <2>1, <2>2, Zenon
<1>7. \A x, y \in al \cup {a} : x.ptr = y.ptr => x = y
    <2>1. \A x, y \in al : x.ptr = y.ptr => x = y
        BY Zenon DEF Owned
    <2> QED
        BY <1>3, <2>1, Zenon
<1> QED
    BY <1>4, <1>5, <1>6, <1>7, Zenon DEF Owned

-----------------------------------------------------------------------------
\* The heap's blocks and its owners.
BlocksOK ==
    /\ Tiled(list, heap_committed) /\ Apart(list) /\ Owned(list, allocated)
    /\ heap_committed <= KHEAP_MAX_PAGES * PAGE_SIZE

\* The form of the invariant used here is the one TLC checks.
LEMMA BlocksAreExact == BlocksOK => HeapIsExact
<1> SUFFICES ASSUME BlocksOK PROVE HeapIsExact
    OBVIOUS
<1>1. PICK n \in Nat : n = Len(list)
    BY DEF BlocksOK, Tiled
<1>2. /\ list \in Seq(Cell) /\ DOMAIN list = 1 .. n /\ \A i \in 1 .. n : list[i] \in Cell
      /\ heap_committed \in Nat
      /\ n # 0 => list[1].addr = 0 /\ End(list[n]) = heap_committed
      /\ \A i \in 1 .. n - 1 : End(list[i]) = list[i + 1].addr
    BY <1>1 DEF BlocksOK, Tiled
<1>3. \A i, j \in 1 .. n : i < j => End(list[i]) <= list[j].addr
    BY <1>1, <1>2, Ordered, Zenon
<1>4. ASSUME NEW i \in 1 .. n
      PROVE  /\ list[i].addr \in Nat /\ list[i].size \in Nat \ {0} /\ End(list[i]) \in Nat
             /\ End(list[i]) > list[i].addr
    BY <1>2, EndOfCell
<1>5. ASSUME NEW i \in 1 .. n PROVE End(list[i]) <= heap_committed
    <2>1. n \in 1 .. n /\ n # 0
        OBVIOUS
    <2>2. CASE i = n
        BY <1>2, <2>1, <2>2
    <2>3. CASE i < n
        <3>1. End(list[i]) <= list[n].addr /\ End(list[n]) = heap_committed
            BY <1>2, <1>3, <2>1, <2>3
        <3>2. list[n].addr \in Nat /\ End(list[n]) > list[n].addr /\ End(list[i]) \in Nat
            BY <1>4, <2>1, Zenon
        <3> QED
            BY <1>2, <3>1, <3>2
    <2> QED
        BY <2>2, <2>3
<1>6. heap_validate
    <2> SUFFICES ASSUME NEW i \in 1 .. n
                 PROVE  /\ list[i].addr >= 0 /\ list[i].addr < heap_committed
                        /\ list[i].size # 0
                        /\ End(list[i]) <= heap_committed
                        /\ i < n =>
                             /\ list[i + 1].addr > list[i].addr
                             /\ list[i + 1].addr <= heap_committed
                             /\ ~(/\ ~list[i].used /\ ~list[i + 1].used
                                   /\ End(list[i]) = list[i + 1].addr)
        BY <1>1, <1>2, Zenon DEF heap_validate
    <2>1. /\ list[i].addr >= 0 /\ list[i].addr < heap_committed
          /\ list[i].size # 0 /\ End(list[i]) <= heap_committed
        BY <1>2, <1>4, <1>5
    <2>2. ASSUME i < n
          PROVE  /\ list[i + 1].addr > list[i].addr /\ list[i + 1].addr <= heap_committed
                 /\ (list[i].used \/ list[i + 1].used)
        <3>1. i \in 1 .. n - 1 /\ i \in 1 .. Len(list) - 1
            BY <1>1, <2>2
        <3>2. End(list[i]) = list[i + 1].addr
            BY <1>2, <3>1, Zenon
        <3>3. list[i].used \/ list[i + 1].used
            BY <3>1, Zenon DEF BlocksOK, Apart
        <3> QED
            BY <1>4, <1>5, <3>2, <3>3
    <2> QED
        BY <2>1, <2>2, Zenon
<1>7. \A x : x \in Taken(list) <=> \E i \in 1 .. n : x = list[i] /\ list[i].used
    BY <1>1 DEF Taken
<1>8. {list[i].addr + HEAP_HDR_SIZE : i \in {j \in DOMAIN list : list[j].used}}
        = {a.ptr : a \in allocated}
    <2>1. ASSUME NEW i \in 1 .. n, list[i].used
          PROVE  \E a \in allocated : list[i].addr + HEAP_HDR_SIZE = a.ptr
        <3>1. list[i] \in Taken(list)
            BY <1>7, <2>1, Zenon
        <3> QED
            BY <3>1, Zenon DEF BlocksOK, Owned, HEAP_HDR_SIZE
    <2>2. ASSUME NEW a \in allocated
          PROVE  \E i \in 1 .. n : list[i].used /\ list[i].addr + HEAP_HDR_SIZE = a.ptr
        <3>1. PICK b \in Taken(list) : b.addr + 2 = a.ptr
            BY Zenon DEF BlocksOK, Owned
        <3>2. PICK i \in 1 .. n : b = list[i] /\ list[i].used
            BY <1>7, Zenon
        <3> QED
            BY <3>1, <3>2, Zenon DEF HEAP_HDR_SIZE
    <2>3. ASSUME NEW x
          PROVE  x \in {list[i].addr + HEAP_HDR_SIZE : i \in {j \in DOMAIN list : list[j].used}}
                   <=> \E i \in 1 .. n : list[i].used /\ x = list[i].addr + HEAP_HDR_SIZE
        BY <1>2, Zenon
    <2>4. ASSUME NEW x
          PROVE  x \in {a.ptr : a \in allocated}
                   <=> \E i \in 1 .. n : list[i].used /\ x = list[i].addr + HEAP_HDR_SIZE
        <3>1. ASSUME NEW i \in 1 .. n, list[i].used, x = list[i].addr + HEAP_HDR_SIZE
              PROVE  x \in {a.ptr : a \in allocated}
            BY <2>1, <3>1, Zenon
        <3>2. ASSUME NEW a \in allocated, x = a.ptr
              PROVE  \E i \in 1 .. n : list[i].used /\ x = list[i].addr + HEAP_HDR_SIZE
            BY <2>2, <3>2, Zenon
        <3> QED
            BY <3>1, <3>2, Zenon
    <2> QED
        BY <2>3, <2>4, Zenon
<1>9. \A a \in allocated : \E i \in DOMAIN list :
          list[i].addr + HEAP_HDR_SIZE = a.ptr /\ list[i].size >= a.size
    <2> TAKE a \in allocated
    <2>1. PICK b \in Taken(list) : b.addr + 2 = a.ptr /\ b.size >= a.size
        BY Zenon DEF BlocksOK, Owned
    <2>2. PICK i \in 1 .. n : b = list[i]
        BY <1>7, Zenon
    <2> QED
        BY <1>2, <2>1, <2>2, Zenon DEF HEAP_HDR_SIZE
<1>10. \A a, b \in allocated : a.ptr = b.ptr => a = b
    BY Zenon DEF BlocksOK, Owned
<1>11. list # <<>> => list[1].addr = 0 /\ End(list[Len(list)]) = heap_committed
    BY <1>1, <1>2
<1>12. \A i \in 1 .. Len(list) - 1 : End(list[i]) = list[i + 1].addr
    BY <1>1, <1>2
<1> QED
    BY <1>6, <1>8, <1>9, <1>10, <1>11, <1>12, Zenon DEF HeapIsExact, BlocksOK

\* Where the rest of a split block begins, and how large it is.
LEMMA SplitPlaces ==
    ASSUME NEW base \in Nat, NEW size \in Nat \ {0}, NEW rest \in Nat, ~(rest < HEAP_MIN_SPLIT)
    PROVE  \E at \in Nat, s \in Nat \ {0} :
              /\ at = base + HEAP_HDR_SIZE + size /\ at = base + 2 + size
              /\ s = rest - HEAP_HDR_SIZE /\ s + 2 = rest
    BY DEF HEAP_HDR_SIZE, HEAP_MIN_SPLIT

\* heap_alloc takes a block.
LEMMA TakeOK ==
    ASSUME BlocksOK, NEW size \in Nat \ {0}, Fits(size) # {}, take_first_fit(size)
    PROVE  BlocksOK'
<1>1. PICK n \in Nat : n = Len(list)
    BY DEF BlocksOK, Tiled
<1>2. /\ list \in Seq(Cell) /\ DOMAIN list = 1 .. n /\ \A i \in 1 .. n : list[i] \in Cell
    BY <1>1 DEF BlocksOK, Tiled
<1>3. Fits(size) \in SUBSET Nat
    BY <1>2 DEF Fits
<1>4. PICK i : i = Min(Fits(size)) /\ i \in Fits(size)
    BY <1>3, LeastOfNaturals DEF Min
<1>5. i \in 1 .. n /\ i \in 1 .. Len(list) /\ ~list[i].used /\ list[i].size >= size
    BY <1>1, <1>2, <1>4 DEF Fits
<1>6. list[i] \in Cell /\ list[i].size \in Nat \ {0} /\ list[i].addr \in Nat
    BY <1>2, <1>5, EndOfCell
<1>7. \A b \in Taken(list) : b.addr # list[i].addr
    BY <1>5, FreeNotTaken DEF BlocksOK
<1>8. PICK rest \in Nat : rest = list[i].size - size
    BY <1>5, <1>6
<1>9. /\ allocated' = allocated \cup {[ptr |-> list[i].addr + 2, size |-> size]}
      /\ heap_committed' = heap_committed
      /\ rest < HEAP_MIN_SPLIT => list' = Marked(list, i)
      /\ ~(rest < HEAP_MIN_SPLIT) =>
            list' = Parted(list, i, Block(list[i].addr, size, TRUE),
                       Block(list[i].addr + HEAP_HDR_SIZE + size, rest - HEAP_HDR_SIZE, FALSE))
    BY <1>4, <1>8, Zenon DEF take_first_fit, Marked, Parted, HEAP_HDR_SIZE
<1>10. ASSUME NEW c \in Cell, c.addr = list[i].addr, c.size >= size,
              Taken(list') = Taken(list) \cup {c}
       PROVE  Owned(list', allocated')
    <2>1. Owned(list', allocated \cup {[ptr |-> c.addr + 2, size |-> size]})
        BY <1>7, <1>10, OwnedTake, Zenon DEF BlocksOK
    <2> QED
        BY <1>9, <1>10, <2>1, Zenon
<1>11. CASE rest < HEAP_MIN_SPLIT
    <2>1. /\ Tiled(list', heap_committed) /\ Apart(list')
          /\ \E a \in Cell : /\ Taken(list') = Taken(list) \cup {a}
                             /\ a.addr = list[i].addr /\ a.size = list[i].size
        <3>1. list' = Marked(list, i)
            BY <1>9, <1>11
        <3> QED
            BY <1>5, <3>1, UseTiles DEF BlocksOK
    <2>2. Owned(list', allocated')
        BY <1>5, <1>10, <2>1, Zenon
    <2> QED
        BY <1>9, <2>1, <2>2, Zenon DEF BlocksOK
<1>12. CASE ~(rest < HEAP_MIN_SPLIT)
    <2>1. PICK a, b : /\ a = Block(list[i].addr, size, TRUE)
                      /\ b = Block(list[i].addr + HEAP_HDR_SIZE + size, rest - HEAP_HDR_SIZE, FALSE)
                      /\ list' = Parted(list, i, a, b)
        BY <1>9, <1>12, Zenon
    <2>2. PICK yes \in BOOLEAN, no \in BOOLEAN : yes = TRUE /\ no = FALSE
        BY Zenon
    <2>3. PICK at \in Nat, s \in Nat \ {0} :
             /\ at = list[i].addr + HEAP_HDR_SIZE + size /\ at = list[i].addr + 2 + size
             /\ s = rest - HEAP_HDR_SIZE /\ s + 2 = rest
        <3>1. PICK base \in Nat : base = list[i].addr
            BY <1>6, Zenon
        <3>2. \E at \in Nat, s \in Nat \ {0} :
                 /\ at = base + HEAP_HDR_SIZE + size /\ at = base + 2 + size
                 /\ s = rest - HEAP_HDR_SIZE /\ s + 2 = rest
            BY <1>12, SplitPlaces
        <3> QED
            BY <3>1, <3>2, Zenon
    <2>4. /\ a \in Cell /\ a.addr = list[i].addr /\ a.size = size /\ a.used = yes
          /\ End(a) = list[i].addr + 2 + size
        <3>1. a = Block(list[i].addr, size, yes)
            BY <2>1, <2>2, Zenon
        <3>2. PICK base \in Nat : base = list[i].addr
            BY <1>6, Zenon
        <3>3. a = Block(base, size, yes)
            BY <3>1, <3>2, Zenon
        <3>4. /\ a \in Cell /\ a.addr = base /\ a.size = size /\ a.used = yes
              /\ End(a) = base + 2 + size
            BY <3>3, SMT DEF Block, Cell, End, HEAP_HDR_SIZE
        <3> QED
            BY <3>2, <3>4, Zenon
    <2>5. b \in Cell /\ b.addr = at /\ b.used = no /\ End(b) = at + 2 + s
        <3>1. b = Block(at, s, no)
            BY <2>1, <2>2, <2>3, Zenon
        <3> QED
            BY <3>1, SMT DEF Block, Cell, End, HEAP_HDR_SIZE
    <2>6. b.addr = End(a) /\ End(b) = End(list[i])
        <3>1. End(list[i]) = list[i].addr + 2 + list[i].size
            BY <1>6, EndOfCell, Zenon
        <3>2. b.addr = End(a)
            BY <2>3, <2>4, <2>5, Zenon
        <3>3. End(b) = (list[i].addr + 2 + size) + 2 + s
            BY <2>3, <2>5, Zenon
        <3> QED
            BY <1>6, <1>8, <2>3, <3>1, <3>2, <3>3
    <2>7. a.used /\ ~b.used
        BY <2>2, <2>4, <2>5, Zenon
    <2>8. Tiled(list', heap_committed) /\ Apart(list') /\ Taken(list') = Taken(list) \cup {a}
        <3>1. Splits(list, heap_committed, i, a, b)
            BY <1>5, <2>4, <2>5, <2>6, <2>7, Zenon DEF Splits, BlocksOK
        <3>2. list' = Parted(list, i, a, b)
            BY <2>1, Zenon
        <3> QED
            BY <3>1, <3>2, SplitTiles, SMT
    <2>9. Owned(list', allocated')
        <3>1. a.size >= size
            BY <2>4
        <3> QED
            BY <1>10, <2>4, <2>8, <3>1, Zenon
    <2> QED
        BY <1>9, <2>8, <2>9, Zenon DEF BlocksOK
<1> QED
    BY <1>11, <1>12, Zenon

\* heap_free gives one back.
LEMMA FreeOK ==
    ASSUME BlocksOK, NEW a \in allocated, heap_free(a)
    PROVE  BlocksOK'
<1>1. PICK m : m = Freed(list, a.ptr - 2)
    BY Zenon
<1>2. list' = heap_coalesce(m) /\ allocated' = allocated \ {a} /\ heap_committed' = heap_committed
    BY <1>1, Zenon DEF heap_free, Freed, HEAP_HDR_SIZE
<1>3. Tiled(m, heap_committed) /\ Taken(m) = {b \in Taken(list) : b.addr # a.ptr - 2}
    BY <1>1, FreeTiles DEF BlocksOK
<1>4. Tiled(list', heap_committed) /\ Apart(list') /\ Taken(list') = Taken(m)
    BY <1>2, <1>3, CoalesceTiles, Zenon
<1>5. Owned(list', allocated \ {a})
    <2>1. Taken(list') = {b \in Taken(list) : b.addr # a.ptr - 2}
        BY <1>3, <1>4, Zenon
    <2> QED
        BY <2>1, OwnedFree, Zenon DEF BlocksOK
<1> QED
    BY <1>2, <1>4, <1>5, Zenon DEF BlocksOK

-----------------------------------------------------------------------------
\* What is assumed of the page size.
LEMMA PageFacts == PAGE_SIZE \in Nat /\ PAGE_SIZE > 2 /\ KHEAP_MAX_PAGES \in Nat \ {0}
    BY HeapAssumption DEF HEAP_HDR_SIZE

\* The last block is free and with its header fills the last units of the heap.
FreeTail(l, units) == Len(l) # 0 /\ ~l[Len(l)].used /\ l[Len(l)].size + 2 >= units

\* A page more: the blocks tile it too, and a free tail grows by it.
LEMMA GrownOK ==
    ASSUME BlocksOK
    PROVE  /\ Tiled(grown, heap_committed + PAGE_SIZE) /\ Apart(grown) /\ Taken(grown) = Taken(list)
           /\ FreeTail(grown, PAGE_SIZE)
           /\ \A units \in Nat : FreeTail(list, units) => FreeTail(grown, units + PAGE_SIZE)
<1>1. PICK end \in Nat : /\ end = heap_committed /\ Tiled(list, end)
                         /\ Apart(list) /\ list \in Seq(Cell)
    BY Zenon DEF BlocksOK, Tiled
<1>2. PICK s \in Nat \ {0} : s = PAGE_SIZE - HEAP_HDR_SIZE /\ s + 2 = PAGE_SIZE
    BY PageFacts DEF HEAP_HDR_SIZE
<1>3. PICK no \in BOOLEAN : no = FALSE
    BY Zenon
<1>4. PICK b : b = Block(end, s, no)
    BY Zenon
<1>5. b \in Cell /\ b.addr = end /\ b.size = s /\ b.used = no /\ End(b) = end + 2 + s
    BY <1>4, SMT DEF Block, Cell, End, HEAP_HDR_SIZE
<1>6. ~b.used /\ Tiled(list, b.addr) /\ End(b) = heap_committed + PAGE_SIZE
    <2>1. end + 2 + s = end + PAGE_SIZE
        BY <1>2
    <2> QED
        BY <1>1, <1>3, <1>5, <2>1, Zenon
<1>7. PICK g : g = grown /\ g = merge(list, b)
    <2>1. grown = heap_coalesce(Append(list, b))
        BY <1>1, <1>2, <1>3, <1>4, Zenon DEF grown
    <2>2. heap_coalesce(Append(list, b)) = merge(list, b)
        BY <1>1, <1>5, CoalesceLast, Zenon
    <2> QED
        BY <2>1, <2>2, Zenon
<1>8. Tiled(g, End(b)) /\ Apart(g) /\ Taken(g) = Taken(list) \cup {x \in {b} : x.used}
    BY <1>1, <1>5, <1>6, <1>7, MergeTiles
<1>9. Taken(g) = Taken(list)
    BY <1>6, <1>8, Zenon
<1>10. /\ Len(g) \in Nat \ {0} /\ ~g[Len(g)].used /\ g[Len(g)].size >= b.size
       /\ Len(list) # 0 /\ ~list[Len(list)].used
            => g[Len(g)].size = list[Len(list)].size + 2 + b.size
    BY <1>5, <1>6, <1>7, MergeLast
<1>11. g[Len(g)].size \in Nat
    <2>1. g \in Seq(Cell) /\ g[Len(g)] \in Cell
        BY <1>8, <1>10 DEF Tiled
    <2> QED
        BY <2>1, EndOfCell
<1>12. FreeTail(g, PAGE_SIZE)
    <2>1. g[Len(g)].size + 2 >= PAGE_SIZE
        BY <1>2, <1>5, <1>10, <1>11, PageFacts
    <2> QED
        BY <1>10, <2>1 DEF FreeTail
<1>13. ASSUME NEW units \in Nat, FreeTail(list, units) PROVE FreeTail(g, units + PAGE_SIZE)
    <2>1. g[Len(g)].size = list[Len(list)].size + 2 + s /\ list[Len(list)].size + 2 >= units
        BY <1>5, <1>10, <1>13, Zenon DEF FreeTail
    <2>2. list[Len(list)] \in Cell
        BY <1>1, <1>13 DEF FreeTail
    <2>3. list[Len(list)].size \in Nat
        BY <2>2, EndOfCell
    <2>4. g[Len(g)].size + 2 >= units + PAGE_SIZE
        BY <1>2, <2>1, <2>3, PageFacts
    <2> QED
        BY <1>10, <2>4 DEF FreeTail
<1> QED
    BY <1>6, <1>7, <1>8, <1>9, <1>12, <1>13, Zenon

\* Rounding down loses less than a divisor.
LEMMA Quotient ==
    ASSUME NEW x \in Nat, NEW P \in Nat \ {0}
    PROVE  x \div P \in Nat /\ x < P * (x \div P) + P
    OBVIOUS

\* The pages heap_grow asks for hold the request and its header.
LEMMA PagesHold ==
    ASSUME NEW size \in Nat \ {0}
    PROVE  pages_needed(size) \in Nat \ {0} /\ pages_needed(size) * PAGE_SIZE >= size + 2
<1>1. PICK P \in Nat : P = PAGE_SIZE /\ P > 2
    BY PageFacts
<1>2. PICK x \in Nat : x = size + HEAP_HDR_SIZE + P - 1 /\ x = size + 1 + P
    BY <1>1 DEF HEAP_HDR_SIZE
<1>3. PICK q : q = x \div P
    BY Zenon
<1>4. q \in Nat /\ x < P * q + P
    BY <1>1, <1>3, Quotient
<1>5. P * q >= size + 2
    BY <1>1, <1>2, <1>4
<1>6. q > 0
    <2>1. ASSUME q = 0 PROVE P * q = 0
        BY <1>1, <2>1
    <2> QED
        BY <1>4, <1>5, <2>1
<1>7. q * P = P * q
    BY <1>1, <1>4
<1>8. pages_needed(size) = q
    BY <1>1, <1>2, <1>3, Zenon DEF pages_needed
<1> QED
    BY <1>1, <1>4, <1>5, <1>6, <1>7, <1>8

\* The heap grows in whole pages up to its limit.
LEMMA WholePages ==
    ASSUME NEW n \in Nat, NEW m \in Nat, NEW P \in Nat, P > 0, P * n < m * P
    PROVE  P * n + P = P * (n + 1) /\ P * n + P <= m * P
<1>1. n + 1 <= m
    <2> SUFFICES ASSUME n >= m PROVE FALSE
        OBVIOUS
    <2>1. P * n >= P * m
        OBVIOUS
    <2>2. P * m = m * P
        OBVIOUS
    <2> QED
        BY <2>1, <2>2
<1>2. PICK k \in Nat : m = n + 1 + k
    <2>1. m - (n + 1) \in Nat /\ m = n + 1 + (m - (n + 1))
        BY <1>1
    <2> QED
        BY <2>1, Zenon
<1>3. m * P = P * n + P + k * P
    BY <1>2
<1>4. k * P \in Nat
    OBVIOUS
<1> QED
    BY <1>3, <1>4

-----------------------------------------------------------------------------
\* An allocation under way: the pages it has added so far lie free at the end.
Growing ==
    heap.op \in {"grow", "retry"} =>
        /\ heap.size \in Nat \ {0} /\ heap.pages \in Nat
        /\ heap.op = "grow" => heap.pages > 0
        /\ heap.op = "retry" => heap.pages = 0
        /\ \E done \in Nat : /\ done + heap.pages = pages_needed(heap.size)
                             /\ done > 0 => FreeTail(list, done * PAGE_SIZE)

HeapInv ==
    /\ load \in Load
    /\ heap \in [op : {"init", "none", "grow", "retry"}, size : Nat, pages : Nat]
    /\ BlocksOK
    /\ Growing

\* The frames of the search are different ones.
Once(pages) == \A i, j \in 1 .. Len(pages) : pages[i] = pages[j] => i = j

FrameInv ==
    /\ FramesAreAccounted
    /\ cursor \in [op : {"never", "search", "release", "done"}, pages : Seq(Ram), base : Nat]
    /\ Once(cursor.pages)
    /\ cursor.op \in {"never", "search"} => cursor.base = 0
    /\ cursor.op \in {"never", "done"} => cursor.pages = <<>>
    /\ heap.op = "init" => held = {} /\ cursor.op = "never"

MInv == IInv /\ HeapInv /\ FrameInv

\* Steps that leave the heap alone.
LEMMA HeapSame == HeapInv /\ UNCHANGED <<area, heap>> => HeapInv'
    BY DEF HeapInv, area, BlocksOK, Growing

\* Steps that leave the frames alone.
LEMMA FrameSame ==
    ASSUME FrameInv, UNCHANGED <<held, mapped, heap_committed, others, cursor>>, heap'.op # "init"
    PROVE  FrameInv'
    BY DEF FrameInv, FramesAreAccounted, Run

\* A frame that pmm_alloc_page returns was nobody's.
LEMMA AllocGives ==
    ASSUME IInv, pmm_alloc_page
    PROVE  /\ IInv'
           /\ \/ eax' = 0 /\ held' = held /\ Ram \ Reserved \subseteq held
              \/ eax' # 0 /\ eax' \in Ram /\ eax' \notin held /\ held' = held \cup {eax'}
<1>1. IInv'
    BY AllocHolds
<1>2. CASE Clear = {}
    <2>1. eax' = 0 /\ held' = held
        BY <1>2 DEF pmm_alloc_page, Clear
    <2>2. Frame \subseteq used
        BY <1>2 DEF IInv, TypeOK, HintIsSound, Clear, Frame
    <2>3. Ram \ Reserved \subseteq held
        BY <2>2 DEF IInv, BitmapIsExact, Frame, Ram
    <2> QED
        BY <1>1, <2>1, <2>3
<1>3. CASE Clear # {}
    <2>1. eax' = Min(Clear) /\ held' = held \cup {Min(Clear)}
        BY <1>3 DEF pmm_alloc_page, Clear
    <2>2. Min(Clear) \in Ram \ Reserved /\ Min(Clear) \notin used
        BY <1>3, ScanFindsFree
    <2>3. Min(Clear) \notin held /\ Min(Clear) # 0
        BY <2>2 DEF IInv, BitmapIsExact, Ram
    <2> QED
        BY <1>1, <2>1, <2>2, <2>3
<1> QED
    BY <1>2, <1>3

\* The heap's pages are finitely many.
LEMMA MappedFinite ==
    ASSUME IInv, FrameInv
    PROVE  IsFiniteSet(mapped) /\ Cardinality(mapped) \in Nat
<1>1. mapped \subseteq MAIN_RAM_START .. MAIN_RAM_END - 1
    BY DEF IInv, TypeOK, FrameInv, FramesAreAccounted, Ram
<1>2. IsFiniteSet(MAIN_RAM_START .. MAIN_RAM_END - 1)
    BY FS_Interval
<1>3. IsFiniteSet(mapped)
    BY <1>1, <1>2, FS_Subset, Zenon
<1> QED
    BY <1>3, FS_CardinalityType

\* A page is added to the heap: heap_init and heap_grow_one_page.
LEMMA PageAdded ==
    ASSUME IInv, HeapInv, FrameInv, pmm_alloc_page, eax' # 0, add_page,
           UNCHANGED <<others, cursor>>,
           heap_committed < KHEAP_MAX_PAGES * PAGE_SIZE, heap'.op # "init"
    PROVE  /\ BlocksOK' /\ load' \in Load /\ FrameInv' /\ list' = grown
<1>1. eax' \in Ram /\ eax' \notin held /\ held' = held \cup {eax'}
    BY AllocGives
<1>2. /\ list' = grown /\ heap_committed' = heap_committed + PAGE_SIZE
      /\ mapped' = mapped \cup {eax'} /\ load' = load /\ allocated' = allocated
    BY DEF add_page
<1>3. PICK n \in Nat : n = Cardinality(mapped) /\ IsFiniteSet(mapped)
    BY MappedFinite
<1>4. Cardinality(mapped') = n + 1
    <2>1. eax' \notin mapped
        BY <1>1 DEF FrameInv, FramesAreAccounted
    <2> QED
        BY <1>2, <1>3, <2>1, FS_AddElement
<1>5. heap_committed = PAGE_SIZE * n
    BY <1>3 DEF FrameInv, FramesAreAccounted
<1>6. PICK P \in Nat : P = PAGE_SIZE /\ P > 0
    BY PageFacts
<1>7. P * n + P = P * (n + 1) /\ P * n + P <= KHEAP_MAX_PAGES * P
    <2>1. P * n < KHEAP_MAX_PAGES * P
        BY <1>5, <1>6, Zenon
    <2>2. KHEAP_MAX_PAGES \in Nat
        BY PageFacts
    <2> QED
        BY <1>6, <2>1, <2>2, WholePages, Zenon
<1>8. heap_committed' = PAGE_SIZE * Cardinality(mapped')
    BY <1>2, <1>4, <1>5, <1>6, <1>7, Zenon
<1>9. heap_committed' <= KHEAP_MAX_PAGES * PAGE_SIZE
    BY <1>2, <1>5, <1>6, <1>7, Zenon
<1>10. BlocksOK'
    <2>1. Tiled(list', heap_committed') /\ Apart(list') /\ Taken(list') = Taken(list)
        BY <1>2, GrownOK, Zenon DEF HeapInv
    <2>2. Owned(list', allocated')
        BY <1>2, <2>1, Zenon DEF HeapInv, BlocksOK, Owned
    <2> QED
        BY <1>9, <2>1, <2>2, Zenon DEF BlocksOK
<1>11. FramesAreAccounted'
    <2>1. /\ held = mapped \cup others \cup Run \cup Range(cursor.pages)
          /\ mapped \cap others = {}
          /\ (Run \cup Range(cursor.pages)) \cap (mapped \cup others) = {}
        BY DEF FrameInv, FramesAreAccounted
    <2>2. Run' = Run
        BY DEF Run
    <2>3. /\ held' = mapped' \cup others' \cup Run' \cup Range(cursor'.pages)
          /\ mapped' \cap others' = {}
          /\ (Run' \cup Range(cursor'.pages)) \cap (mapped' \cup others') = {}
        BY <1>1, <1>2, <2>1, <2>2
    <2> QED
        BY <1>8, <2>3 DEF FramesAreAccounted
<1>12. FrameInv'
    BY <1>11 DEF FrameInv, Once
<1> QED
    BY <1>2, <1>10, <1>12 DEF HeapInv

-----------------------------------------------------------------------------
\* No request is empty.
LEMMA LoadSizes == ASSUME load \in Load, NEW size \in load.sizes PROVE size \in Nat \ {0}
    BY HeapAssumption

\* After it grew the heap has a block for the request.
LEMMA RetryFits == HeapInv => RetrySucceeds
<1> SUFFICES ASSUME HeapInv, heap.op = "retry" PROVE Fits(heap.size) # {}
    BY DEF RetrySucceeds
<1>1. PICK size \in Nat \ {0} : size = heap.size
    BY DEF HeapInv, Growing
<1>2. PICK done \in Nat : /\ done + heap.pages = pages_needed(size) /\ heap.pages = 0
                          /\ done > 0 => FreeTail(list, done * PAGE_SIZE)
    BY <1>1, Zenon DEF HeapInv, Growing
<1>3. done = pages_needed(size) /\ done > 0 /\ done * PAGE_SIZE >= size + 2
    BY <1>2, PagesHold
<1>4. FreeTail(list, done * PAGE_SIZE)
    BY <1>2, <1>3
<1>5. PICK n \in Nat : n = Len(list) /\ n # 0 /\ DOMAIN list = 1 .. n /\ list[n] \in Cell
    BY <1>4 DEF HeapInv, BlocksOK, Tiled, FreeTail
<1>6. list[n].size \in Nat /\ n \in 1 .. n
    BY <1>5, EndOfCell
<1>7. ~list[n].used /\ list[n].size + 2 >= done * PAGE_SIZE
    BY <1>4, <1>5 DEF FreeTail
<1>8. done * PAGE_SIZE \in Nat
    BY PageFacts
<1>9. list[n].size >= size
    BY <1>3, <1>6, <1>7, <1>8
<1>10. n \in Fits(size)
    BY <1>5, <1>6, <1>7, <1>9 DEF Fits
<1> QED
    BY <1>1, <1>10

\* A scan of heap_alloc, the first one or the one after the heap grew.
LEMMA ScanOK ==
    ASSUME IInv, HeapInv, FrameInv, heap.op # "init", NEW size \in Nat \ {0}, scan(size),
           UNCHANGED <<others, cursor>>
    PROVE  IInv' /\ HeapInv' /\ FrameInv'
<1>1. UNCHANGED <<pmm, load, heap_committed, mapped>>
    BY DEF scan, take_first_fit, area
<1>2. IInv'
    BY <1>1 DEF pmm, IInv, TypeOK, BitmapIsExact, HintIsSound
<1>3. CASE Fits(size) # {}
    <2>1. take_first_fit(size)
        BY <1>3 DEF scan
    <2>2. BlocksOK'
        BY <1>3, <2>1, TakeOK DEF HeapInv
    <2>3. heap' = Idle
        BY <2>1 DEF take_first_fit
    <2>4. HeapInv'
        BY <1>1, <2>2, <2>3 DEF HeapInv, Growing, Idle
    <2>5. FrameInv'
        BY <1>1, <2>3, FrameSame DEF pmm, Idle
    <2> QED
        BY <1>2, <2>4, <2>5
<1>4. CASE Fits(size) = {}
    <2>1. heap' = [op |-> "grow", size |-> size, pages |-> pages_needed(size)]
          /\ UNCHANGED <<pmm, area>>
        BY <1>4 DEF scan
    <2>2. pages_needed(size) \in Nat \ {0}
        BY PagesHold
    <2>3. Growing'
        <3>1. heap'.op = "grow" /\ heap'.size = size /\ heap'.pages = pages_needed(size)
            BY <2>1
        <3>2. 0 + pages_needed(size) = pages_needed(size) /\ ~(0 > 0)
            BY <2>2
        <3> QED
            BY <2>2, <3>1, <3>2 DEF Growing
    <2>4. BlocksOK' /\ load' = load
        BY <2>1 DEF HeapInv, BlocksOK, area
    <2>5. HeapInv'
        BY <2>1, <2>2, <2>3, <2>4 DEF HeapInv
    <2>6. FrameInv'
        BY <1>1, <2>1, FrameSame DEF pmm
    <2> QED
        BY <1>2, <2>5, <2>6
<1> QED
    BY <1>3, <1>4

\* heap_init adds the first page: there is one.
LEMMA InitOK ==
    ASSUME IInv, HeapInv, FrameInv, heap_init, UNCHANGED <<others, cursor>>
    PROVE  IInv' /\ HeapInv' /\ FrameInv'
<1>1. heap.op = "init" /\ pmm_alloc_page /\ add_page /\ heap' = Idle
    BY DEF heap_init
<1>2. held = {}
    BY <1>1 DEF FrameInv
<1>3. IInv' /\ eax' # 0
    BY <1>1, <1>2, AllocGives, HeapAssumption
<1>4. heap_committed = 0
    <2>1. mapped = {}
        BY <1>2 DEF FrameInv, FramesAreAccounted
    <2>2. Cardinality(mapped) = 0
        BY <2>1, FS_EmptySet
    <2> QED
        BY <2>2, PageFacts DEF FrameInv, FramesAreAccounted
<1>5. heap_committed < KHEAP_MAX_PAGES * PAGE_SIZE
    BY <1>4, PageFacts
<1>6. heap'.op = "none"
    BY <1>1 DEF Idle
<1>7. BlocksOK' /\ load' \in Load /\ FrameInv'
    BY <1>1, <1>3, <1>5, <1>6, PageAdded
<1>8. HeapInv'
    BY <1>1, <1>7 DEF HeapInv, Growing, Idle
<1> QED
    BY <1>3, <1>7, <1>8

\* heap_grow_one_page.
LEMMA GrowOK ==
    ASSUME IInv, HeapInv, FrameInv, heap_grow_one_page, UNCHANGED <<others, cursor>>
    PROVE  IInv' /\ HeapInv' /\ FrameInv'
<1>1. heap.op = "grow"
    BY DEF heap_grow_one_page
<1>2. ASSUME grow_fails, IInv', held' = held PROVE IInv' /\ HeapInv' /\ FrameInv'
    <2>1. heap' = Idle /\ UNCHANGED area
        BY <1>2 DEF grow_fails
    <2>2. HeapInv'
        BY <2>1 DEF HeapInv, BlocksOK, Growing, Idle, area
    <2>3. FrameInv'
        BY <1>2, <2>1, FrameSame DEF Idle, area
    <2> QED
        BY <1>2, <2>2, <2>3
<1>3. CASE grow_fails /\ UNCHANGED pmm
    <2>1. IInv' /\ held' = held
        BY <1>3 DEF pmm, IInv, TypeOK, BitmapIsExact, HintIsSound
    <2> QED
        BY <1>2, <1>3, <2>1
<1>4. CASE pmm_alloc_page /\ eax' = 0 /\ grow_fails
    <2>1. IInv' /\ held' = held
        BY <1>4, AllocGives
    <2> QED
        BY <1>2, <1>4, <2>1
<1>5. CASE /\ heap_committed < KHEAP_MAX_PAGES * PAGE_SIZE /\ pmm_alloc_page /\ eax' # 0 /\ add_page
           /\ heap' = [heap EXCEPT !.pages = @ - 1,
                                   !.op = IF heap.pages = 1 THEN "retry" ELSE "grow"]
    <2>1. IInv'
        BY <1>5, AllocGives
    <2>2. heap \in [op : {"init", "none", "grow", "retry"}, size : Nat, pages : Nat]
        BY DEF HeapInv
    <2>3. PICK size \in Nat \ {0}, pages \in Nat, done \in Nat :
             /\ size = heap.size /\ pages = heap.pages /\ pages > 0
             /\ done + pages = pages_needed(size)
             /\ done > 0 => FreeTail(list, done * PAGE_SIZE)
        BY <1>1, Zenon DEF HeapInv, Growing
    <2>4. PICK to : to = IF pages = 1 THEN "retry" ELSE "grow"
        BY Zenon
    <2>5. heap' = [heap EXCEPT !.pages = pages - 1, !.op = to]
        BY <1>5, <2>3, <2>4, Zenon
    <2>6. heap' = [op |-> to, size |-> size, pages |-> pages - 1]
        BY <2>2, <2>3, <2>5, Zenon
    <2>7. heap'.op = to /\ heap'.size = size /\ heap'.pages = pages - 1 /\ to \in {"grow", "retry"}
        BY <2>4, <2>6
    <2>8. BlocksOK' /\ load' \in Load /\ FrameInv' /\ list' = grown
        BY <1>5, <2>7, PageAdded
    <2>9. /\ FreeTail(grown, PAGE_SIZE)
          /\ \A u \in Nat : FreeTail(list, u) => FreeTail(grown, u + PAGE_SIZE)
        BY GrownOK DEF HeapInv
    <2>10. FreeTail(list', (done + 1) * PAGE_SIZE)
        <3>1. done * PAGE_SIZE \in Nat /\ (done + 1) * PAGE_SIZE = done * PAGE_SIZE + PAGE_SIZE
            BY PageFacts
        <3>2. CASE done = 0
            <4>1. (done + 1) * PAGE_SIZE = PAGE_SIZE
                BY <3>2, PageFacts
            <4> QED
                BY <2>8, <2>9, <4>1, Zenon
        <3>3. CASE done > 0
            BY <2>3, <2>8, <2>9, <3>1, <3>3, Zenon
        <3>4. done = 0 \/ done > 0
            OBVIOUS
        <3> QED
            BY <3>2, <3>3, <3>4, Zenon
    <2>11. Growing'
        <3>1. pages - 1 \in Nat /\ done + 1 \in Nat /\ (done + 1) + (pages - 1) = pages_needed(size)
            BY <2>3
        <3>2. (to = "grow" => pages - 1 > 0) /\ (to = "retry" => pages - 1 = 0)
            BY <2>3, <2>4
        <3> QED
            BY <2>7, <2>10, <3>1, <3>2, Zenon DEF Growing
    <2>12. HeapInv'
        BY <2>3, <2>6, <2>7, <2>8, <2>11 DEF HeapInv
    <2> QED
        BY <2>1, <2>8, <2>12
<1> QED
    BY <1>3, <1>4, <1>5 DEF heap_grow_one_page

\* heap_free.
LEMMA HeapFreeOK ==
    ASSUME IInv, HeapInv, FrameInv, NEW a \in allocated, heap_free(a), UNCHANGED <<others, cursor>>
    PROVE  IInv' /\ HeapInv' /\ FrameInv'
<1>1. heap.op = "none" /\ UNCHANGED <<pmm, load, heap_committed, mapped, heap>>
    BY DEF heap_free
<1>2. IInv'
    BY <1>1 DEF pmm, IInv, TypeOK, BitmapIsExact, HintIsSound
<1>3. BlocksOK'
    BY FreeOK DEF HeapInv
<1>4. HeapInv'
    BY <1>1, <1>3 DEF HeapInv, Growing
<1>5. FrameInv'
    BY <1>1, FrameSame DEF pmm
<1> QED
    BY <1>2, <1>4, <1>5

-----------------------------------------------------------------------------
\* The frames of the search and of the cursor.
Searched == Run \cup Range(cursor.pages)

\* The elements of a sequence.
LEMMA InRange ==
    ASSUME NEW s, s \in Seq(Ram), NEW n, n = Len(s)
    PROVE  \A x : x \in Range(s) <=> \E i \in 1 .. n : x = s[i]
    BY DEF Range

\* Another user of the frame allocator takes a frame.
LEMMA PageAllocOK ==
    ASSUME IInv, HeapInv, FrameInv, page_alloc
    PROVE  IInv' /\ HeapInv' /\ FrameInv'
<1>1. /\ heap.op = "none" /\ pmm_alloc_page /\ others' = others \cup ({eax'} \ {0})
      /\ UNCHANGED <<area, heap, cursor>>
    BY DEF page_alloc, Quiet
<1>2. HeapInv'
    BY <1>1, HeapSame
<1>3. IInv'
    BY <1>1, AllocGives
<1>4. /\ held = mapped \cup others \cup Searched
      /\ mapped \cap others = {} /\ Searched \cap (mapped \cup others) = {}
      /\ heap_committed = PAGE_SIZE * Cardinality(mapped)
    BY DEF FrameInv, FramesAreAccounted, Searched
<1>5. Searched' = Searched /\ mapped' = mapped /\ heap_committed' = heap_committed
    BY <1>1 DEF Searched, Run, area
<1>6. /\ held' = mapped \cup others' \cup Searched
      /\ mapped \cap others' = {} /\ Searched \cap (mapped \cup others') = {}
    <2>1. CASE eax' = 0
        BY <1>1, <1>4, <2>1, AllocGives
    <2>2. CASE eax' # 0
        <3>1. eax' \notin held /\ held' = held \cup {eax'}
            BY <1>1, <2>2, AllocGives
        <3> QED
            BY <1>1, <1>4, <2>2, <3>1
    <2> QED
        BY <2>1, <2>2
<1>7. FramesAreAccounted'
    BY <1>4, <1>5, <1>6 DEF FramesAreAccounted, Searched
<1>8. FrameInv'
    BY <1>1, <1>7 DEF FrameInv
<1> QED
    BY <1>2, <1>3, <1>8

\* It gives one back.
LEMMA PageFreeOK ==
    ASSUME IInv, HeapInv, FrameInv, page_free
    PROVE  IInv' /\ HeapInv' /\ FrameInv'
<1>1. PICK page \in others : /\ heap.op = "none" /\ pmm_free_page(page) /\ others' = others \ {page}
                             /\ UNCHANGED <<area, heap, cursor>>
    BY DEF page_free, Quiet
<1>2. HeapInv'
    BY <1>1, HeapSame
<1>3. /\ held = mapped \cup others \cup Searched
      /\ mapped \cap others = {} /\ Searched \cap (mapped \cup others) = {}
      /\ heap_committed = PAGE_SIZE * Cardinality(mapped)
    BY DEF FrameInv, FramesAreAccounted, Searched
<1>4. IInv'
    BY <1>1, <1>3, FreeHolds
<1>5. Searched' = Searched /\ mapped' = mapped /\ heap_committed' = heap_committed
    BY <1>1 DEF Searched, Run, area
<1>6. held' = held \ {page}
    BY <1>1 DEF pmm_free_page
<1>7. /\ held' = mapped \cup others' \cup Searched
      /\ mapped \cap others' = {} /\ Searched \cap (mapped \cup others') = {}
    BY <1>1, <1>3, <1>6
<1>8. FramesAreAccounted'
    BY <1>3, <1>5, <1>7 DEF FramesAreAccounted, Searched
<1>9. FrameInv'
    BY <1>1, <1>8 DEF FrameInv
<1> QED
    BY <1>2, <1>4, <1>9

CursorType == [op : {"never", "search", "release", "done"}, pages : Seq(Ram), base : Nat]

\* A step of the search: which frames it holds after it, and which it gave back.
LEMMA CursorOK ==
    ASSUME IInv, HeapInv, FrameInv, heap.op # "init", UNCHANGED <<area, heap, others>>, IInv',
           cursor' \in CursorType, Once(cursor'.pages),
           cursor'.op \in {"never", "search"} => cursor'.base = 0,
           cursor'.op \in {"never", "done"} => cursor'.pages = <<>>,
           \/ held' = held /\ Searched' = Searched
           \/ \E x : x \notin held /\ held' = held \cup {x} /\ Searched' = Searched \cup {x}
           \/ \E x \in Searched : held' = held \ {x} /\ Searched' = Searched \ {x}
    PROVE  IInv' /\ HeapInv' /\ FrameInv'
<1>1. HeapInv'
    BY HeapSame
<1>2. /\ held = mapped \cup others \cup Searched
      /\ mapped \cap others = {} /\ Searched \cap (mapped \cup others) = {}
      /\ heap_committed = PAGE_SIZE * Cardinality(mapped)
    BY Zenon DEF FrameInv, FramesAreAccounted, Searched
<1>3. mapped' = mapped /\ heap_committed' = heap_committed /\ others' = others
    BY Zenon DEF area
<1>4. held' = mapped \cup others \cup Searched' /\ Searched' \cap (mapped \cup others) = {}
    <2>1. CASE held' = held /\ Searched' = Searched
        BY <1>2, <2>1, Zenon
    <2>2. ASSUME NEW x, x \notin held, held' = held \cup {x}, Searched' = Searched \cup {x}
          PROVE  held' = mapped \cup others \cup Searched'
                 /\ Searched' \cap (mapped \cup others) = {}
        BY <1>2, <2>2
    <2>3. ASSUME NEW x \in Searched, held' = held \ {x}, Searched' = Searched \ {x}
          PROVE  held' = mapped \cup others \cup Searched'
                 /\ Searched' \cap (mapped \cup others) = {}
        BY <1>2, <2>3
    <2> QED
        BY <2>1, <2>2, <2>3, Zenon
<1>5. FramesAreAccounted'
    BY <1>2, <1>3, <1>4, Zenon DEF FramesAreAccounted, Searched
<1>6. FrameInv'
    BY <1>5, Zenon DEF FrameInv, CursorType
<1> QED
    BY <1>1, <1>6

\* A frame is taken for the search, until four in a row are found.
LEMMA SearchOK ==
    ASSUME IInv, HeapInv, FrameInv, search
    PROVE  IInv' /\ HeapInv' /\ FrameInv'
<1>1. PICK pages, found :
         /\ cursor.op = "search" /\ pmm_alloc_page /\ UNCHANGED <<area, heap, others>>
         /\ pages = Append(cursor.pages, eax')
         /\ found = intel915_find_cursor_pages(pages)
         /\ cursor' = IF eax' = 0 THEN [cursor EXCEPT !.op = "release"]
                      ELSE IF found = {} THEN [cursor EXCEPT !.pages = pages]
                      ELSE [op |-> "release", pages |-> pages, base |-> pages[Min(found)]]
    BY Zenon DEF search
<1>2. /\ cursor \in CursorType /\ cursor.pages \in Seq(Ram) /\ cursor.base = 0
      /\ Once(cursor.pages) /\ heap.op # "init"
    BY <1>1 DEF FrameInv, CursorType
<1>3. IInv'
    BY <1>1, AllocGives
<1>4. Searched = Range(cursor.pages) /\ Searched \subseteq held
    BY <1>2 DEF Searched, Run, FrameInv, FramesAreAccounted
<1>5. CASE eax' = 0
    <2>1. cursor' = [cursor EXCEPT !.op = "release"] /\ held' = held
        BY <1>1, <1>5, AllocGives
    <2>2. /\ cursor' \in CursorType /\ cursor'.op = "release"
          /\ cursor'.pages = cursor.pages /\ cursor'.base = cursor.base
        BY <1>2, <2>1 DEF CursorType
    <2>3. Searched' = Searched
        BY <2>2 DEF Searched, Run
    <2>4. Once(cursor'.pages)
        BY <1>2, <2>2, Zenon
    <2> QED
        BY <1>1, <1>2, <1>3, <2>1, <2>2, <2>3, <2>4, CursorOK
<1>6. CASE eax' # 0
    <2>1. eax' \in Ram /\ eax' \notin held /\ held' = held \cup {eax'}
        BY <1>1, <1>6, AllocGives
    <2>2. PICK n \in Nat : n = Len(cursor.pages)
        BY <1>2
    <2>3. /\ pages \in Seq(Ram) /\ Len(pages) = n + 1 /\ pages[n + 1] = eax'
          /\ \A i \in 1 .. n : pages[i] = cursor.pages[i]
        BY <1>1, <1>2, <2>1, <2>2
    <2>4. \A x : x \in Searched <=> \E i \in 1 .. n : x = cursor.pages[i]
        <3>1. \A x : x \in Range(cursor.pages) <=> \E i \in 1 .. n : x = cursor.pages[i]
            BY <1>2, <2>2, InRange, SMT
        <3> QED
            BY <1>4, <3>1, Zenon
    <2>5. Range(pages) = Searched \cup {eax'}
        <3>1. \A x : x \in Range(pages) <=> \E i \in 1 .. n + 1 : x = pages[i]
            <4>1. n + 1 = Len(pages)
                BY <2>3, Zenon
            <4> QED
                BY <2>3, <4>1, InRange
        <3>2. \A i : i \in 1 .. n + 1 <=> i \in 1 .. n \/ i = n + 1
            OBVIOUS
        <3>3. ASSUME NEW x \in Range(pages) PROVE x \in Searched \cup {eax'}
            <4>1. PICK i \in 1 .. n + 1 : x = pages[i]
                BY <3>1, Zenon
            <4>2. i \in 1 .. n \/ i = n + 1
                BY <3>2, Zenon
            <4> QED
                BY <2>3, <2>4, <4>1, <4>2, Zenon
        <3>4. ASSUME NEW x \in Searched PROVE x \in Range(pages)
            <4>1. PICK i \in 1 .. n : x = cursor.pages[i]
                BY <2>4, Zenon
            <4>2. i \in 1 .. n + 1 /\ x = pages[i]
                BY <2>3, <3>2, <4>1, Zenon
            <4> QED
                BY <3>1, <4>2, Zenon
        <3>5. eax' \in Range(pages)
            BY <2>3, <3>1, <3>2, Zenon
        <3> QED
            BY <3>3, <3>4, <3>5, Zenon
    <2>6. Once(pages)
        <3>1. \A i \in 1 .. n : pages[i] # eax'
            BY <1>4, <2>1, <2>3, <2>4, Zenon
        <3>2. ASSUME NEW i \in 1 .. n + 1, NEW j \in 1 .. n + 1, pages[i] = pages[j] PROVE i = j
            <4>1. (i \in 1 .. n \/ i = n + 1) /\ (j \in 1 .. n \/ j = n + 1)
                OBVIOUS
            <4>2. \A k, l \in 1 .. n : pages[k] = pages[l] => k = l
                <5>1. \A k, l \in 1 .. n : cursor.pages[k] = cursor.pages[l] => k = l
                    BY <1>2, <2>2, Zenon DEF Once
                <5> QED
                    BY <2>3, <5>1, Zenon
            <4> QED
                BY <2>3, <3>1, <3>2, <4>1, <4>2, Zenon
        <3> QED
            BY <2>3, <3>2 DEF Once
    <2>7. CASE found = {}
        <3>1. cursor' = [cursor EXCEPT !.pages = pages]
            BY <1>1, <1>6, <2>7
        <3>2. /\ cursor' \in CursorType /\ cursor'.op = "search"
              /\ cursor'.pages = pages /\ cursor'.base = 0
            BY <1>1, <1>2, <2>3, <3>1, Zenon DEF CursorType
        <3>3. Searched' = Searched \cup {eax'}
            BY <2>5, <3>2 DEF Searched, Run
        <3>4. Once(cursor'.pages)
            BY <2>6, <3>2, Zenon
        <3> QED
            BY <1>1, <1>2, <1>3, <2>1, <3>2, <3>3, <3>4, CursorOK
    <2>8. CASE found # {}
        <3>1. PICK m : m = Min(found)
            BY Zenon
        <3>2. found \in SUBSET Nat /\ found \subseteq 1 .. (n + 1) - 3
            <4>1. found = intel915_find_cursor_pages(pages) /\ Len(pages) = n + 1
                BY <1>1, <2>3, Zenon
            <4> QED
                BY <4>1 DEF intel915_find_cursor_pages
        <3>3. m \in found
            BY <2>8, <3>1, <3>2, LeastOfNaturals, Zenon DEF Min
        <3>4. m \in 1 .. n - 2
            BY <3>2, <3>3
        <3>5. pages[m] # 0 /\ \A k \in 1 .. 3 : pages[m + k] = pages[m] + k
            BY <1>1, <3>3, Zenon DEF intel915_find_cursor_pages
        <3>6. PICK base \in Nat : base = pages[m]
            BY <2>3, <3>4 DEF Ram
        <3>7. cursor' = [op |-> "release", pages |-> pages, base |-> base]
            BY <1>1, <1>6, <2>8, <3>1, <3>6, Zenon
        <3>8. /\ cursor' \in CursorType /\ cursor'.op = "release"
              /\ cursor'.pages = pages /\ cursor'.base = base
            BY <2>3, <3>7 DEF CursorType
        <3>9. base .. base + 3 \subseteq Range(pages)
            <4> SUFFICES ASSUME NEW x \in base .. base + 3 PROVE x \in Range(pages)
                OBVIOUS
            <4>1. \A i \in 1 .. n + 1 : pages[i] \in Range(pages)
                BY <2>3, InRange, Zenon
            <4>2. m \in 1 .. n + 1 /\ \A k \in 1 .. 3 : m + k \in 1 .. n + 1
                BY <3>4
            <4>3. CASE x = base
                BY <3>6, <4>1, <4>2, <4>3, Zenon
            <4>4. CASE x # base
                <5>1. PICK k \in 1 .. 3 : x = base + k
                    <6>1. x - base \in 1 .. 3 /\ x = base + (x - base)
                        BY <4>4
                    <6> QED
                        BY <6>1, Zenon
                <5> QED
                    BY <3>5, <3>6, <4>1, <4>2, <5>1, Zenon
            <4> QED
                BY <4>3, <4>4, Zenon
        <3>10. Searched' = Searched \cup {eax'}
            <4>1. Run' \subseteq Range(pages)
                BY <3>8, <3>9, Zenon DEF Run
            <4> QED
                BY <2>5, <3>8, <4>1, Zenon DEF Searched
        <3>11. Once(cursor'.pages)
            BY <2>6, <3>8, Zenon
        <3> QED
            BY <1>1, <1>2, <1>3, <2>1, <3>8, <3>10, <3>11, CursorOK, Zenon
    <2> QED
        BY <2>7, <2>8
<1> QED
    BY <1>5, <1>6

-----------------------------------------------------------------------------
\* A frame is given back or kept.
LEMMA ReleaseOK ==
    ASSUME IInv, HeapInv, FrameInv, release
    PROVE  IInv' /\ HeapInv' /\ FrameInv'
<1>1. /\ cursor.op = "release" /\ cursor.pages # <<>> /\ UNCHANGED <<area, heap, others>>
      /\ cursor' = [cursor EXCEPT !.pages = Tail(@)]
    BY DEF release
<1>2. cursor \in CursorType /\ cursor.pages \in Seq(Ram) /\ Once(cursor.pages) /\ heap.op # "init"
    BY <1>1 DEF FrameInv, CursorType
<1>3. PICK page, rest : page = Head(cursor.pages) /\ rest = Tail(cursor.pages)
    BY Zenon
<1>4. PICK n \in Nat : n + 1 = Len(cursor.pages)
    <2>1. Len(cursor.pages) - 1 \in Nat /\ (Len(cursor.pages) - 1) + 1 = Len(cursor.pages)
        BY <1>1, <1>2
    <2> QED
        BY <2>1, Zenon
<1>5. /\ rest \in Seq(Ram) /\ Len(rest) = n /\ \A i \in 1 .. n : rest[i] = cursor.pages[i + 1]
      /\ page = cursor.pages[1]
    BY <1>1, <1>2, <1>3, <1>4
<1>6. /\ cursor' \in CursorType /\ cursor'.op = "release"
      /\ cursor'.pages = rest /\ cursor'.base = cursor.base
    <2>1. cursor' = [cursor EXCEPT !.pages = rest]
        BY <1>1, <1>3, Zenon
    <2> QED
        BY <1>1, <1>2, <1>5, <2>1, Zenon DEF CursorType
<1>7. \A i, j \in 1 .. n + 1 : cursor.pages[i] = cursor.pages[j] => i = j
    BY <1>2, <1>4, Zenon DEF Once
<1>8. Once(rest)
    <2>1. ASSUME NEW i \in 1 .. n, NEW j \in 1 .. n, rest[i] = rest[j] PROVE i = j
        <3>1. i + 1 \in 1 .. n + 1 /\ j + 1 \in 1 .. n + 1
            OBVIOUS
        <3>2. i + 1 = j + 1
            BY <1>5, <1>7, <2>1, <3>1, Zenon
        <3> QED
            BY <3>2
    <2> QED
        BY <1>5, <2>1 DEF Once
<1>9. \A i \in 1 .. n : rest[i] # page
    <2> SUFFICES ASSUME NEW i \in 1 .. n, rest[i] = page PROVE FALSE
        OBVIOUS
    <2>1. i + 1 \in 1 .. n + 1 /\ 1 \in 1 .. n + 1 /\ i + 1 # 1
        OBVIOUS
    <2> QED
        BY <1>5, <1>7, <2>1, Zenon
<1>10. page \notin Range(rest)
    BY <1>5, <1>9, InRange
<1>11. Range(cursor.pages) = Range(rest) \cup {page}
    <2>1. \A x : x \in Range(rest) <=> \E i \in 1 .. n : x = rest[i]
        <3>1. n = Len(rest) /\ rest \in Seq(Ram)
            BY <1>5, Zenon
        <3> QED
            BY <3>1, InRange
    <2>2. \A x : x \in Range(cursor.pages) <=> \E i \in 1 .. n + 1 : x = cursor.pages[i]
        <3>1. n + 1 = Len(cursor.pages) /\ cursor.pages \in Seq(Ram)
            BY <1>2, <1>4, Zenon
        <3> QED
            BY <3>1, InRange, SMT
    <2>3. ASSUME NEW x \in Range(cursor.pages) PROVE x \in Range(rest) \cup {page}
        <3>1. PICK i \in 1 .. n + 1 : x = cursor.pages[i]
            BY <2>2, Zenon
        <3>2. CASE i = 1
            BY <1>5, <3>1, <3>2, Zenon
        <3>3. CASE i # 1
            <4>1. PICK k \in 1 .. n : i = k + 1
                <5>1. i - 1 \in 1 .. n /\ i = (i - 1) + 1
                    BY <3>3
                <5> QED
                    BY <5>1, Zenon
            <4> QED
                BY <1>5, <2>1, <3>1, <4>1, Zenon
        <3> QED
            BY <3>2, <3>3, Zenon
    <2>4. ASSUME NEW x \in Range(rest) PROVE x \in Range(cursor.pages)
        <3>1. PICK i \in 1 .. n : x = rest[i]
            BY <2>1, Zenon
        <3>2. i + 1 \in 1 .. n + 1
            OBVIOUS
        <3> QED
            BY <1>5, <2>2, <3>1, <3>2, Zenon
    <2>5. page \in Range(cursor.pages)
        <3>1. 1 \in 1 .. n + 1
            OBVIOUS
        <3> QED
            BY <1>5, <2>2, <3>1, Zenon
    <2> QED
        BY <2>3, <2>4, <2>5, Zenon
<1>12. Run' = Run
    BY <1>6 DEF Run
<1>13. Once(cursor'.pages)
    BY <1>6, <1>8, Zenon
<1>14. CASE kept(page)
    <2>1. UNCHANGED pmm
        BY <1>3, <1>14 DEF release
    <2>2. IInv' /\ held' = held
        BY <2>1 DEF pmm, IInv, TypeOK, BitmapIsExact, HintIsSound
    <2>3. page \in Run
        BY <1>14 DEF kept, Run
    <2>4. Searched' = Searched
        BY <1>6, <1>11, <1>12, <2>3, Zenon DEF Searched
    <2> QED
        BY <1>1, <1>2, <1>6, <1>13, <2>2, <2>4, CursorOK, Zenon
<1>15. CASE ~kept(page)
    <2>1. pmm_free_page(page)
        BY <1>3, <1>15 DEF release
    <2>2. page \in Searched /\ page \in held
        BY <1>11, Zenon DEF Searched, FrameInv, FramesAreAccounted
    <2>3. IInv'
        BY <2>1, <2>2, FreeHolds
    <2>4. held' = held \ {page}
        BY <2>1 DEF pmm_free_page
    <2>5. page \notin Run
        BY <1>15 DEF kept, Run
    <2>6. Searched' = Searched \ {page}
        BY <1>6, <1>10, <1>11, <1>12, <2>5, Zenon DEF Searched
    <2> QED
        BY <1>1, <1>2, <1>6, <1>13, <2>2, <2>3, <2>4, <2>6, CursorOK, Zenon
<1> QED
    BY <1>14, <1>15

\* The search begins, ends without four in a row, or has given all back.
LEMMA PhaseOK ==
    ASSUME IInv, HeapInv, FrameInv, search_begins \/ search_ends \/ release_ends
    PROVE  IInv' /\ HeapInv' /\ FrameInv'
<1>1. UNCHANGED <<pmm, area, heap, others>> /\ cursor \in CursorType /\ Once(cursor.pages)
    BY DEF search_begins, search_ends, release_ends, FrameInv, CursorType
<1>2. IInv' /\ held' = held
    BY <1>1 DEF pmm, IInv, TypeOK, BitmapIsExact, HintIsSound
<1>3. ASSUME NEW op \in {"search", "release", "done"}, cursor' = [cursor EXCEPT !.op = op],
             heap.op # "init", op = "search" => cursor.base = 0, op = "done" => cursor.pages = <<>>
      PROVE  IInv' /\ HeapInv' /\ FrameInv'
    <2>1. /\ cursor' \in CursorType /\ cursor'.op = op
          /\ cursor'.pages = cursor.pages /\ cursor'.base = cursor.base
        BY <1>1, <1>3 DEF CursorType
    <2>2. Searched' = Searched /\ Once(cursor'.pages)
        BY <1>1, <2>1 DEF Searched, Run
    <2> QED
        BY <1>1, <1>2, <1>3, <2>1, <2>2, CursorOK
<1>4. CASE search_begins
    BY <1>3, <1>4 DEF search_begins, Quiet, FrameInv
<1>5. CASE search_ends
    BY <1>3, <1>5 DEF search_ends, FrameInv
<1>6. CASE release_ends
    BY <1>3, <1>6 DEF release_ends, FrameInv
<1> QED
    BY <1>4, <1>5, <1>6

\* Init.
LEMMA StartOK == MInit => IInv /\ HeapInv /\ FrameInv
<1> SUFFICES ASSUME MInit PROVE IInv /\ HeapInv /\ FrameInv
    OBVIOUS
<1>1. /\ Init /\ load \in Load /\ list = <<>> /\ heap_committed = 0 /\ mapped = {}
      /\ allocated = {} /\ heap = [Idle EXCEPT !.op = "init"]
      /\ others = {} /\ cursor = [op |-> "never", pages |-> <<>>, base |-> 0]
    BY DEF MInit, HInit
<1>2. IInv /\ held = {}
    BY <1>1, InitHolds DEF Init
<1>3. heap = [op |-> "init", size |-> 0, pages |-> 0]
    BY <1>1 DEF Idle
<1>4. BlocksOK
    <2>1. Tiled(<<>>, 0) /\ Apart(<<>>) /\ Taken(<<>>) = {}
        BY DEF Tiled, Apart, Taken
    <2>2. Owned(<<>>, {})
        BY <2>1, Zenon DEF Owned
    <2>3. 0 <= KHEAP_MAX_PAGES * PAGE_SIZE
        BY PageFacts
    <2> QED
        BY <1>1, <2>1, <2>2, <2>3 DEF BlocksOK
<1>5. HeapInv
    <2>1. heap.op = "init"
          /\ heap \in [op : {"init", "none", "grow", "retry"}, size : Nat, pages : Nat]
        BY <1>3
    <2>2. Growing
        BY <2>1 DEF Growing
    <2> QED
        BY <1>1, <1>4, <2>1, <2>2, Zenon DEF HeapInv
<1>6. FrameInv
    <2>1. cursor.op = "never" /\ cursor.pages = <<>> /\ cursor.base = 0
        BY <1>1
    <2>2. Range(cursor.pages) = {} /\ Run = {} /\ Once(cursor.pages)
        BY <2>1 DEF Range, Run, Once
    <2>3. Cardinality({}) = 0 /\ PAGE_SIZE * 0 = 0
        BY FS_EmptySet, PageFacts
    <2>4. FramesAreAccounted
        BY <1>1, <1>2, <2>2, <2>3 DEF FramesAreAccounted
    <2> QED
        BY <1>1, <1>2, <2>1, <2>2, <2>4 DEF FrameInv
<1> QED
    BY <1>2, <1>5, <1>6

-----------------------------------------------------------------------------
\* Every step keeps the invariant, and is a step of the page allocator.
LEMMA MemoryStep == MInv /\ [MNext]_mvars => MInv'
<1> SUFFICES ASSUME IInv, HeapInv, FrameInv, [MNext]_mvars PROVE IInv' /\ HeapInv' /\ FrameInv'
    BY DEF MInv
<1>1. CASE heap_step /\ UNCHANGED <<others, cursor>>
    <2>1. CASE heap_init
        BY <1>1, <2>1, InitOK
    <2>2. ASSUME NEW size \in load.sizes, heap_alloc(size) PROVE IInv' /\ HeapInv' /\ FrameInv'
        <3>1. heap.op # "init" /\ scan(size)
            BY <2>2 DEF heap_alloc
        <3>2. size \in Nat \ {0}
            BY LoadSizes DEF HeapInv
        <3> QED
            BY <1>1, <3>1, <3>2, ScanOK
    <2>3. CASE retry_scan
        <3>1. heap.op # "init" /\ scan(heap.size)
            BY <2>3 DEF retry_scan
        <3>2. heap.size \in Nat \ {0}
            BY <2>3 DEF retry_scan, HeapInv, Growing
        <3> QED
            BY <1>1, <3>1, <3>2, ScanOK
    <2>4. CASE heap_grow_one_page
        BY <1>1, <2>4, GrowOK
    <2>5. ASSUME NEW a \in allocated, heap_free(a) PROVE IInv' /\ HeapInv' /\ FrameInv'
        BY <1>1, <2>5, HeapFreeOK
    <2> QED
        BY <1>1, <2>1, <2>2, <2>3, <2>4, <2>5, Zenon DEF heap_step
<1>2. CASE page_alloc
    BY <1>2, PageAllocOK
<1>3. CASE page_free
    BY <1>3, PageFreeOK
<1>4. CASE allocate_cursor_pages
    BY <1>4, SearchOK, ReleaseOK, PhaseOK DEF allocate_cursor_pages
<1>5. CASE UNCHANGED mvars
    <2>1. UNCHANGED <<pmm, area, heap, others, cursor>>
        BY <1>5 DEF mvars
    <2>2. IInv'
        BY <2>1 DEF pmm, IInv, TypeOK, BitmapIsExact, HintIsSound
    <2>3. HeapInv'
        BY <2>1, HeapSame
    <2>4. FrameInv'
        BY <2>1, Zenon DEF pmm, area, FrameInv, FramesAreAccounted, Run
    <2> QED
        BY <2>2, <2>3, <2>4
<1> QED
    BY <1>1, <1>2, <1>3, <1>4, <1>5 DEF MNext

\* The heap, the frames and the search for the cursor stay consistent for ever.
THEOREM MemoryInvariant == MSpec => []MInv
<1>1. MInit => MInv
    BY StartOK DEF MInv
<1> QED
    BY <1>1, MemoryStep, PTL DEF MSpec

\* heap_validate accepts the heap after any sequence of allocations and
\* releases, for every page size and every number of pages: no unit is lost, no
\* block is given to two callers.
THEOREM HeapExact == MSpec => []HeapIsExact
<1>1. MInv => HeapIsExact
    BY BlocksAreExact DEF MInv, HeapInv
<1> QED
    BY <1>1, MemoryInvariant, PTL

\* heap_alloc grows the heap at most once for a request.
THEOREM RetryOnce == MSpec => []RetrySucceeds
<1>1. MInv => RetrySucceeds
    BY RetryFits DEF MInv
<1> QED
    BY <1>1, MemoryInvariant, PTL

\* Every frame given away has one owner.
THEOREM FramesOwned == MSpec => []FramesAreAccounted
<1>1. MInv => FramesAreAccounted
    BY DEF MInv, FrameInv
<1> QED
    BY <1>1, MemoryInvariant, PTL

\* Under all its users the manager is a page allocator: only frames that are
\* held come back.
THEOREM MemoryRefinement == MSpec => ImplementsAllocator
<1>1. MInit => Allocator!Init
    BY DEF MInit, HInit, Init, Allocator!Init, Frame, Ram
<1>2. ASSUME MInv, [MNext]_mvars PROVE [Next]_vars
    <2>1. others \subseteq held /\ Range(cursor.pages) \subseteq held
        BY <1>2 DEF MInv, FrameInv, FramesAreAccounted
    <2>2. ASSUME UNCHANGED pmm PROVE UNCHANGED vars
        BY <2>2, SMTT(30) DEF pmm, vars
    <2>3. CASE heap_step
        BY <2>2, <2>3, Zenon DEF heap_step, heap_init, heap_alloc, retry_scan, scan, take_first_fit,
            heap_grow_one_page, heap_free, Next
    <2>4. CASE page_alloc
        BY <2>4 DEF page_alloc, Next
    <2>5. CASE page_free
        BY <2>1, <2>5 DEF page_free, Next
    <2>6. CASE search
        BY <2>6 DEF search, Next
    <2>7. CASE release
        <3>1. Head(cursor.pages) \in held
            <4>1. cursor.pages \in Seq(Ram) /\ cursor.pages # <<>>
                BY <1>2, <2>7 DEF MInv, FrameInv, release
            <4>2. Head(cursor.pages) \in Range(cursor.pages)
                BY <4>1 DEF Range
            <4> QED
                BY <2>1, <4>2
        <3> QED
            BY <2>2, <2>7, <3>1 DEF release, Next
    <2>8. CASE search_begins \/ search_ends \/ release_ends
        BY <2>2, <2>8 DEF search_begins, search_ends, release_ends
    <2>9. CASE UNCHANGED mvars
        BY <2>2, <2>9 DEF mvars
    <2> QED
        BY <1>2, <2>3, <2>4, <2>5, <2>6, <2>7, <2>8, <2>9 DEF MNext, allocate_cursor_pages
<1>3. MInv /\ [MNext]_mvars =>
          [Allocator!Grant \/ Allocator!Refuse \/ Allocator!Return]_<<Frame \ used, eax>>
    BY <1>2, StepRefines DEF MInv
<1> QED
    BY <1>1, <1>3, MemoryInvariant, PTL DEF MSpec, ImplementsAllocator, Allocator!Spec

=============================================================================
