--------------------------- MODULE SchedulerProofs ---------------------------
(***************************************************************************)
(* Proofs about the scheduler for any number of table entries, process     *)
(* objects and selectors.                                                  *)
(***************************************************************************)
EXTENDS Scheduler, AddressSpace, KernelLemmas, FiniteSetTheorems, TLAPS

USE MaxTasksAssumption, SelectorAssumption, NoProcessAssumption

-----------------------------------------------------------------------------
(* Facts about the table.                                                  *)

\* A scan of a table that finds something finds a first entry.
LEMMA MinOfIndices ==
    ASSUME NEW S \in SUBSET Index, S # {}
    PROVE  Min(S) \in S /\ \A i \in S : Min(S) =< i
<1>1. S \in SUBSET Nat
    BY DEF Index
<1>. QED
    BY <1>1, LeastOfNaturals, Zenon DEF Min

\* The number of entries in use is a number no larger than the table.
LEMMA UsedIsFinite ==
    ASSUME NEW table
    PROVE  /\ IsFiniteSet(Used(table))
           /\ Cardinality(Used(table)) \in 0 .. MAX_TASKS
<1>1. IsFiniteSet(Index) /\ Cardinality(Index) = MAX_TASKS
    BY FS_Interval DEF Index
<1>2. Used(table) \in SUBSET Index
    BY DEF Used
<1>. QED
    BY <1>1, <1>2, FS_Subset, FS_CardinalityType

\* Clearing an entry in use takes one from the count.
LEMMA ClearEntry ==
    ASSUME NEW table \in [Index -> Selector \cup {0}], NEW i \in Used(table)
    PROVE  /\ Used([table EXCEPT ![i] = 0]) = Used(table) \ {i}
           /\ Cardinality(Used([table EXCEPT ![i] = 0])) = Cardinality(Used(table)) - 1
           /\ Cardinality(Used(table)) \in 1 .. MAX_TASKS
<1>1. Used([table EXCEPT ![i] = 0]) = Used(table) \ {i}
    BY DEF Used
<1>2. IsFiniteSet(Used(table)) /\ Cardinality(Used(table)) \in 0 .. MAX_TASKS
    BY UsedIsFinite
<1>3. Cardinality(Used(table) \ {i}) = Cardinality(Used(table)) - 1
    BY <1>2, FS_RemoveElement, Zenon
<1>4. Cardinality(Used(table)) # 0
    BY <1>2, FS_EmptySet
<1>5. Cardinality(Used(table)) \in 1 .. MAX_TASKS
    BY <1>2, <1>4
<1>. QED
    BY <1>1, <1>3, <1>5, Zenon

\* Filling a free entry adds one.
LEMMA FillEntry ==
    ASSUME NEW table \in [Index -> Selector \cup {0}], NEW i \in Index,
           table[i] = 0, NEW selector \in Selector
    PROVE  /\ Used([table EXCEPT ![i] = selector]) = Used(table) \cup {i}
           /\ Cardinality(Used([table EXCEPT ![i] = selector]))
                = Cardinality(Used(table)) + 1
<1>1. /\ Used([table EXCEPT ![i] = selector]) = Used(table) \cup {i}
      /\ i \notin Used(table)
    BY DEF Used
<1>2. IsFiniteSet(Used(table))
    BY UsedIsFinite, Zenon
<1>3. Cardinality(Used(table) \cup {i}) = Cardinality(Used(table)) + 1
    BY <1>1, <1>2, FS_AddElement, Zenon
<1>. QED
    BY <1>1, <1>3, Zenon

-----------------------------------------------------------------------------
(* What the table operations return, for a table that is in order.         *)

SchedType == [table   : [Index -> Selector \cup {0}],
              count   : 0 .. MAX_TASKS,
              current : Index \cup {KernelIndex}]

TableOK(s) ==
    /\ s \in SchedType
    /\ s.count = Cardinality(Used(s.table))
    /\ \A i, j \in Used(s.table) : s.table[i] = s.table[j] => i = j

\* A process that is accepted takes a free entry.
LEMMA AddResult ==
    ASSUME NEW s, TableOK(s), NEW selector \in Selector,
           \A i \in Index : s.table[i] # selector,
           scheduler_add_process(s, selector).ok
    PROVE  LET r == scheduler_add_process(s, selector)
           IN  /\ \E i \in Index :
                    /\ s.table[i] = 0
                    /\ r.s = [table   |-> [s.table EXCEPT ![i] = selector],
                             count   |-> s.count + 1,
                             current |-> s.current]
               /\ TableOK(r.s)
<1>. DEFINE stop == {i \in Index : s.table[i] \in {0, selector}}
            i == Min(stop)
            r == scheduler_add_process(s, selector)
<1>1. /\ stop # {} /\ s.count < MAX_TASKS
      /\ r.s = [table   |-> [s.table EXCEPT ![i] = selector],
                             count   |-> s.count + 1,
                             current |-> s.current]
    BY DEF scheduler_add_process, TableOK, SchedType
<1>2. i \in Index /\ s.table[i] = 0
    <2>1. i \in stop
        BY <1>1, MinOfIndices
    <2>. QED
        BY <2>1
<1>. HIDE DEF stop, i
<1>3. r.s \in SchedType
    BY <1>1, <1>2 DEF TableOK, SchedType
<1>4. r.s.table = [s.table EXCEPT ![i] = selector] /\ r.s.count = s.count + 1
    BY <1>1, <1>2 DEF TableOK, SchedType
<1>5. Used(r.s.table) = Used(s.table) \cup {i} /\ r.s.count = Cardinality(Used(r.s.table))
    BY <1>2, <1>4, FillEntry DEF TableOK, SchedType
<1>6. \A j, k \in Used(r.s.table) : r.s.table[j] = r.s.table[k] => j = k
    BY <1>2, <1>4, <1>5 DEF TableOK, SchedType, Used
<1>. QED
    BY <1>1, <1>2, <1>3, <1>5, <1>6 DEF TableOK

\* Removing a selector that is not in the table changes nothing.
LEMMA RemoveAbsent ==
    ASSUME NEW s, NEW selector, \A i \in Index : s.table[i] # selector
    PROVE  scheduler_remove_process(s, selector) = [ok |-> TRUE, s |-> s]
BY DEF scheduler_remove_process

\* Removing an entry other than the running task's clears that entry.
LEMMA RemovePresent ==
    ASSUME NEW s, TableOK(s), NEW i \in Used(s.table), s.current = KernelIndex
    PROVE  LET r == scheduler_remove_process(s, s.table[i])
           IN  /\ r.ok
               /\ r.s.table = [s.table EXCEPT ![i] = 0]
               /\ r.s.current = KernelIndex
               /\ TableOK(r.s)
<1>. DEFINE found == {j \in Index : s.table[j] = s.table[i]}
            r == scheduler_remove_process(s, s.table[i])
<1>1. found = {i}
    BY DEF TableOK, SchedType, Used
<1>2. Min(found) = i
    BY <1>1, MinOfIndices DEF Used
<1>3. s.table[i] # 0 /\ i # KernelIndex
    BY DEF Used, Index, KernelIndex
<1>. HIDE DEF found
<1>4. r = [ok |-> TRUE,
           s  |-> [table   |-> [s.table EXCEPT ![i] = 0],
                   count   |-> IF s.count = 0 THEN 0 ELSE s.count - 1,
                   current |-> IF s.count = 1 THEN KernelIndex ELSE s.current]]
    BY <1>1, <1>2, <1>3, Zenon DEF scheduler_remove_process, found
<1>5. /\ Used(r.s.table) = Used(s.table) \ {i}
      /\ Cardinality(Used(r.s.table)) = s.count - 1
      /\ s.count \in 1 .. MAX_TASKS
    BY <1>4, ClearEntry DEF TableOK, SchedType
<1>6. r.s \in SchedType /\ r.s.count = Cardinality(Used(r.s.table))
    BY <1>4, <1>5 DEF TableOK, SchedType, Used
<1>7. \A j, k \in Used(r.s.table) : r.s.table[j] = r.s.table[k] => j = k
    BY <1>4, <1>5 DEF TableOK, SchedType, Used
<1>. QED
    BY <1>4, <1>6, <1>7 DEF TableOK

\* The timer leaves the entries alone and picks a task the index agrees with.
LEMMA SwitchNextResult ==
    ASSUME NEW s, TableOK(s)
    PROVE  LET n == scheduler_switch_next(s)
           IN  /\ n.s.table = s.table
               /\ TableOK(n.s)
               /\ \/ n.s = s /\ n.to = tr
                  \/ n.s.current = KernelIndex /\ n.to = KERNEL_TSS
                  \/ n.s.current \in Used(s.table) /\ n.to = s.table[n.s.current]
<1>. DEFINE later == {i \in Used(s.table) : i > s.current}
            n == scheduler_switch_next(s)
<1>1. later # {} => Min(later) \in later
    BY MinOfIndices DEF Used
<1>2. later # {} => Min(later) \in Used(s.table) /\ Min(later) \in Index
    BY <1>1 DEF Used
<1>3. \/ n = [s |-> s, to |-> tr]
      \/ /\ later # {}
         /\ n = [s |-> [s EXCEPT !.current = Min(later)], to |-> s.table[Min(later)]]
      \/ n = [s |-> [s EXCEPT !.current = KernelIndex], to |-> KERNEL_TSS]
    BY DEF scheduler_switch_next
<1>. HIDE DEF later, n
<1>4. CASE n = [s |-> s, to |-> tr]
    BY <1>4 DEF n
<1>5. CASE later # {} /\ n = [s |-> [s EXCEPT !.current = Min(later)], to |-> s.table[Min(later)]]
    BY <1>2, <1>5 DEF TableOK, SchedType, n
<1>6. CASE n = [s |-> [s EXCEPT !.current = KernelIndex], to |-> KERNEL_TSS]
    BY <1>6 DEF TableOK, SchedType, n
<1>. QED
    BY <1>3, <1>4, <1>5, <1>6

\* A fault clears the running task's entry and picks another task.
LEMMA SwitchFromTerminatedResult ==
    ASSUME NEW s, TableOK(s), s.current \in Used(s.table)
    PROVE  LET n == switch_from_terminated(s)
           IN  /\ n.s.table = [s.table EXCEPT ![s.current] = 0]
               /\ TableOK(n.s)
               /\ \/ n.s.current = KernelIndex /\ n.to = KERNEL_TSS
                  \/ n.s.current \in Used(n.s.table) /\ n.to = n.s.table[n.s.current]
<1>. DEFINE cleared == [table   |-> [s.table EXCEPT ![s.current] = 0],
                        count   |-> IF s.count = 0 THEN 0 ELSE s.count - 1,
                        current |-> s.current]
            used  == Used(cleared.table)
            later == {i \in used : i > s.current}
            next  == IF later # {} THEN Min(later) ELSE Min(used)
            n     == switch_from_terminated(s)
<1>1. /\ cleared.table = [s.table EXCEPT ![s.current] = 0]
      /\ cleared.count = IF s.count = 0 THEN 0 ELSE s.count - 1
      /\ cleared \in SchedType
    BY DEF TableOK, SchedType, Used
<1>2. /\ used = Used(s.table) \ {s.current}
      /\ Cardinality(used) = s.count - 1
      /\ s.count \in 1 .. MAX_TASKS
    BY <1>1, ClearEntry DEF TableOK, SchedType
<1>3. TableOK(cleared)
    <2>1. cleared.count = Cardinality(Used(cleared.table))
        BY <1>1, <1>2
    <2>2. \A j, k \in Used(cleared.table) : cleared.table[j] = cleared.table[k] => j = k
        BY <1>1, <1>2 DEF TableOK, SchedType, Used
    <2>. QED
        BY <1>1, <2>1, <2>2 DEF TableOK
<1>4. used # {} => next \in used /\ next \in Index
    <2>1. used \in SUBSET Index /\ later \in SUBSET Index
        BY DEF Used
    <2>2. used # {} => Min(used) \in used
        BY <2>1, MinOfIndices
    <2>3. later # {} => Min(later) \in later
        BY <2>1, MinOfIndices
    <2>. QED
        BY <2>1, <2>2, <2>3
<1>5. \/ n = [s |-> [cleared EXCEPT !.current = KernelIndex], to |-> KERNEL_TSS]
      \/ used # {} /\ n = [s |-> [cleared EXCEPT !.current = next], to |-> cleared.table[next]]
    BY DEF switch_from_terminated
<1>. HIDE DEF cleared, used, later, next, n
<1>6. ASSUME NEW c \in Index \cup {KernelIndex}, n.s = [cleared EXCEPT !.current = c]
      PROVE  /\ n.s.table = cleared.table
             /\ n.s.current = c
             /\ TableOK(n.s)
    BY <1>1, <1>3, <1>6, Zenon DEF TableOK, SchedType
<1>7. CASE n = [s |-> [cleared EXCEPT !.current = KernelIndex], to |-> KERNEL_TSS]
    <2>1. /\ n.s.table = cleared.table
          /\ n.s.current = KernelIndex
          /\ TableOK(n.s)
        BY <1>6, <1>7
    <2>. QED
        BY <1>1, <1>7, <2>1 DEF n
<1>8. CASE used # {} /\ n = [s |-> [cleared EXCEPT !.current = next], to |-> cleared.table[next]]
    <2>1. /\ n.s.table = cleared.table
          /\ n.s.current = next
          /\ TableOK(n.s)
        BY <1>4, <1>6, <1>8
    <2>2. next \in Used(cleared.table)
        BY <1>4, <1>8 DEF used
    <2>3. n.to = cleared.table[next]
        BY <1>8
    <2>4. n.s.current \in Used(n.s.table) /\ n.to = n.s.table[n.s.current]
        BY <2>1, <2>2, <2>3
    <2>. QED
        BY <1>1, <2>1, <2>4 DEF n
<1>. QED
    BY <1>5, <1>7, <1>8

-----------------------------------------------------------------------------
(* Consequences of the invariant that several actions use.                 *)

\* The conjuncts of the invariant that concern the table.
LEMMA TableInOrder == IInv => TableOK(sched)
BY DEF IInv, TypeOK, TaskCountExact, EntriesAreRunnable, TableOK, SchedType

\* Reaping finds nothing to remove from the table and never frees the
\* running task.
LEMMA ReapResult ==
    ASSUME IInv
    PROVE  LET r == scheduler_reap_terminated
           IN  /\ r.s = sched
               /\ r.freed = {reap_process} \ {NoProcess}
               /\ r.freed \subseteq live
               /\ \A p \in r.freed : tss[p] # tr
<1>1. CASE reap_process = NoProcess
    BY <1>1 DEF scheduler_reap_terminated
<1>2. CASE reap_process # NoProcess
    <2>1. reap_process \in live /\ reap_process \in Process /\ tss[reap_process] # 0
        BY <1>2 DEF IInv, PointersAreSound, TypeOK
    <2>2. \A i \in Index : sched.table[i] # tss[reap_process]
        BY <2>1 DEF IInv, EntriesAreRunnable, PointersAreSound, Used, TypeOK
    <2>3. scheduler_remove_process(sched, tss[reap_process]) = [ok |-> TRUE, s |-> sched]
        BY <2>2, RemoveAbsent, Zenon
    <2>4. scheduler_reap_terminated = [s |-> sched, freed |-> {reap_process}]
        BY <1>2, <2>3 DEF scheduler_reap_terminated, process_destroy
    <2>5. tss[reap_process] # tr
        BY <2>1, <2>2 DEF IInv, CurrentIsRunning, TypeOK
    <2>. QED
        BY <1>2, <2>1, <2>4, <2>5
<1>. QED
    BY <1>1, <1>2

\* The parts of the invariant that do not mention the table survive the
\* release of the reaped process.
LEMMA ReleaseKeepsPointers ==
    ASSUME IInv, NEW freed \in SUBSET live, Release(freed),
           reap_process' \in live' \cup {NoProcess}
    PROVE  /\ PointersAreSound'
           /\ \A p \in live' : tss'[p] = tss[p] /\ p \in live
           /\ live' = live \ freed
           /\ live' \subseteq Process
           /\ tss' \in [Process -> Selector \cup {0}]
           /\ \A p \in Process : p \in live' <=> tss'[p] # 0
           /\ ptype' \in [Process -> {PROTECTED32, V86}]
<1>1. /\ live' = live \ freed
      /\ tss' = [p \in Process |-> IF p \in freed THEN 0 ELSE tss[p]]
      /\ ptype' = ptype
    BY DEF Release
<1>2. \A p \in live' : tss'[p] = tss[p] /\ p \in live
    BY <1>1 DEF IInv, TypeOK
<1>. QED
    BY <1>1, <1>2 DEF IInv, TypeOK, PointersAreSound

-----------------------------------------------------------------------------
(* The invariant, one step per action.                                     *)

\* The state scheduler_init and create_kernel_tss leave.
LEMMA InitHolds == Init => IInv
<1>. SUFFICES ASSUME Init PROVE IInv
    OBVIOUS
<1>1. Used(sched.table) = {}
    BY DEF Init, Used
<1>2. TypeOK
    BY DEF Init, TypeOK
<1>3. TaskCountExact
    BY <1>1, FS_EmptySet DEF Init, TaskCountExact
<1>. QED
    BY <1>1, <1>2, <1>3 DEF Init, IInv, CurrentIsRunning, EntriesAreRunnable,
        NoProcessIsLost, PointersAreSound, NoBadSwitch

\* Construction: the new selector was free, so no entry and no other process
\* has it.
LEMMA CreateHolds ==
    ASSUME IInv, NEW p \in Process, NEW type \in {PROTECTED32, V86},
           NEW selector \in Selector, process_create(p, type, selector)
    PROVE  IInv'
<1>1. \A i \in Index : sched.table[i] # selector
    BY DEF IInv, EntriesAreRunnable, process_create, Used
<1>2. TableOK(sched) /\ scheduler_add_process(sched, selector).ok
    BY TableInOrder DEF process_create
<1>3. sched' = scheduler_add_process(sched, selector).s
    BY DEF process_create
<1>4. TableOK(sched') /\ \E i \in Index :
            /\ sched.table[i] = 0
            /\ sched' = [table   |-> [sched.table EXCEPT ![i] = selector],
                         count   |-> sched.count + 1,
                         current |-> sched.current]
    BY <1>1, <1>2, <1>3, AddResult
<1>5. PICK i \in Index :
            /\ sched.table[i] = 0
            /\ sched' = [table   |-> [sched.table EXCEPT ![i] = selector],
                         count   |-> sched.count + 1,
                         current |-> sched.current]
    BY <1>4, Zenon
<1>6. sched.table \in [Index -> Selector \cup {0}]
    BY DEF IInv, TypeOK
<1>7. /\ sched'.table = [sched.table EXCEPT ![i] = selector]
      /\ sched'.table[i] = selector
      /\ sched'.current = sched.current
      /\ \A j \in Index \ {i} : sched'.table[j] = sched.table[j]
    BY <1>5, <1>6
<1>8. /\ live' = live \cup {p} /\ p \notin live
      /\ tss' = [tss EXCEPT ![p] = selector]
      /\ \A q \in live : tss'[q] = tss[q] /\ tss[q] # selector
      /\ tss'[p] = selector
      /\ UNCHANGED <<reap_process, tr, machine>>
    BY DEF process_create, IInv, TypeOK
<1>9. TypeOK'
    BY <1>4, <1>8 DEF process_create, IInv, TypeOK, TableOK, SchedType
<1>10. TaskCountExact' /\ NoBadSwitch'
    BY <1>4, <1>8 DEF TableOK, TaskCountExact, IInv, NoBadSwitch
<1>11. CurrentIsRunning'
    BY <1>5, <1>7, <1>8 DEF IInv, CurrentIsRunning, TypeOK, KernelIndex, Index
<1>12. PointersAreSound'
    BY <1>8 DEF IInv, PointersAreSound
<1>13. EntriesAreRunnable'
    <2>1. \A j, k \in Used(sched'.table) : sched'.table[j] = sched'.table[k] => j = k
        BY <1>4 DEF TableOK
    <2>2. ASSUME NEW j \in Used(sched'.table)
          PROVE  \E q \in live' \ {reap_process'} : tss'[q] = sched'.table[j]
        <3>1. CASE j = i
            BY <1>7, <1>8, <3>1 DEF IInv, PointersAreSound
        <3>2. CASE j # i
            BY <1>7, <1>8, <3>2 DEF IInv, EntriesAreRunnable, Used
        <3>. QED
            BY <3>1, <3>2
    <2>. QED
        BY <2>1, <2>2 DEF EntriesAreRunnable
<1>14. NoProcessIsLost'
    <2>1. ASSUME NEW q \in live' PROVE Held(q)' \/ q = reap_process'
        <3>1. CASE q = p
            BY <1>7, <1>8, <3>1 DEF Held
        <3>2. CASE q # p
            BY <1>5, <1>7, <1>8, <3>2 DEF Held, IInv, NoProcessIsLost, TypeOK
        <3>. QED
            BY <3>1, <3>2
    <2>. QED
        BY <2>1 DEF NoProcessIsLost
<1>. QED
    BY <1>9, <1>10, <1>11, <1>12, <1>13, <1>14 DEF IInv

\* Destruction by the kernel task: the running task is not in the table.
LEMMA DestroyHolds ==
    ASSUME IInv, NEW p \in Process, kernel_process_destroy(p)
    PROVE  IInv'
<1>1. /\ p \in live /\ p # reap_process /\ tr = KERNEL_TSS
      /\ UNCHANGED <<reap_process, tr, machine>>
    BY DEF kernel_process_destroy
<1>2. sched.current = KernelIndex
    BY <1>1 DEF IInv, CurrentIsRunning, TypeOK
<1>3. PICK i \in Index : sched.table[i] = tss[p]
    BY <1>1 DEF IInv, NoProcessIsLost, Held
<1>4. i \in Used(sched.table)
    BY <1>1, <1>3 DEF Used, IInv, TypeOK
<1>5. /\ scheduler_remove_process(sched, tss[p]).ok
      /\ sched' = scheduler_remove_process(sched, tss[p]).s
      /\ Release({p})
    <2>1. scheduler_remove_process(sched, tss[p]).ok
        <3>1. TableOK(sched)
            BY TableInOrder, Zenon
        <3>2. scheduler_remove_process(sched, sched.table[i]).ok
            BY <1>2, <1>4, <3>1, RemovePresent, Zenon
        <3> QED
            BY <1>3, <3>2, Zenon
    <2>. QED
        BY <2>1 DEF kernel_process_destroy, process_destroy
<1>6. /\ TableOK(sched')
      /\ sched'.current = KernelIndex
      /\ sched'.table = [sched.table EXCEPT ![i] = 0]
    BY <1>2, <1>3, <1>4, <1>5, RemovePresent, TableInOrder
<1>7. reap_process' \in live' \cup {NoProcess}
    BY <1>1, <1>5 DEF Release, IInv, PointersAreSound
<1>8. /\ PointersAreSound'
      /\ \A q \in live' : tss'[q] = tss[q] /\ q \in live
      /\ live' = live \ {p}
      /\ live' \subseteq Process
      /\ tss' \in [Process -> Selector \cup {0}]
      /\ \A q \in Process : q \in live' <=> tss'[q] # 0
      /\ ptype' \in [Process -> {PROTECTED32, V86}]
    BY <1>1, <1>5, <1>7, ReleaseKeepsPointers
<1>9. TypeOK' /\ TaskCountExact' /\ NoBadSwitch' /\ CurrentIsRunning'
    BY <1>1, <1>6, <1>8 DEF IInv, TypeOK, TableOK, SchedType, TaskCountExact,
        NoBadSwitch, CurrentIsRunning
<1>10. \A j \in Index : sched'.table[j] = IF j = i THEN 0 ELSE sched.table[j]
    BY <1>6 DEF IInv, TypeOK
<1>11. EntriesAreRunnable'
    <2>1. ASSUME NEW j \in Used(sched'.table)
          PROVE  \E q \in live' \ {reap_process'} : tss'[q] = sched'.table[j]
        <3>1. j \in Used(sched.table) /\ j # i /\ sched'.table[j] = sched.table[j]
            BY <1>10 DEF Used
        <3>2. PICK q \in live \ {reap_process} : tss[q] = sched.table[j]
            BY <3>1 DEF IInv, EntriesAreRunnable
        <3>3. q # p
            BY <1>3, <1>4, <3>1, <3>2 DEF IInv, EntriesAreRunnable
        <3>. QED
            BY <1>1, <1>8, <3>1, <3>2, <3>3
    <2>. QED
        BY <1>6, <2>1 DEF EntriesAreRunnable, TableOK
<1>12. NoProcessIsLost'
    <2>1. ASSUME NEW q \in live' PROVE Held(q)' \/ q = reap_process'
        <3>1. q \in live /\ q # p /\ tss'[q] = tss[q]
            BY <1>8
        <3>2. tss[q] # tss[p]
            BY <1>1, <3>1 DEF IInv, PointersAreSound
        <3>. QED
            BY <1>1, <1>3, <1>10, <3>1, <3>2 DEF Held, IInv, NoProcessIsLost
    <2>. QED
        BY <2>1 DEF NoProcessIsLost
<1>. QED
    BY <1>8, <1>9, <1>11, <1>12 DEF IInv

\* The timer: reaping leaves the table alone, and the task it switches to is
\* one the index and the table agree on.
LEMMA TimerHolds ==
    ASSUME IInv, int20_handler
    PROVE  IInv'
<1>. DEFINE freed == {reap_process} \ {NoProcess}
            n     == scheduler_switch_next(sched)
<1>1. /\ freed \subseteq live
      /\ Release(freed)
      /\ reap_process' = NoProcess
      /\ sched' = n.s
      /\ IF n.to = tr THEN UNCHANGED <<tr, machine>> ELSE jmp_far(n.to, live \ freed)
    BY ReapResult DEF int20_handler
<1>2. /\ n.s.table = sched.table
      /\ TableOK(n.s)
      /\ \/ n.s = sched /\ n.to = tr
         \/ n.s.current = KernelIndex /\ n.to = KERNEL_TSS
         \/ n.s.current \in Used(sched.table) /\ n.to = sched.table[n.s.current]
    BY TableInOrder, SwitchNextResult
<1>. HIDE DEF n
<1>3. /\ PointersAreSound'
      /\ \A p \in live' : tss'[p] = tss[p] /\ p \in live
      /\ live' = live \ freed
      /\ live' \subseteq Process
      /\ tss' \in [Process -> Selector \cup {0}]
      /\ \A p \in Process : p \in live' <=> tss'[p] # 0
      /\ ptype' \in [Process -> {PROTECTED32, V86}]
    BY <1>1, ReleaseKeepsPointers
<1>4. \A i \in Used(sched.table) : \E p \in live \ freed : tss[p] = sched.table[i]
    BY DEF IInv, EntriesAreRunnable
<1>5. tr' = n.to /\ machine' = machine
    <2>1. CASE n.to = tr
        BY <1>1, <2>1
    <2>2. CASE n.to # tr
        <3>1. n.to = KERNEL_TSS \/ \E p \in live \ freed : tss[p] = n.to
            BY <1>2, <1>4, <2>2
        <3>. QED
            BY <1>1, <2>2, <3>1 DEF jmp_far
    <2>. QED
        BY <2>1, <2>2
<1>6. tr' \in Selector \cup {KERNEL_TSS}
    BY <1>2, <1>5 DEF IInv, TypeOK, Used
<1>7. TypeOK' /\ TaskCountExact' /\ NoBadSwitch'
    BY <1>1, <1>2, <1>3, <1>5, <1>6 DEF IInv, TypeOK, TableOK, SchedType,
        TaskCountExact, NoBadSwitch
<1>8. CurrentIsRunning'
    BY <1>1, <1>2, <1>5 DEF IInv, CurrentIsRunning, Used, Index, KernelIndex
<1>9. EntriesAreRunnable'
    <2>1. \A i, j \in Used(sched'.table) : sched'.table[i] = sched'.table[j] => i = j
        BY <1>1, <1>2 DEF TableOK
    <2>2. \A i \in Used(sched'.table) :
             \E p \in live' \ {reap_process'} : tss'[p] = sched'.table[i]
        <3>1. NoProcess \notin live'
            BY <1>3
        <3>. QED
            BY <1>1, <1>2, <1>3, <1>4, <3>1
    <2>. QED
        BY <2>1, <2>2 DEF EntriesAreRunnable
<1>10. NoProcessIsLost'
    <2>1. ASSUME NEW p \in live' PROVE Held(p)'
        <3>1. p \in live /\ p # reap_process /\ tss'[p] = tss[p]
            BY <1>3 DEF IInv, TypeOK
        <3>. QED
            BY <1>1, <1>2, <3>1 DEF Held, IInv, NoProcessIsLost
    <2>. QED
        BY <2>1 DEF NoProcessIsLost
<1>. QED
    BY <1>3, <1>7, <1>8, <1>9, <1>10 DEF IInv

\* A fault: the running task's entry becomes the pending process, and its
\* successor is another entry or the kernel.
LEMMA FaultHolds ==
    ASSUME IInv, exception_terminate_current
    PROVE  IInv'
<1>. DEFINE freed == {reap_process} \ {NoProcess}
            owner == tss_owner(live \ freed)
            n     == switch_from_terminated(sched)
            known == sched.current \in Index /\ sched.table[sched.current] = tr
<1>1. /\ freed \subseteq live
      /\ Release(freed)
      /\ tr # KERNEL_TSS
      /\ reap_process' = owner
      /\ IF owner # NoProcess /\ known
         THEN sched' = n.s /\ jmp_far(n.to, live \ freed)
         ELSE sched' = sched /\ machine' = "hung" /\ UNCHANGED tr
    BY ReapResult DEF exception_terminate_current
<1>2. known /\ sched.current \in Used(sched.table)
    BY <1>1 DEF IInv, CurrentIsRunning, TypeOK, Used
<1>3. \/ owner = NoProcess
      \/ owner \in live \ freed /\ tss[owner] = tr
    BY DEF tss_owner
<1>. HIDE DEF owner, n
<1>4. reap_process' \in live' \cup {NoProcess}
    BY <1>1, <1>3 DEF Release
<1>5. /\ PointersAreSound'
      /\ \A p \in live' : tss'[p] = tss[p] /\ p \in live
      /\ live' = live \ freed
      /\ live' \subseteq Process
      /\ tss' \in [Process -> Selector \cup {0}]
      /\ \A p \in Process : p \in live' <=> tss'[p] # 0
      /\ ptype' \in [Process -> {PROTECTED32, V86}]
    BY <1>1, <1>4, ReleaseKeepsPointers
<1>6. reap_process' \in Process \cup {NoProcess}
    BY <1>4, <1>5
<1>7. \A i \in Used(sched.table) :
         \E p \in live' : tss'[p] = sched.table[i] /\ tss[p] = sched.table[i]
    BY <1>5 DEF IInv, EntriesAreRunnable
<1>8. \A p \in live' : \E i \in Index : sched.table[i] = tss[p] /\ tss'[p] = tss[p]
    <2>1. ASSUME NEW p \in live' PROVE p \in live /\ p # reap_process
        BY <1>5 DEF IInv, TypeOK
    <2>. QED
        BY <1>5, <2>1 DEF IInv, NoProcessIsLost, Held
<1>9. CASE owner = NoProcess
    <2>1. sched' = sched /\ machine' = "hung" /\ tr' = tr /\ reap_process' = NoProcess
        BY <1>1, <1>9
    <2>2. TypeOK' /\ TaskCountExact' /\ CurrentIsRunning' /\ NoBadSwitch'
        BY <1>5, <2>1 DEF IInv, TypeOK, TaskCountExact, CurrentIsRunning, NoBadSwitch
    <2>3. EntriesAreRunnable'
        <3>1. NoProcess \notin live'
            BY <1>5
        <3>. QED
            BY <1>7, <2>1, <3>1 DEF IInv, EntriesAreRunnable
    <2>4. NoProcessIsLost'
        BY <1>8, <2>1 DEF NoProcessIsLost, Held
    <2>. QED
        BY <1>5, <2>2, <2>3, <2>4 DEF IInv
<1>10. CASE owner # NoProcess
    <2>1. /\ sched' = n.s /\ jmp_far(n.to, live \ freed)
          /\ owner \in live' /\ tss[owner] = tr
        BY <1>1, <1>2, <1>3, <1>5, <1>10
    <2>2. /\ n.s.table = [sched.table EXCEPT ![sched.current] = 0]
          /\ TableOK(n.s)
          /\ \/ n.s.current = KernelIndex /\ n.to = KERNEL_TSS
             \/ n.s.current \in Used(n.s.table) /\ n.to = n.s.table[n.s.current]
        BY <1>2, TableInOrder, SwitchFromTerminatedResult DEF n
    <2>3. \A i \in Index :
             sched'.table[i] = IF i = sched.current THEN 0 ELSE sched.table[i]
        BY <2>1, <2>2 DEF IInv, TypeOK
    <2>4. \A i \in Used(sched'.table) :
             /\ i \in Used(sched.table) /\ i # sched.current
             /\ sched'.table[i] = sched.table[i] /\ sched.table[i] # tr
        BY <1>2, <2>3 DEF Used, IInv, EntriesAreRunnable
    <2>5. tr' = n.to /\ machine' = machine
        <3>1. n.to # tr
            BY <1>1, <2>1, <2>2, <2>4
        <3>2. n.to = KERNEL_TSS \/ \E p \in live \ freed : tss[p] = n.to
            BY <1>5, <1>7, <2>1, <2>2, <2>4
        <3>. QED
            BY <2>1, <3>1, <3>2 DEF jmp_far
    <2>6. tr' \in Selector \cup {KERNEL_TSS}
        BY <2>1, <2>2, <2>4, <2>5 DEF IInv, TypeOK, Used
    <2>7. TypeOK' /\ TaskCountExact' /\ NoBadSwitch'
        BY <1>5, <1>6, <2>1, <2>2, <2>5, <2>6 DEF IInv, TypeOK, TableOK, SchedType,
            TaskCountExact, NoBadSwitch
    <2>8. CurrentIsRunning'
        BY <2>1, <2>2, <2>5 DEF CurrentIsRunning, Used, Index, KernelIndex
    <2>9. EntriesAreRunnable'
        <3>1. ASSUME NEW i \in Used(sched'.table)
              PROVE  \E p \in live' \ {reap_process'} : tss'[p] = sched'.table[i]
            <4>1. PICK p \in live' : tss'[p] = sched.table[i] /\ tss[p] = sched.table[i]
                BY <1>7, <2>4
            <4>2. p # owner
                BY <2>1, <2>4, <4>1
            <4>. QED
                BY <1>1, <2>4, <4>1, <4>2
        <3>. QED
            BY <2>1, <2>2, <3>1 DEF EntriesAreRunnable, TableOK
    <2>10. NoProcessIsLost'
        <3>1. ASSUME NEW p \in live', p # owner PROVE Held(p)'
            <4>1. p \in live /\ owner \in live
                BY <1>5, <2>1
            <4>2. tss[p] # tr
                BY <2>1, <3>1, <4>1 DEF IInv, PointersAreSound
            <4>3. PICK i \in Index : sched.table[i] = tss[p] /\ tss'[p] = tss[p]
                BY <1>8
            <4>4. i # sched.current
                BY <1>2, <4>2, <4>3
            <4>. QED
                BY <2>3, <4>3, <4>4 DEF Held
        <3>. QED
            BY <1>1, <3>1 DEF NoProcessIsLost
    <2>. QED
        BY <1>5, <2>7, <2>8, <2>9, <2>10 DEF IInv
<1>. QED
    BY <1>9, <1>10

-----------------------------------------------------------------------------
(* The theorems.                                                           *)

\* Every handler and every kernel operation keeps the invariant.
LEMMA NextHolds == IInv /\ [Next]_vars => IInv'
<1>. SUFFICES ASSUME IInv, [Next]_vars PROVE IInv'
    OBVIOUS
<1>1. CASE kernel_exception_panic
    BY <1>1 DEF kernel_exception_panic, IInv, TypeOK, TaskCountExact, CurrentIsRunning,
        EntriesAreRunnable, NoProcessIsLost, Held, PointersAreSound, NoBadSwitch
<1>2. CASE UNCHANGED vars
    BY <1>2 DEF vars, IInv, TypeOK, TaskCountExact, CurrentIsRunning,
        EntriesAreRunnable, NoProcessIsLost, Held, PointersAreSound, NoBadSwitch
<1>. QED
    BY <1>1, <1>2, CreateHolds, DestroyHolds, TimerHolds, FaultHolds DEF Next

\* The table, the index, the task register, the selectors and the pointer to the
\* faulted process agree for ever.
THEOREM Invariant == Spec => []IInv
BY InitHolds, NextHolds, PTL DEF Spec

\* Type correctness for any table size and any set of processes.
THEOREM TypeCorrect == Spec => []TypeOK
<1>1. IInv => TypeOK
    BY DEF IInv
<1>. QED
    BY <1>1, Invariant, PTL

\* A selector in the table is always that of an allocated process that has
\* not faulted, and occurs once: no interleaving of faults, timer interrupts,
\* construction and destruction leaves a stale selector for the timer to jump
\* through.
THEOREM TableSafe == Spec => []EntriesAreRunnable
<1>1. IInv => EntriesAreRunnable
    BY DEF IInv
<1>. QED
    BY <1>1, Invariant, PTL

\* Every task switch of the timer and of the fault handler goes to a task that
\* exists and is not busy.
THEOREM SwitchesSafe == Spec => []NoBadSwitch
<1>1. IInv => NoBadSwitch
    BY DEF IInv
<1>. QED
    BY <1>1, Invariant, PTL

\* One pointer is enough: no faulted process is forgotten however many fault
\* between two timer interrupts.
THEOREM NothingLost == Spec => []NoProcessIsLost
<1>1. IInv => NoProcessIsLost
    BY DEF IInv
<1>. QED
    BY <1>1, Invariant, PTL

\* The count the timer trusts is exact.
THEOREM CountExact == Spec => []TaskCountExact
<1>1. IInv => TaskCountExact
    BY DEF IInv
<1>. QED
    BY <1>1, Invariant, PTL

\* No step frees the task the processor is running on.
THEOREM FreeSafe == Spec => RunningTaskIsNotFreed
<1>1. IInv /\ [Next]_vars => [\A p \in live \ live' : tss[p] # tr]_vars
    <2>. SUFFICES ASSUME IInv, Next, NEW p \in live \ live' PROVE tss[p] # tr
        BY DEF vars
    <2>1. ASSUME NEW q \in Process, kernel_process_destroy(q) PROVE tss[p] # tr
        BY <2>1 DEF kernel_process_destroy, IInv, TypeOK
    <2>2. CASE int20_handler
        BY <2>2, ReapResult DEF int20_handler, Release
    <2>3. CASE exception_terminate_current
        BY <2>3, ReapResult DEF exception_terminate_current, Release
    <2>. QED
        BY <2>1, <2>2, <2>3 DEF Next, process_create, kernel_exception_panic
<1>. QED
    BY <1>1, Invariant, PTL DEF Spec, RunningTaskIsNotFreed

-----------------------------------------------------------------------------
(* The fixed process slots.                                                *)

\* What process_slot_alloc may hand out and process_prepare_test_task can
\* load: every slot but 76, whose stack, and 77, whose entry point, lie in the
\* 8 MiB that setup_paging reserves for the supervisor at 30000000h.
THEOREM LoadableSlots == \A slot \in Slot : can_prepare(slot) <=> slot \notin {76, 77}
<1> SUFFICES ASSUME NEW slot \in Slot
             PROVE  can_prepare(slot) <=> slot \notin {76, 77}
    OBVIOUS
<1> DEFINE first == 256 + slot * 2560
           last  == first + 2559
<1>1. /\ first \in Int /\ last \in Int
      /\ code_page(slot) = first /\ stack_page(slot) = last
      /\ first < USER_SPACE_LIMIT /\ last < USER_SPACE_LIMIT
    BY DEF Slot, PROCESS_MAX_COUNT, code_page, stack_page, slot_base,
           PROCESS_AREA_BASE, PROCESS_SLOT_SIZE, USER_STACK_OFFSET,
           USER_STACK_SIZE, USER_SPACE_LIMIT
<1>2. ASSUME NEW page \in Int
      PROVE  pde(page) \in SupervisorPDE <=>
                \/ 196608 <= page /\ page < 198656
                \/ 458752 <= page /\ page < 459776
                \/ 462848 <= page /\ page < 463872
    BY DEF pde, PAGES_PER_TABLE, SupervisorPDE
<1>3. user_mappable(first) <=> slot # 77
    BY <1>1, <1>2 DEF user_mappable, Slot, PROCESS_MAX_COUNT
<1>4. user_mappable(last) <=> slot # 76
    BY <1>1, <1>2 DEF user_mappable, Slot, PROCESS_MAX_COUNT
<1> QED
    BY <1>1, <1>3, <1>4 DEF can_prepare

\* storage_user_range admits, in every slot, exactly the buffers that lie in the
\* 5 MiB data segment that process_create_random_ldt describes, and no byte of
\* one is in the code, in the stack or in another slot, although its constants
\* are written down a second time.
THEOREM UserBuffersAreData ==
    \A slot \in Slot, offset \in Nat, size \in Nat :
        LET base == slot_base(slot) * 4096
            address == storage_user_range(base, offset, size)
        IN  /\ address # 0 <=> size # 0 /\ offset + size <= USER_DATA_SIZE * 4096
            /\ address # 0 => \A i \in 0 .. size - 1 :
                                 (address + i) \div 4096 \in data_pages(slot)
<1> SUFFICES ASSUME NEW slot \in Slot, NEW offset \in Nat, NEW size \in Nat
             PROVE  LET base == slot_base(slot) * 4096
                        address == storage_user_range(base, offset, size)
                    IN  /\ address # 0 <=> size # 0 /\ offset + size <= USER_DATA_SIZE * 4096
                        /\ address # 0 => \A i \in 0 .. size - 1 :
                                             (address + i) \div 4096 \in data_pages(slot)
    OBVIOUS
<1> DEFINE first == 256 + slot * 2560
           base == slot_base(slot) * 4096
           address == storage_user_range(base, offset, size)
<1>1. /\ first \in Int /\ slot_base(slot) = first
      /\ base = first * 4096
      /\ MiB <= base /\ base <= 1024 * MiB - 10 * MiB
    BY DEF Slot, PROCESS_MAX_COUNT, slot_base, PROCESS_AREA_BASE, PROCESS_SLOT_SIZE, MiB
<1>2. address = IF size = 0 \/ offset >= 5 * MiB \/ size > 5 * MiB - offset
                THEN 0 ELSE first * 4096 + 4 * MiB + offset
    BY <1>1 DEF storage_user_range, MiB
<1>3. address # 0 <=> size # 0 /\ offset + size <= USER_DATA_SIZE * 4096
    BY <1>1, <1>2 DEF USER_DATA_SIZE, MiB
<1>4. ASSUME address # 0, NEW i \in 0 .. size - 1
      PROVE  (address + i) \div 4096 \in data_pages(slot)
    <2> DEFINE n == offset + i
    <2>1. n \in Int /\ 0 <= n /\ n < 5242880 /\ address + i = (first + 1024) * 4096 + n
        BY <1>1, <1>2, <1>4 DEF MiB
    <2>2. (address + i) \div 4096 = first + 1024 + n \div 4096
        BY <1>1, <2>1
    <2>3. n \div 4096 \in Int /\ 0 <= n \div 4096 /\ n \div 4096 <= 1279
        BY <2>1
    <2> QED
        BY <1>1, <2>2, <2>3 DEF data_pages, USER_DATA_OFFSET, USER_DATA_SIZE
<1> QED
    BY <1>3, <1>4

=============================================================================
