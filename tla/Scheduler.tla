------------------------------ MODULE Scheduler ------------------------------
(***************************************************************************)
(* The task scheduler: the runnable table, the LAPIC-timer round robin,    *)
(* termination of a faulting task and its deferred destruction.            *)
(*                                                                         *)
(* One CPU runs hardware tasks.  A task is named by its TSS selector; TR   *)
(* holds the selector of the running one.  A process object points at its  *)
(* TSS selector, and a protected-mode TSS points back at its object.       *)
(* Everything a handler does with interrupts masked is one action.         *)
(***************************************************************************)
EXTENDS Integers, FiniteSets, FiniteSetsExt

CONSTANTS
    MAX_TASKS,      \* length of the runnable table
    Process,        \* addresses a process object can have
    NoProcess,      \* the null process pointer
    Selector,       \* dynamic GDT selectors, none of them 0
    KERNEL_TSS      \* selector of the kernel's own (idle) task

ASSUME MaxTasksAssumption == MAX_TASKS \in Nat \ {0}
ASSUME SelectorAssumption == 0 \notin Selector /\ KERNEL_TSS \notin Selector \cup {0}
ASSUME NoProcessAssumption == NoProcess \notin Process

VARIABLES
    sched,          \* scheduler_task_table, _task_count, _current_index
    reap_process,   \* scheduler_reap_process
    tr,             \* the task register
    machine,        \* is the machine still running, and if not, why
    live,           \* process objects that are allocated
    tss,            \* PROC_TSS_SELECTOR of each object
    ptype           \* PROC_TYPE of each object

vars == <<sched, reap_process, tr, machine, live, tss, ptype>>

PROTECTED32 == "protected32"
V86 == "v86"

Index == 0 .. MAX_TASKS - 1

\* The value 0FFFFFFFFh of scheduler_current_index: the kernel task runs.
KernelIndex == -1

Used(table) == {i \in Index : table[i] # 0}

Running == machine = "running"

-----------------------------------------------------------------------------
(* The table operations.  Each one is a function of the table, as the      *)
(* routines run inside handlers and constructors that do more.             *)

\* The scan stops at the first entry that is free or already holds the
\* selector; in the second case the process is refused.
scheduler_add_process(s, selector) ==
    LET stop == {i \in Index : s.table[i] \in {0, selector}}
    IN  IF \/ selector = 0
           \/ s.count >= MAX_TASKS
           \/ stop = {}
           \/ s.table[Min(stop)] = selector
        THEN [ok |-> FALSE, s |-> s]
        ELSE [ok |-> TRUE,
              s  |-> [table   |-> [s.table EXCEPT ![Min(stop)] = selector],
                      count   |-> s.count + 1,
                      current |-> s.current]]

\* ok is FALSE only for the entry of the task that is running.
scheduler_remove_process(s, selector) ==
    LET found == {i \in Index : s.table[i] = selector}
    IN  IF selector = 0 \/ found = {}
        THEN [ok |-> TRUE, s |-> s]
        ELSE IF Min(found) = s.current
        THEN [ok |-> FALSE, s |-> s]
        ELSE [ok |-> TRUE,
              s  |-> [table   |-> [s.table EXCEPT ![Min(found)] = 0],
                      count   |-> IF s.count = 0 THEN 0 ELSE s.count - 1,
                      current |-> IF s.count = 1 THEN KernelIndex ELSE s.current]]

\* Mutant: the scan starts over at entry 0 instead of after the current one.
switch_next_from_zero(s) ==
    LET used == Used(s.table)
    IN  IF s.count = 0 THEN [s |-> s, to |-> tr]
        ELSE IF s.current = KernelIndex /\ used # {}
        THEN [s |-> [s EXCEPT !.current = Min(used)], to |-> s.table[Min(used)]]
        ELSE [s |-> [s EXCEPT !.current = KernelIndex], to |-> KERNEL_TSS]

\* The next task in table order; after the last one the kernel has its turn.
scheduler_switch_next(s) ==
    LET later == {i \in Used(s.table) : i > s.current}
    IN  IF s.count = 0 THEN [s |-> s, to |-> tr]
        ELSE IF later # {}
        THEN [s |-> [s EXCEPT !.current = Min(later)], to |-> s.table[Min(later)]]
        ELSE IF s.current = KernelIndex THEN [s |-> s, to |-> tr]
        ELSE [s |-> [s EXCEPT !.current = KernelIndex], to |-> KERNEL_TSS]

\* Mutant: the faulting task's entry stays in the table.
switch_from_terminated_keep_entry(s) ==
    LET used  == Used(s.table) \ {s.current}
        later == {i \in used : i > s.current}
        next  == IF later # {} THEN Min(later) ELSE Min(used)
    IN  IF used = {}
        THEN [s |-> [s EXCEPT !.current = KernelIndex], to |-> KERNEL_TSS]
        ELSE [s |-> [s EXCEPT !.current = next], to |-> s.table[next]]

\* The entry of the faulting task is cleared.  The scan for a successor wraps
\* to entry 0 without a turn for the kernel, which runs only if none is left.
switch_from_terminated(s) ==
    LET cleared == [table   |-> [s.table EXCEPT ![s.current] = 0],
                    count   |-> IF s.count = 0 THEN 0 ELSE s.count - 1,
                    current |-> s.current]
        used    == Used(cleared.table)
        later   == {i \in used : i > s.current}
        next    == IF later # {} THEN Min(later) ELSE Min(used)
    IN  IF used = {}
        THEN [s |-> [cleared EXCEPT !.current = KernelIndex], to |-> KERNEL_TSS]
        ELSE [s |-> [cleared EXCEPT !.current = next], to |-> cleared.table[next]]

-----------------------------------------------------------------------------
(* Destruction.                                                            *)

\* What process_destroy leaves: the table, and the objects it released.
process_destroy(p) ==
    LET r == scheduler_remove_process(sched, tss[p])
    IN  [s |-> r.s, freed |-> IF r.ok THEN {p} ELSE {}]

scheduler_reap_terminated ==
    IF reap_process = NoProcess
    THEN [s |-> sched, freed |-> {}]
    ELSE process_destroy(reap_process)

Release(freed) ==
    /\ live' = live \ freed
    /\ tss' = [p \in Process |-> IF p \in freed THEN 0 ELSE tss[p]]
    /\ UNCHANGED ptype

-----------------------------------------------------------------------------
(* The processor.                                                          *)

\* A far jump through a TSS selector.  A busy TSS (the running task's own) or
\* a selector that names no TSS raises an exception inside the handler.
jmp_far(selector, alive) ==
    IF /\ selector # tr
       /\ selector = KERNEL_TSS \/ \E p \in alive : tss[p] = selector
    THEN tr' = selector /\ UNCHANGED machine
    ELSE machine' = "bad_switch" /\ UNCHANGED tr

\* The dword at TSS_OWNER_PROCESS of the running task's TSS.  A VM86 TSS has
\* its zeroed interrupt redirection bitmap there.
tss_owner(alive) ==
    LET owners == {p \in alive : tss[p] = tr /\ ptype[p] = PROTECTED32}
    IN  IF owners = {} THEN NoProcess ELSE CHOOSE p \in owners : TRUE

-----------------------------------------------------------------------------
(* The actions.                                                            *)

\* The tables as scheduler_init and create_kernel_tss leave them.
Init ==
    /\ sched = [table |-> [i \in Index |-> 0], count |-> 0, current |-> KernelIndex]
    /\ reap_process = NoProcess
    /\ tr = KERNEL_TSS
    /\ machine = "running"
    /\ live = {}
    /\ tss = [p \in Process |-> 0]
    /\ ptype = [p \in Process |-> PROTECTED32]

\* A process is constructed by the kernel task with interrupts masked.  A
\* constructor that fails takes back what it did and changes nothing here.
process_create(p, type, selector) ==
    LET r == scheduler_add_process(sched, selector)
    IN  /\ Running
        /\ tr = KERNEL_TSS
        /\ p \notin live
        /\ selector \notin {tss[q] : q \in live}
        /\ r.ok
        /\ sched' = r.s
        /\ live' = live \cup {p}
        /\ tss' = [tss EXCEPT ![p] = selector]
        /\ ptype' = [ptype EXCEPT ![p] = type]
        /\ UNCHANGED <<reap_process, tr, machine>>

\* The kernel task destroys a process it created; it holds no pointer to one
\* that has faulted and waits for the reaper.
kernel_process_destroy(p) ==
    LET r == process_destroy(p)
    IN  /\ Running
        /\ tr = KERNEL_TSS
        /\ p \in live
        /\ p # reap_process
        /\ sched' = r.s
        /\ Release(r.freed)
        /\ UNCHANGED <<reap_process, tr, machine>>

\* Mutant: the timer leaves reaping to the next fault.
timer_without_reap ==
    LET n == scheduler_switch_next(sched)
    IN  /\ Running
        /\ UNCHANGED reap_process
        /\ Release({})
        /\ sched' = n.s
        /\ IF n.to = tr THEN UNCHANGED <<tr, machine>> ELSE jmp_far(n.to, live)

\* Mutant: the handler jumps although the running task is to go on.
timer_always_jumps ==
    LET r == scheduler_reap_terminated
        n == scheduler_switch_next(r.s)
    IN  /\ Running
        /\ reap_process' = NoProcess
        /\ Release(r.freed)
        /\ sched' = n.s
        /\ jmp_far(n.to, live \ r.freed)

\* The timer: reap, then hand the processor to the next task.
int20_handler ==
    LET r == scheduler_reap_terminated
        n == scheduler_switch_next(r.s)
    IN  /\ Running
        /\ reap_process' = NoProcess
        /\ Release(r.freed)
        /\ sched' = n.s
        /\ IF n.to = tr THEN UNCHANGED <<tr, machine>>
                        ELSE jmp_far(n.to, live \ r.freed)

\* Mutant: the faulting process is destroyed at once, under its own feet.
terminate_frees_itself ==
    LET r     == scheduler_reap_terminated
        owner == tss_owner(live \ r.freed)
        known == r.s.current \in Index /\ r.s.table[r.s.current] = tr
        n     == switch_from_terminated(r.s)
    IN  /\ Running
        /\ tr # KERNEL_TSS
        /\ reap_process' = NoProcess
        /\ Release(r.freed \cup ({owner} \ {NoProcess}))
        /\ IF owner # NoProcess /\ known
           THEN sched' = n.s /\ jmp_far(n.to, live \ r.freed)
           ELSE sched' = r.s /\ machine' = "hung" /\ UNCHANGED tr

\* A fault in ring 3 or VM86 code.  The previous victim is reaped first, as
\* there is room for one; the three failing checks stop the machine.
exception_terminate_current ==
    LET r     == scheduler_reap_terminated
        owner == tss_owner(live \ r.freed)
        known == r.s.current \in Index /\ r.s.table[r.s.current] = tr
        n     == switch_from_terminated(r.s)
    IN  /\ Running
        /\ tr # KERNEL_TSS
        /\ reap_process' = owner
        /\ Release(r.freed)
        /\ IF owner # NoProcess /\ known
           THEN sched' = n.s /\ jmp_far(n.to, live \ r.freed)
           ELSE sched' = r.s /\ machine' = "hung" /\ UNCHANGED tr

\* A fault in ring 0, 1 or 2: a driver may hold state every process needs.
kernel_exception_panic ==
    /\ Running
    /\ machine' = "panic"
    /\ UNCHANGED <<sched, reap_process, tr, live, tss, ptype>>

Next ==
    \/ \E p \in Process, type \in {PROTECTED32, V86}, selector \in Selector :
           process_create(p, type, selector)
    \/ \E p \in Process : kernel_process_destroy(p)
    \/ int20_handler
    \/ exception_terminate_current
    \/ kernel_exception_panic

Spec == Init /\ [][Next]_vars

\* The LAPIC timer is periodic, and every task's flags are created with IF set.
FairSpec == Spec /\ WF_vars(int20_handler)

-----------------------------------------------------------------------------
(* Properties.                                                             *)

Held(p) == \E i \in Index : sched.table[i] = tss[p]

\* Type invariant: the table holds selectors, and only an allocated process
\* has one.
TypeOK ==
    /\ sched \in [table   : [Index -> Selector \cup {0}],
                  count   : 0 .. MAX_TASKS,
                  current : Index \cup {KernelIndex}]
    /\ reap_process \in Process \cup {NoProcess}
    /\ tr \in Selector \cup {KERNEL_TSS}
    /\ machine \in {"running", "bad_switch", "hung", "panic"}
    /\ live \subseteq Process
    /\ tss \in [Process -> Selector \cup {0}]
    /\ ptype \in [Process -> {PROTECTED32, V86}]
    /\ \A p \in Process : p \in live <=> tss[p] # 0

\* scheduler_task_count, which the timer trusts to decide whether to look at
\* the table at all, is the number of entries in use after any mixture of
\* construction, destruction, faults and reaping.
TaskCountExact == sched.count = Cardinality(Used(sched.table))

\* scheduler_current_index and the task register agree, although only one of
\* them is written by the processor: exception_terminate_current hangs the
\* machine when they differ.
CurrentIsRunning ==
    IF sched.current = KernelIndex
    THEN tr = KERNEL_TSS
    ELSE sched.table[sched.current] = tr

\* No two entries hold the same selector, and every entry is the selector of
\* an allocated process that has not faulted: a freed and recycled selector
\* is never left in the table.
EntriesAreRunnable ==
    /\ \A i, j \in Used(sched.table) : sched.table[i] = sched.table[j] => i = j
    /\ \A i \in Used(sched.table) :
           \E p \in live \ {reap_process} : tss[p] = sched.table[i]

\* An allocated process is in the table or is the one waiting to be reaped.
\* There is room for one, so a second fault before the next timer interrupt
\* must not overwrite the first.
NoProcessIsLost == \A p \in live : Held(p) \/ p = reap_process

\* No two allocated processes share a selector, and the pointer to the faulted
\* process never dangles: it is followed from a later interrupt, in the
\* context of another task.
PointersAreSound ==
    /\ \A p, q \in live : tss[p] = tss[q] => p = q
    /\ reap_process \in live \cup {NoProcess}

\* The handlers never jump to the running task's own busy TSS nor to a
\* selector that has been freed.
NoBadSwitch == machine # "bad_switch"

\* The inductive invariant: table, count, current index, task register and the
\* pointer of the process to be reaped agree, in every order of creation,
\* destruction, faults and timer interrupts.  No conjunct is inductive alone.
IInv ==
    /\ TypeOK
    /\ TaskCountExact
    /\ CurrentIsRunning
    /\ EntriesAreRunnable
    /\ NoProcessIsLost
    /\ PointersAreSound
    /\ NoBadSwitch

\* process_destroy never frees the TSS, stack and page directory the
\* processor is using.
RunningTaskIsNotFreed == [][\A p \in live \ live' : tss[p] # tr]_vars

\* What exception_common says of a fault in a user or VM86 process: that it
\* is removed from scheduling.  The machine never stops over one.
UserFaultIsContained == machine # "hung"

\* A process that faulted is destroyed, whatever faults after it.
FaultedProcessIsReaped ==
    \A p \in Process : reap_process = p ~> (p \notin live \/ ~Running)

\* Every runnable process gets the processor: neither the kernel's turn nor
\* the successor chosen after a fault starves an entry of the table.  And the
\* kernel's idle task, which serves USB hotplug and the cursor and is not in
\* the table, gets it again and again.
EveryTaskRuns ==
    /\ \A p \in Process :
          (p \in live /\ p # reap_process) ~> (tr = tss[p] \/ p \notin live \/ ~Running)
    /\ []<>(tr = KERNEL_TSS \/ ~Running)

=============================================================================
