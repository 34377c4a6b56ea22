----------------------------- MODULE MCProcesses -----------------------------
(* Instances of Processes for TLC.                                         *)
EXTENDS Processes, TLC

\* Enough of everything for two loaded processes and part of a third.
Plenty == [heap |-> 13, growth |-> 0, frames |-> 14, tables |-> 14, gates |-> {}]

\* Each pool in turn is short by any amount.  In the last line the heap grows
\* at the cost of frames.
MCPools ==
    {[Plenty EXCEPT !.heap = n] : n \in 0 .. 9}
        \cup {[Plenty EXCEPT !.frames = n] : n \in 0 .. 7}
        \cup {[Plenty EXCEPT !.tables = n] : n \in 0 .. 8}
        \cup {[Plenty EXCEPT !.gates = {88}], [Plenty EXCEPT !.gates = {80, 96}]}
        \cup {[Plenty EXCEPT !.heap = 2, !.growth = 6, !.frames = n] : n \in {0, 2, 5, 8}}

Symmetry == Permutations(Process)

=============================================================================
