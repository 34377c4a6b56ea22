------------------------------- MODULE MCMouse -------------------------------
(* An instance of Mouse for TLC.                                           *)
EXTENDS Mouse, TLC

\* A press that moves, a release, and a report cut short.
Moving ==
    {[buttons |-> 1, moves |-> TRUE, whole |-> TRUE],
     [buttons |-> 0, moves |-> FALSE, whole |-> TRUE],
     [buttons |-> 1, moves |-> TRUE, whole |-> FALSE]}

\* Two callers and mice that come and go; no caller, and mice whose motions mix
\* on the way to the display.
MCMachine ==
    {[graphics |-> FALSE, callers |-> Caller, max_reports |-> 3, max_connections |-> 3,
      reports |-> {[r EXCEPT !.moves = FALSE] : r \in Moving}],
     [graphics |-> TRUE, callers |-> {}, max_reports |-> 5, max_connections |-> 3,
      reports |-> Moving]}

Symmetry == Permutations(Caller)

=============================================================================
