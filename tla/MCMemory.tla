------------------------------- MODULE MCMemory -------------------------------
(* Instance of Memory for TLC.                                             *)
EXTENDS Memory

\* Many sizes: the smallest, one that leaves too little to split off a page,
\* one that needs two pages.  Or many frames.
MCLoad == {[sizes |-> {1, 4, 7}, pages |-> 1], [sizes |-> {7}, pages |-> 10]}

=============================================================================
