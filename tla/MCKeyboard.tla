------------------------------ MODULE MCKeyboard ------------------------------
(* Instances of Keyboard for TLC.                                          *)
EXTENDS Keyboard

\* One key and two lost bytes; two keys and one; both Control keys, one of them
\* with the E0 prefix, and Pause, of which nothing is lost.
MCTypist == {[keys |-> {30}, pause |-> FALSE, losses |-> 2],
             [keys |-> {29, 30}, pause |-> FALSE, losses |-> 1],
             [keys |-> {29, 157}, pause |-> TRUE, losses |-> 0]}

\* A key with the prefix, and one lost byte.
MCPrefix == {[keys |-> {157}, pause |-> FALSE, losses |-> 1]}

=============================================================================
