----------------------------- MODULE KernelLemmas -----------------------------
(***************************************************************************)
(* The arithmetic behind the kernel's first-fit scans and its rings.       *)
(***************************************************************************)
EXTENDS Integers, WellFoundedInduction, TLAPS

\* A scan upwards that can stop somewhere stops at a first place.
LEMMA LeastOfNaturals ==
    ASSUME NEW S \in SUBSET Nat, S # {}
    PROVE  \E x \in S : \A i \in S : x =< i
<1>. DEFINE R == {ss \in Nat \X Nat : ss[1] < ss[2]}
<1>1. R = OpToRel(<, Nat)
    BY Zenon DEF OpToRel
<1>2. IsWellFoundedOn(R, Nat)
    BY <1>1, NatLessThanWellFounded
<1>3. PICK x \in S : \A y \in S : ~(<<y, x>> \in R)
    BY <1>2, WFMin
<1>4. ASSUME NEW y \in S PROVE x =< y
    <2>1. ~(<<y, x>> \in Nat \X Nat /\ <<y, x>>[1] < <<y, x>>[2])
        BY <1>3
    <2>. QED
        BY <2>1
<1>. QED
    BY <1>4

\* The index after i in a ring.
LEMMA RingNext ==
    ASSUME NEW size \in Nat \ {0}, NEW i \in 0 .. size - 1
    PROVE  /\ (i + 1) % size = IF i + 1 = size THEN 0 ELSE i + 1
           /\ (i + 1) % size \in 0 .. size - 1
<1>1. CASE i + 1 = size
    <2>1. size % size = 0
        OBVIOUS
    <2> QED
        BY <1>1, <2>1
<1>2. CASE i + 1 # size
    <2>1. i + 1 \in 0 .. size - 1
        BY <1>2
    <2>2. (i + 1) % size = i + 1
        BY <2>1
    <2> QED
        BY <1>2, <2>1, <2>2
<1> QED
    BY <1>1, <1>2

\* What holds of 0, and of n + 1 when it holds of n, holds of every number: how
\* a function defined by recursion is reasoned about.
LEMMA NaturalsByCounting ==
    ASSUME NEW S, 0 \in S, \A n \in Nat : n \in S => n + 1 \in S
    PROVE  Nat \subseteq S
<1> SUFFICES ASSUME Nat \ S # {} PROVE FALSE
    OBVIOUS
<1>1. PICK m \in Nat \ S : \A i \in Nat \ S : m =< i
    BY LeastOfNaturals
<1>2. m # 0 /\ m - 1 \in Nat
    BY <1>1
<1>3. m - 1 \in S
    BY <1>1, <1>2
<1> QED
    BY <1>1, <1>2, <1>3

=============================================================================
