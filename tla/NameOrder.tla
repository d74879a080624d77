------------------------------ MODULE NameOrder ------------------------------
(***************************************************************************)
(* Names in order, as the directory listings sort them, and what they are  *)
(* sorted to.  Names are numbers.  The definitions count instead of        *)
(* choosing a permutation, so that proofs can use them.                    *)
(***************************************************************************)
EXTENDS Integers, Sequences, FiniteSets, Functions

\* The positions whose names come before the name at j.
Ahead(s, j) == {k \in DOMAIN s : s[k] < s[j] \/ (s[k] = s[j] /\ k < j)}

\* The sequence s sorted: at i is the name that i - 1 others come before.
SortByName(s) ==
    [i \in DOMAIN s |->
        s[CHOOSE j \in DOMAIN s : Cardinality(Ahead(s, j)) = i - 1]]

\* The names of S below x.
Below(S, x) == {y \in S : y < x}

\* The names of a set, each once, the smallest first.
InOrder(S) ==
    [i \in 1..Cardinality(S) |->
        CHOOSE x \in S : Cardinality(Below(S, x)) = i - 1]
=============================================================================
