----------------------------- MODULE MachineInts -----------------------------
(***************************************************************************)
(* The signed integers of the machine, and the sizes that a caller of      *)
(* ReadDir may pass: what the cursors of the directory handles count with. *)
(***************************************************************************)
EXTENDS Integers

CONSTANTS MaxInt,  \* the largest int
          MaxLen,  \* bound on the number of children of a directory
          Sizes    \* the arguments ReadDir may be given

MinInt == -MaxInt - 1
Ints   == MinInt..MaxInt  \* int

ASSUME IntAssumption ==
    /\ MaxInt \in Nat /\ MaxLen \in 0..MaxInt
    /\ Sizes \subseteq Ints

\* int addition wraps around.
Plus(a, b) ==
    IF a + b > MaxInt THEN a + b - 2 * (MaxInt + 1)
    ELSE IF a + b < MinInt THEN a + b + 2 * (MaxInt + 1)
    ELSE a + b
=============================================================================
