------------------------------ MODULE DirStream ------------------------------
(***************************************************************************)
(* What ReadDir promises (the comment above the ReadDir of awsimdsfs,      *)
(* awssmfs, awssmpfs and billyadapter): the entries of a directory, each   *)
(* of them once and in order, in pages of at most n for n > 0 and then     *)
(* io.EOF, all that are left for n <= 0; no empty page without an error.   *)
(***************************************************************************)
EXTENDS Integers

CONSTANTS Sizes,   \* the arguments ReadDir may be given
          MaxLen   \* bound on the length of a directory

VARIABLES len,     \* how many entries there are
          pos,     \* how many have been returned
          reply    \* the last page: entries from+1..to, and the error

vars == <<len, pos, reply>>

Page(from, to, err) == [from |-> from, to |-> to, err |-> err]

Init ==
    /\ len \in 0..MaxLen
    /\ pos = 0
    /\ reply = Page(0, 0, "nil")

ReadAll ==
    /\ \E n \in Sizes : n <= 0
    /\ pos' = len
    /\ reply' = Page(pos, len, "nil")

ReadPage(n) ==
    /\ n > 0 /\ pos < len
    /\ pos' \in (pos + 1)..len
    /\ pos' - pos <= n
    /\ reply' = Page(pos, pos', "nil")

ReadEOF ==
    /\ \E n \in Sizes : n > 0
    /\ pos = len
    /\ reply' = Page(pos, pos, "EOF")
    /\ UNCHANGED pos

Next == (ReadAll \/ ReadEOF \/ \E n \in Sizes : ReadPage(n)) /\ UNCHANGED len

Spec == Init /\ [][Next]_vars
=============================================================================
