------------------------------ MODULE DirCursor ------------------------------
(***************************************************************************)
(* The ReadDir that awsimdsfs, awssmfs, awssmpfs, gcpmetafs, gcpsmfs and   *)
(* billyadapter share, once the children of the handle are listed: an      *)
(* offset, and a page whose end is computed in machine integers.           *)
(***************************************************************************)
EXTENDS MachineInts

VARIABLES length,  \* len(f.children)
          offset,  \* f.diroff
          page     \* the last page and its error

clampVars == <<length, offset, page>>

Page(from, to, err) == [from |-> from, to |-> to, err |-> err]

InitClamp ==
    /\ length \in 0..MaxLen
    /\ offset = 0
    /\ page = Page(0, 0, "nil")

\* Mutant of Clamp: only the upper bound is checked.
ClampAbove(low, high) == IF high >= length THEN length ELSE high

\* "clamp high at the max, and ensure it's higher than low"
Clamp(low, high) == IF high >= length \/ high <= low THEN length ELSE high

ReadDir(n) ==
    /\ UNCHANGED length
    /\ IF n > 0 /\ offset >= length
       THEN page' = Page(offset, offset, "EOF") /\ UNCHANGED offset
       ELSE LET high == Clamp(offset, Plus(offset, n)) IN
            /\ offset' = high
            /\ page' = Page(offset, high, "nil")

NextClamp == \E n \in Sizes : ReadDir(n)

\* A caller that goes on calling.
SpecClamp == InitClamp /\ [][NextClamp]_clampVars

-----------------------------------------------------------------------------
(* Properties *)

CursorTypeOK == length \in 0..MaxLen /\ offset \in 0..length

\* The cursor hands out the directory as DirStream promises, whatever sizes it
\* is asked for and however the addition wraps.
Stream == INSTANCE DirStream WITH len <- length, pos <- offset, reply <- page

StreamSpec == Stream!Spec

=============================================================================
