------------------------------ MODULE LoopCursor ------------------------------
(***************************************************************************)
(* The ReadDir of vaultfs and consulfs once the children are cached: a     *)
(* loop from the cursor up to n entries further, each child that is not a  *)
(* directory stat'ed on the way, and the cursor moved only when the loop   *)
(* ran to its end.  The caller calls until io.EOF, or reads all.           *)
(***************************************************************************)
EXTENDS MachineInts

VARIABLES kids,      \* len(f.children)
          diridx,    \* f.diridx
          got,       \* caller: the number of entries it was given
          loopReply  \* the last reply: how many entries, and the error

loopVars == <<kids, diridx, got, loopReply>>

LoopReply(count, err) == [count |-> count, err |-> err]

InitLoop ==
    /\ kids \in 0..MaxLen
    /\ diridx = 0 /\ got = 0
    /\ loopReply = LoopReply(0, "none")

\* The caller has what it wants.
LoopDone == loopReply.err = "EOF" \/ loopReply.err = "all"

Give(count, err) ==
    /\ got' = got + count
    /\ loopReply' = LoopReply(count, err)
    /\ UNCHANGED kids

\* n <= 0: the loop breaks at the end of the children.
ReadAll(n) ==
    /\ n <= 0
    /\ Give(kids - diridx, "all")
    /\ diridx' = kids

\* Mutant of Advance: the cursor is put where the loop counter would be.
AdvanceOneMore(count) == diridx' = diridx + count + 1

\* f.diridx += len(dirents)
Advance(count) == diridx' = diridx + count

\* The loop ends before the children do; at once, and without an error, if
\* n+f.diridx wraps around.
ReadPage(n) ==
    LET end == Plus(n, diridx) IN
    /\ n > 0 /\ end <= kids
    /\ LET count == IF end > diridx THEN end - diridx ELSE 0 IN
       /\ Give(count, "nil")
       /\ Advance(count)

\* The children end before the loop does: what there is, and io.EOF.
ReadEOF(n) ==
    /\ n > 0 /\ Plus(n, diridx) > kids
    /\ Give(kids - diridx, "EOF")
    /\ UNCHANGED diridx

\* The Stat of a child fails: no entries, and the cursor stays.
ReadFails ==
    /\ diridx < kids
    /\ Give(0, "error")
    /\ UNCHANGED diridx

NextLoop ==
    /\ ~LoopDone
    /\ ReadFails \/ \E n \in Sizes : ReadAll(n) \/ ReadPage(n) \/ ReadEOF(n)

SpecLoop == InitLoop /\ [][NextLoop]_loopVars

-----------------------------------------------------------------------------
(* Properties *)

\* Pages add up: until the caller is done it was given the entries before the
\* cursor, and when it is done all of them, each once, whatever failed between
\* and however the bound of the loop wrapped around.
PagesAddUp == got = IF LoopDone THEN kids ELSE diridx

=============================================================================
