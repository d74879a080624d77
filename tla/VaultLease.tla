------------------------------ MODULE VaultLease ------------------------------
(***************************************************************************)
(* What the comment on refCountedClient promises: one token shared by the  *)
(* open files of a filesystem, acquired when one of them first needs it,   *)
(* kept while any of them is open and given up when the last one closes.   *)
(***************************************************************************)
EXTENDS Naturals

CONSTANTS Files,      \* everything that can hold the lease
          NoToken,    \* no lease
          Tokens,     \* NoToken and the tokens there are
          InitTokens  \* the token there may be before any file is open

VARIABLES holders,    \* the files that hold the lease
          token       \* the token they share

vars == <<holders, token>>

Init == holders = {} /\ token \in InitTokens

Acquire(f) ==
    /\ f \in Files \ holders
    /\ holders' = holders \cup {f}
    /\ UNCHANGED token

Obtain ==
    /\ holders # {} /\ token = NoToken
    /\ token' \in Tokens \ {NoToken}
    /\ UNCHANGED holders

Release(f) ==
    /\ f \in holders /\ holders # {f}
    /\ holders' = holders \ {f}
    /\ UNCHANGED token

ReleaseLast(f) ==
    /\ holders = {f}
    /\ holders' = {}
    /\ token' = NoToken

Next == Obtain \/ \E f \in Files : Acquire(f) \/ Release(f) \/ ReleaseLast(f)

Spec == Init /\ [][Next]_vars
=============================================================================
