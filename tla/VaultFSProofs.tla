---------------------------- MODULE VaultFSProofs ----------------------------
(***************************************************************************)
(* Proofs about VaultFS, for every number of goroutines, handles, tokens   *)
(* and every assignment of auth methods.                                   *)
(***************************************************************************)
EXTENDS VaultFS, FiniteSetTheorems, TLAPS

-----------------------------------------------------------------------------
(* Type correctness *)

\* A goroutine inside a method runs it on a handle that exists.
Busy == \A p \in Procs : pc[p] # "idle" => cur[p] \in opened

FrameOK ==
    /\ pc \in [Procs -> Labels]
    /\ op \in [Procs -> {"none", "read", "stat", "statdir", "readdir", "close"}]
    /\ cur \in [Procs -> opened \cup {NoFile}]
    /\ dir \in [Procs -> opened \cup {NoFile}]
    /\ deferred \in [Procs -> Seq(opened)]
    /\ Busy

DataOK ==
    /\ refs \in 0..(RefModulus - 1)
    /\ clientToken \in Tokens
    /\ live \subseteq Tokens \ {NoToken}
    /\ issued \in UserToken..MaxToken
    /\ lost \subseteq Tokens
    /\ chosen \in [Chains -> {"none", "token", "login"}]
    /\ unclaimed \in Tokens
    /\ opened \subseteq Files
    /\ closed \subseteq opened
    /\ mounted \subseteq opened
    /\ read \subseteq opened
    /\ listed \subseteq opened
    /\ got \in [Procs -> Tokens]

TypeInv == FrameOK /\ DataOK

\* The inductive invariant is the type invariant and Busy.
LEMMA TypeInvIsTypeOK == TypeInv <=> TypeOK /\ Busy
BY DEF TypeInv, TypeOK, FrameOK, DataOK

\* A sequence of handles stays one when there are more handles.
LEMMA SeqGrows ==
    ASSUME NEW S, NEW T, S \subseteq T, NEW s \in Seq(S)
    PROVE  s \in Seq(T)
OBVIOUS

\* A handle pushed on a sequence of handles gives a sequence of handles.
LEMMA PushType ==
    ASSUME NEW S, NEW T, S \subseteq T, NEW x \in T, NEW s \in Seq(S)
    PROVE  <<x>> \o s \in Seq(T)
OBVIOUS

\* The head and the tail of a sequence of handles.
LEMMA PopType ==
    ASSUME NEW S, NEW s \in Seq(S), s # <<>>
    PROVE  Head(s) \in S /\ Tail(s) \in Seq(S)
OBVIOUS

\* What the end of a method does to the frames leaves them well-typed.
LEMMA UnwindType ==
    ASSUME FrameOK, NEW p \in Procs, Unwind(p), UNCHANGED opened
    PROVE  FrameOK'
<1>1. CASE deferred[p] = <<>>
  BY <1>1 DEF FrameOK, Busy, Unwind, Goto, Labels
<1>2. CASE deferred[p] # <<>>
  <2>1. Head(deferred[p]) \in opened /\ Tail(deferred[p]) \in Seq(opened)
    BY <1>2, PopType DEF FrameOK
  <2>2. QED
    BY <1>2, <2>1 DEF FrameOK, Busy, Unwind, Goto, Labels, ClosePhase
<1>3. QED BY <1>1, <1>2

\* The success of a request leaves the frames well-typed.
LEMMA SucceedType ==
    ASSUME FrameOK, NEW p \in Procs, Succeed(p), UNCHANGED opened
    PROVE  FrameOK'
<1>1. CASE dir[p] = NoFile
  BY <1>1, UnwindType DEF Succeed
<1>2. CASE dir[p] # NoFile
  BY <1>2 DEF FrameOK, Busy, Succeed, Goto, Labels
<1>3. QED BY <1>1, <1>2

\* So does its failure, whether Stat goes on with a LIST or not.
LEMMA FailType ==
    ASSUME FrameOK, NEW p \in Procs, Fail(p), UNCHANGED opened,
           pc[p] # "idle"
    PROVE  FrameOK'
<1>1. CASE Unwind(p)
  BY <1>1, UnwindType
<1>2. CASE op[p] = "stat" /\ ~Unwind(p)
  BY <1>2 DEF FrameOK, Busy, Fail, Goto, Labels
<1>3. QED BY <1>1, <1>2 DEF Fail

\* A goroutine that only moves to another label stays on its handle.
LEMMA GotoType ==
    ASSUME FrameOK, NEW p \in Procs, NEW l \in Labels, Goto(p, l),
           pc[p] # "idle", UNCHANGED <<opened, frameVars>>
    PROVE  FrameOK'
BY DEF FrameOK, Busy, Goto, frameVars

\* A call of a method of a handle that exists.
LEMMA CallType ==
    ASSUME FrameOK, NEW p \in Procs, NEW f \in opened,
           NEW m \in {"none", "read", "stat", "statdir", "readdir", "close"},
           NEW l \in Labels, Call(p, f, m, l),
           UNCHANGED <<opened, deferred>>,
           dir' = dir \/ dir' = [dir EXCEPT ![p] = f]
    PROVE  FrameOK'
BY DEF FrameOK, Busy, Call, Goto

\* A handle that is opened before anything else happens.
LEMMA OpenType ==
    ASSUME TypeInv, NEW f \in Files, NewFile(f)
    PROVE  /\ opened \subseteq opened' /\ f \in opened' /\ opened' \subseteq Files
           /\ refs' \in 0..(RefModulus - 1)
BY RefModulusAssumption DEF TypeInv, DataOK, NewFile, AddRef, Increment

-----------------------------------------------------------------------------
\* What callers do leaves the types right.
LEMMA CallerType ==
    ASSUME TypeInv, NEW p \in Procs, NEW f \in Files
    PROVE  /\ Open(p, f) => TypeInv'
           /\ ReadFile(p, f) => TypeInv'
           /\ CallRead(p, f) => TypeInv'
           /\ CallStat(p, f) => TypeInv'
           /\ CallReadDir(p, f) => TypeInv'
           /\ CallClose(p, f) => TypeInv'
<1> USE DEF TypeInv, handleVars, clientVars, serverVars, methodVars, loginVars
<1>1. ASSUME Open(p, f) PROVE TypeInv'
  <2>1. opened \subseteq opened' /\ opened' \subseteq Files
        /\ refs' \in 0..(RefModulus - 1)
    BY <1>1, OpenType DEF Open
  <2>2. DataOK'
    BY <1>1, <2>1 DEF Open, DataOK
  <2>3. deferred' \in [Procs -> Seq(opened')]
    BY <1>1, <2>1, SeqGrows DEF Open, FrameOK, frameVars
  <2>4. FrameOK'
    BY <1>1, <2>1, <2>3 DEF Open, FrameOK, Busy, frameVars
  <2>5. QED BY <2>2, <2>4
<1>2. ASSUME ReadFile(p, f) PROVE TypeInv'
  <2>1. opened \subseteq opened' /\ opened' \subseteq Files
        /\ f \in opened' /\ refs' \in 0..(RefModulus - 1)
    BY <1>2, OpenType DEF ReadFile
  <2>2. DataOK'
    BY <1>2, <2>1 DEF ReadFile, DataOK
  <2>3. \A q \in Procs : deferred[q] \in Seq(opened')
    BY <2>1, SeqGrows DEF FrameOK
  <2>4. deferred' \in [Procs -> Seq(opened')]
    BY <1>2, <2>1, <2>3 DEF ReadFile, FrameOK
  <2>5. FrameOK'
    BY <1>2, <2>1, <2>4 DEF ReadFile, Call, Goto, Labels, FrameOK, Busy
  <2>6. QED BY <2>2, <2>5
<1>3. ASSUME CallRead(p, f) PROVE TypeInv'
  <2>1. DataOK'
    BY <1>3 DEF CallRead, DataOK
  <2>2. FrameOK'
    BY <1>3, CallType DEF CallRead, Usable, Labels
  <2>3. QED BY <2>1, <2>2
<1>4. ASSUME CallStat(p, f) PROVE TypeInv'
  <2>1. DataOK'
    BY <1>4 DEF CallStat, DataOK
  <2>2. FrameOK'
    BY <1>4, CallType DEF CallStat, Usable, Labels
  <2>3. QED BY <2>1, <2>2
<1>5. ASSUME CallReadDir(p, f) PROVE TypeInv'
  <2>1. DataOK'
    BY <1>5 DEF CallReadDir, DataOK
  <2>2. FrameOK'
    BY <1>5, CallType DEF CallReadDir, Usable, Labels
  <2>3. QED BY <2>1, <2>2
<1>6. ASSUME CallClose(p, f) PROVE TypeInv'
  <2>1. DataOK'
    BY <1>6 DEF CallClose, DataOK
  <2>2. FrameOK'
    BY <1>6, CallType DEF CallClose, Labels, ClosePhase
  <2>3. QED BY <2>1, <2>2
<1>7. QED BY <1>1, <1>2, <1>3, <1>4, <1>5, <1>6

\* The server issues a token that is one.
LEMMA IssueType ==
    ASSUME DataOK, Issue
    PROVE  /\ issued + 1 \in Tokens \ {NoToken}
           /\ issued' \in UserToken..MaxToken
           /\ live' \subseteq Tokens \ {NoToken}
<1>1. issued \in UserToken..MaxToken /\ issued < MaxToken
  BY DEF DataOK, Issue
<1>2. issued + 1 \in Tokens \ {NoToken} /\ issued + 1 \in UserToken..MaxToken
  BY <1>1, TokenAssumption DEF Tokens, NoToken, UserToken
<1>3. QED BY <1>2 DEF DataOK, Issue

\* A login, of a chain or not, is one at the server or with the user's token.
LEMMA LoginLogsIn ==
    ASSUME NEW p \in Procs, Login(p) \/ TrySucceeds(p)
    PROVE  \E remote \in BOOLEAN :
              /\ LogsIn(p, remote)
              /\ pc[p] \in {"login", "try"}
              /\ remote => Remote(p) \/ pc[p] = "try"
<1>1. CASE Login(p)
  <2>1. Remote(p) \in BOOLEAN
    BY DEF Remote
  <2>2. LogsIn(p, Remote(p)) /\ pc[p] = "login"
    BY <1>1 DEF Login
  <2> QED  BY <2>1, <2>2
<1>2. CASE TrySucceeds(p)
  <2>1. PICK kind \in {"token", "login"} : LogsIn(p, kind = "login")
    BY <1>2 DEF TrySucceeds
  <2>2. pc[p] = "try" /\ (kind = "login") \in BOOLEAN
    BY <1>2 DEF TrySucceeds
  <2> QED  BY <2>1, <2>2
<1> QED  BY <1>1, <1>2

\* A login leaves the types right.
LEMMA LogsInType ==
    ASSUME TypeInv, NEW p \in Procs, NEW remote \in BOOLEAN, LogsIn(p, remote),
           pc[p] # "idle", chosen' \in [Chains -> {"none", "token", "login"}]
    PROVE  TypeInv'
<1> USE DEF TypeInv, handleVars
<1>1. FrameOK'
  BY GotoType DEF LogsIn, Labels
<1>2. live' \subseteq Tokens \ {NoToken} /\ issued' \in UserToken..MaxToken
      /\ (remote => issued + 1 \in Tokens)
  BY IssueType DEF LogsIn, DataOK
<1>3. clientToken' \in Tokens /\ got' \in [Procs -> Tokens]
  BY <1>2, TokenAssumption DEF LogsIn, DataOK, Tokens, UserToken, NoToken
<1>4. QED BY <1>1, <1>2, <1>3 DEF LogsIn, DataOK

\* So does a login of which only the reply is lost.
LEMMA ReplyLostType ==
    ASSUME DataOK, ReplyLost
    PROVE  /\ live' \subseteq Tokens \ {NoToken} /\ issued' \in UserToken..MaxToken
           /\ lost' \subseteq Tokens
BY IssueType DEF ReplyLost, DataOK

\* A chain that has no secret to return leaves the frames well-typed.
LEMMA NoSecretType ==
    ASSUME FrameOK, NEW p \in Procs, NoSecret(p), pc[p] # "idle", UNCHANGED opened
    PROVE  FrameOK'
BY UnwindType, GotoType DEF NoSecret, Labels

\* What a goroutine does inside a method leaves the types right.
LEMMA StepType ==
    ASSUME TypeInv, NEW p \in Procs, Step(p)
    PROVE  TypeInv'
<1> USE DEF TypeInv, handleVars, clientVars, serverVars, methodVars, loginVars
<1>0. pc[p] # "idle" => cur[p] \in opened
  BY DEF FrameOK, Busy
<1>1. CASE GetMountInfo(p)
  <2>1. FrameOK'
    BY <1>1, GotoType DEF GetMountInfo, AfterMount, Labels
  <2>2. QED BY <1>1, <2>1 DEF GetMountInfo, DataOK
<1>2. CASE Login(p)
  <2>1. Remote(p) \in BOOLEAN
    BY DEF Remote
  <2>2. QED BY <1>2, <2>1, LogsInType DEF Login, DataOK
<1>3. CASE LoginFails(p)
  <2>1. FrameOK'
    BY <1>3, FailType DEF LoginFails
  <2>2. live' \subseteq Tokens \ {NoToken} /\ issued' \in UserToken..MaxToken
        /\ lost' \subseteq Tokens
    BY <1>3, ReplyLostType DEF LoginFails, DataOK
  <2>3. QED BY <1>3, <2>1, <2>2 DEF LoginFails, DataOK
<1>4. CASE LoginInTurn(p)
  <2>1. FrameOK'
    BY <1>4, NoSecretType, GotoType DEF LoginInTurn, Labels
  <2>2. QED BY <1>4, <2>1 DEF LoginInTurn, DataOK
<1>5. CASE TrySucceeds(p)
  <2>1. PICK kind \in {"token", "login"} :
           /\ chosen' = [chosen EXCEPT ![Method(p)] = kind]
           /\ LogsIn(p, kind = "login")
    BY <1>5 DEF TrySucceeds
  <2>2. chosen' \in [Chains -> {"none", "token", "login"}]
    BY <2>1 DEF DataOK
  <2>3. (kind = "login") \in BOOLEAN
    OBVIOUS
  <2>4. QED BY <1>5, <2>1, <2>2, <2>3, LogsInType DEF TrySucceeds
<1>6. CASE TryLost(p)
  <2>1. FrameOK'
    BY <1>6 DEF TryLost, FrameOK, Busy, frameVars
  <2>2. QED BY <1>6, <2>1, ReplyLostType DEF TryLost, DataOK
<1>7. CASE NoneLeft(p)
  <2>1. FrameOK'
    BY <1>7, NoSecretType, FailType DEF NoneLeft
  <2>2. QED BY <1>7, <2>1 DEF NoneLeft, DataOK
<1>8. CASE RereadToken(p)
  <2>1. FrameOK'
    BY <1>8, GotoType DEF RereadToken, Labels
  <2>2. QED BY <1>8, <2>1 DEF RereadToken, DataOK
<1>9. CASE SetToken(p)
  <2>1. FrameOK'
    BY <1>9, GotoType DEF SetToken, Labels
  <2>2. NoToken \in Tokens
    BY TokenAssumption DEF NoToken, UserToken, Tokens
  <2>3. QED BY <1>9, <2>1, <2>2 DEF SetToken, DataOK
<1>10. CASE ReadMounts(p)
  <2>1. FrameOK'
    BY <1>10, GotoType DEF ReadMounts, AfterMount, Labels
  <2>2. QED BY <1>0, <1>10, <2>1 DEF ReadMounts, DataOK
<1>11. CASE ReadSecret(p)
  <2>1. FrameOK'
    BY <1>11, SucceedType DEF ReadSecret
  <2>2. QED BY <1>0, <1>11, <2>1 DEF ReadSecret, DataOK
<1>12. CASE List(p)
  <2>1. FrameOK'
    BY <1>12, SucceedType DEF List
  <2>2. QED BY <1>0, <1>12, <2>1 DEF List, DataOK
<1>13. CASE RequestFails(p)
  <2>1. FrameOK'
    BY <1>13, FailType DEF RequestFails
  <2>2. QED BY <1>13, <2>1 DEF RequestFails, DataOK
<1>14. ASSUME NEW f \in Files, OpenChild(p, f) PROVE TypeInv'
  <2>1. opened \subseteq opened' /\ opened' \subseteq Files
        /\ f \in opened' /\ refs' \in 0..(RefModulus - 1)
    BY <1>14, OpenType DEF OpenChild
  <2>2. DataOK'
    BY <1>14, <2>1 DEF OpenChild, DataOK
  <2>3. \A q \in Procs : deferred[q] \in Seq(opened')
    BY <2>1, SeqGrows DEF FrameOK
  <2>4. <<f>> \o deferred[p] \in Seq(opened')
    BY <2>1, PushType DEF FrameOK
  <2>5. deferred' \in [Procs -> Seq(opened')]
    BY <1>14, <2>3, <2>4 DEF OpenChild, FrameOK
  <2>6. FrameOK'
    BY <1>14, <2>1, <2>5 DEF OpenChild, Goto, Labels, FrameOK, Busy
  <2>7. QED BY <2>2, <2>6
<1>15. CASE ReadDirReturns(p)
  <2>1. FrameOK'
    BY <1>15, UnwindType DEF ReadDirReturns
  <2>2. QED BY <1>15, <2>1 DEF ReadDirReturns, DataOK
<1>16. CASE CloseLoad(p)
  <2>1. FrameOK'
    BY <1>16, UnwindType, GotoType DEF CloseLoad, Labels, ClosePhase
  <2>2. QED BY <1>16, <2>1 DEF CloseLoad, DataOK
<1>17. CASE CloseStore(p)
  <2>1. FrameOK'
    BY <1>17, GotoType DEF CloseStore, Labels, ClosePhase
  <2>2. QED BY <1>0, <1>17, <2>1 DEF CloseStore, DataOK
<1>18. CASE CheckRef(p)
  <2>1. FrameOK'
    BY <1>18, GotoType DEF CheckRef, Labels, ClosePhase
  <2>2. QED BY <1>18, <2>1 DEF CheckRef, DataOK
<1>19. CASE RemoveRef(p)
  <2>1. FrameOK'
    BY <1>19, GotoType DEF RemoveRef, Labels, ClosePhase
  <2>2. refs' \in 0..(RefModulus - 1)
    BY <1>19, RefModulusAssumption DEF RemoveRef, Decrement, DataOK
  <2>3. QED BY <1>19, <2>1, <2>2 DEF RemoveRef, DataOK
<1>20. CASE CloseRefs(p)
  <2>1. FrameOK'
    BY <1>20, UnwindType, GotoType DEF CloseRefs, LastClose, Labels, ClosePhase
  <2>2. QED BY <1>20, <2>1 DEF CloseRefs, DataOK
<1>21. CASE Logout(p)
  <2>1. FrameOK'
    BY <1>21, UnwindType, GotoType DEF Logout, Labels, ClosePhase
  <2>2. QED BY <1>21, <2>1 DEF Logout, DataOK
<1>22. CASE Revoke(p)
  <2>1. FrameOK'
    BY <1>22, GotoType DEF Revoke, Labels, ClosePhase
  <2>2. QED BY <1>22, <2>1 DEF Revoke, DataOK
<1>23. CASE ClearToken(p)
  <2>1. FrameOK'
    BY <1>23, UnwindType DEF ClearToken
  <2>2. NoToken \in Tokens
    BY TokenAssumption DEF NoToken, UserToken, Tokens
  <2>3. QED BY <1>23, <2>1, <2>2 DEF ClearToken, DataOK
<1>24. QED
  BY <1>1, <1>2, <1>3, <1>4, <1>5, <1>6, <1>7, <1>8, <1>9, <1>10, <1>11, <1>12,
     <1>13, <1>14, <1>15, <1>16, <1>17, <1>18, <1>19, <1>20, <1>21, <1>22, <1>23 DEF Step

\* The initial states have the types.
LEMMA TypeInit == Init => TypeInv
<1> SUFFICES ASSUME Init PROVE TypeInv
  OBVIOUS
<1>1. refs \in 0..(RefModulus - 1)
  <2>1. Cardinality(Files) \in Nat
    BY FilesAssumption, FS_CardinalityType
  <2>2. QED BY <2>1, RefModulusAssumption DEF Init
<1>2. DataOK
  BY <1>1, TokenAssumption, FilesAssumption
     DEF Init, DataOK, Tokens, NoToken, UserToken
<1>3. FrameOK
  BY DEF Init, FrameOK, Busy, Labels
<1>4. QED BY <1>2, <1>3 DEF TypeInv

\* Every step keeps the types.
LEMMA TypeNext == TypeInv /\ [Next]_vars => TypeInv'
<1> SUFFICES ASSUME TypeInv, [Next]_vars PROVE TypeInv'
  OBVIOUS
<1>1. ASSUME NEW p \in Procs, Caller(p) PROVE TypeInv'
  BY <1>1, CallerType DEF Caller
<1>2. ASSUME NEW p \in Procs, Step(p) PROVE TypeInv'
  BY <1>2, StepType
<1>3. CASE UNCHANGED vars
  BY <1>3 DEF vars, clientVars, loginVars, serverVars, methodVars, handleVars,
              frameVars, TypeInv, FrameOK, Busy, DataOK
<1>4. QED BY <1>1, <1>2, <1>3 DEF Next

\* Every variable keeps its type, whatever the discipline of the callers.
THEOREM TypeCorrect == Spec => []TypeOK
<1>1. TypeInv => TypeOK
  BY TypeInvIsTypeOK
<1>2. QED BY <1>1, TypeInit, TypeNext, PTL DEF Spec

-----------------------------------------------------------------------------
(* The reference count *)

\* No two goroutines are in the middle of methods of the same handle.
FramesApart ==
    \A p, q \in Procs : p # q => Frame(p) \cap Frame(q) \subseteq {NoFile}

OpenLabels == {"mount", "login", "try", "reread", "setToken", "mounts", "request",
               "list", "children", "store"}

\* A method works on an open handle, and a ReadDir is inside an open directory
\* until its deferred Closes run.
FrameOpen ==
    /\ \A p \in Procs : pc[p] \in OpenLabels => cur[p] \in OpenFiles
    /\ \A p \in Procs : dir[p] # NoFile => dir[p] \in OpenFiles
    /\ \A p \in Procs :
          pc[p] \in ClosePhase \cup {"idle", "panic"} => dir[p] = NoFile

\* Once a Close has set the flag its handle is closed.
CloseClosed ==
    \A p \in Procs : pc[p] \in {"remove", "dec"} => cur[p] \in closed

HandleInv == TypeInv /\ FramesApart /\ FrameOpen /\ CloseClosed

\* A step of p leaves the frames of the others alone.
Local(p) == \A q \in Procs \ {p} :
    pc'[q] = pc[q] /\ cur'[q] = cur[q] /\ dir'[q] = dir[q]
        /\ deferred'[q] = deferred[q]

\* Frames stay apart when only p's grows, by handles that nobody uses.
LEMMA ApartPreserved ==
    ASSUME FramesApart, NEW p \in Procs, Local(p), NEW N,
           Frame(p)' \subseteq Frame(p) \cup {NoFile} \cup N,
           \A f \in N : \A q \in Procs : f \notin Frame(q)
    PROVE  FramesApart'
<1>1. \A q \in Procs \ {p} : Frame(q)' = Frame(q)
  BY DEF Local, Frame
<1>2. QED BY <1>1 DEF FramesApart

\* Frames stay apart when none grows.
LEMMA ApartShrink ==
    ASSUME FramesApart, NEW p \in Procs, Local(p),
           Frame(p)' \subseteq Frame(p) \cup {NoFile}
    PROVE  FramesApart'
<1>1. \A q \in Procs \ {p} : Frame(q)' = Frame(q)
  BY DEF Local, Frame
<1>2. QED BY <1>1 DEF FramesApart

\* The end of a method: where it leaves the goroutine.
LEMMA UnwindFrame ==
    ASSUME FrameOK, NEW p \in Procs, Unwind(p)
    PROVE  /\ Local(p)
           /\ Frame(p)' \subseteq Frame(p) \cup {NoFile}
           /\ dir'[p] = NoFile
           /\ pc'[p] \in {"idle", "load"}
<1>1. CASE deferred[p] = <<>>
  BY <1>1 DEF FrameOK, Unwind, Goto, Local, Frame
<1>2. CASE deferred[p] # <<>>
  <2>1. Local(p) /\ dir'[p] = NoFile /\ pc'[p] = "load"
        /\ cur'[p] = Head(deferred[p]) /\ deferred'[p] = Tail(deferred[p])
    BY <1>2 DEF FrameOK, Unwind, Goto, Local
  <2>2. /\ Head(deferred[p]) \in {deferred[p][i] : i \in DOMAIN deferred[p]}
        /\ {Tail(deferred[p])[i] : i \in DOMAIN Tail(deferred[p])}
               \subseteq {deferred[p][i] : i \in DOMAIN deferred[p]}
    BY <1>2 DEF FrameOK
  <2>3. QED BY <2>1, <2>2 DEF Frame
<1>3. QED BY <1>1, <1>2

\* The success of a request: where it leaves the goroutine.
LEMMA SucceedFrame ==
    ASSUME FrameOK, NEW p \in Procs, Succeed(p)
    PROVE  /\ Local(p)
           /\ Frame(p)' \subseteq Frame(p) \cup {NoFile}
           /\ \/ dir'[p] = NoFile /\ pc'[p] \in {"idle", "load"}
              \/ /\ dir'[p] = dir[p] /\ dir[p] # NoFile
                 /\ cur'[p] = dir[p] /\ pc'[p] = "children"
<1>1. CASE dir[p] = NoFile
  BY <1>1, UnwindFrame DEF Succeed
<1>2. CASE dir[p] # NoFile
  BY <1>2 DEF FrameOK, Succeed, Goto, Local, Frame
<1>3. QED BY <1>1, <1>2

\* The failure of a request: where it leaves the goroutine.
LEMMA FailFrame ==
    ASSUME FrameOK, NEW p \in Procs, Fail(p)
    PROVE  /\ Local(p)
           /\ Frame(p)' \subseteq Frame(p) \cup {NoFile}
           /\ \/ dir'[p] = NoFile /\ pc'[p] \in {"idle", "load"}
              \/ dir'[p] = dir[p] /\ cur'[p] = cur[p] /\ pc'[p] = "mount"
<1>1. CASE Unwind(p)
  BY <1>1, UnwindFrame
<1>2. CASE ~Unwind(p)
  BY <1>2 DEF FrameOK, Fail, Goto, Local, Frame
<1>3. QED BY <1>1, <1>2

\* A chain that has no secret to return: where it leaves the goroutine.
LEMMA NoSecretFrame ==
    ASSUME FrameOK, NEW p \in Procs, NoSecret(p)
    PROVE  /\ Local(p)
           /\ Frame(p)' \subseteq Frame(p) \cup {NoFile}
           /\ \/ dir'[p] = NoFile /\ pc'[p] \in {"idle", "load"}
              \/ dir'[p] = dir[p] /\ cur'[p] = cur[p] /\ pc'[p] = "reread"
<1>1. CASE Legacy(p)
  BY <1>1 DEF FrameOK, NoSecret, Goto, Local, Frame, frameVars
<1>2. CASE ~Legacy(p)
  BY <1>2, UnwindFrame DEF NoSecret
<1>3. QED BY <1>1, <1>2

\* Moving to another label.
LEMMA GotoFrame ==
    ASSUME FrameOK, NEW p \in Procs, NEW l, Goto(p, l), UNCHANGED frameVars
    PROVE  /\ Local(p)
           /\ Frame(p)' = Frame(p)
           /\ dir'[p] = dir[p] /\ cur'[p] = cur[p] /\ pc'[p] = l
BY DEF FrameOK, Goto, Local, Frame, frameVars

\* What p must establish for itself when its step closes nothing.
LEMMA HandlePreserved ==
    ASSUME HandleInv, TypeInv', NEW p \in Procs, Local(p),
           opened \subseteq opened', closed' = closed, FramesApart',
           pc'[p] \in OpenLabels => cur'[p] \in OpenFiles',
           dir'[p] # NoFile => dir'[p] \in OpenFiles',
           pc'[p] \in ClosePhase \cup {"idle", "panic"} => dir'[p] = NoFile,
           pc'[p] \in {"remove", "dec"} => cur'[p] \in closed
    PROVE  HandleInv'
<1>1. FrameOpen'
  BY DEF HandleInv, FrameOpen, Local, OpenFiles
<1>2. CloseClosed'
  BY DEF HandleInv, CloseClosed, Local
<1>3. QED BY <1>1, <1>2 DEF HandleInv

\* The steps that end a method, that a request lets succeed or fail, and that
\* go from one label to another.
LEMMA UnwindHandle ==
    ASSUME HandleInv, TypeInv', NEW p \in Procs, Unwind(p),
           UNCHANGED <<opened, closed>>
    PROVE  HandleInv'
<1>1. /\ Local(p) /\ Frame(p)' \subseteq Frame(p) \cup {NoFile}
      /\ dir'[p] = NoFile /\ pc'[p] \in {"idle", "load"}
  BY UnwindFrame DEF HandleInv, TypeInv
<1>2. FramesApart'
  BY <1>1, ApartShrink DEF HandleInv
<1>3. QED BY <1>1, <1>2, HandlePreserved DEF OpenLabels

\* The success of a request keeps the handles apart and open.
LEMMA SucceedHandle ==
    ASSUME HandleInv, TypeInv', NEW p \in Procs, Succeed(p),
           UNCHANGED <<opened, closed>>
    PROVE  HandleInv'
<1>1. /\ Local(p) /\ Frame(p)' \subseteq Frame(p) \cup {NoFile}
      /\ \/ dir'[p] = NoFile /\ pc'[p] \in {"idle", "load"}
         \/ /\ dir'[p] = dir[p] /\ dir[p] # NoFile
            /\ cur'[p] = dir[p] /\ pc'[p] = "children"
  BY SucceedFrame DEF HandleInv, TypeInv
<1>2. FramesApart'
  BY <1>1, ApartShrink DEF HandleInv
<1>3. dir'[p] # NoFile => dir'[p] \in OpenFiles'
  BY <1>1 DEF HandleInv, FrameOpen, OpenFiles
<1>4. pc'[p] \in OpenLabels => cur'[p] \in OpenFiles'
  BY <1>1, <1>3 DEF OpenLabels
<1>5. QED BY <1>1, <1>2, <1>3, <1>4, HandlePreserved DEF ClosePhase

\* The failure of a request keeps the handles apart and open.
LEMMA FailHandle ==
    ASSUME HandleInv, TypeInv', NEW p \in Procs, Fail(p),
           pc[p] \in OpenLabels, UNCHANGED <<opened, closed>>
    PROVE  HandleInv'
<1>1. /\ Local(p) /\ Frame(p)' \subseteq Frame(p) \cup {NoFile}
      /\ \/ dir'[p] = NoFile /\ pc'[p] \in {"idle", "load"}
         \/ dir'[p] = dir[p] /\ cur'[p] = cur[p] /\ pc'[p] = "mount"
  BY FailFrame DEF HandleInv, TypeInv
<1>2. FramesApart'
  BY <1>1, ApartShrink DEF HandleInv
<1>3. dir'[p] # NoFile => dir'[p] \in OpenFiles'
  BY <1>1 DEF HandleInv, FrameOpen, OpenFiles
<1>4. pc'[p] \in OpenLabels => cur'[p] \in OpenFiles'
  BY <1>1 DEF OpenLabels, HandleInv, FrameOpen, OpenFiles
<1>5. QED BY <1>1, <1>2, <1>3, <1>4, HandlePreserved DEF ClosePhase

\* A move to another label keeps the handles apart and open.
LEMMA GotoHandle ==
    ASSUME HandleInv, TypeInv', NEW p \in Procs, NEW l, Goto(p, l),
           UNCHANGED <<frameVars, opened, closed>>,
           l \in OpenLabels => cur[p] \in OpenFiles,
           l \in ClosePhase \cup {"idle", "panic"} => dir[p] = NoFile,
           l \in {"remove", "dec"} => cur[p] \in closed
    PROVE  HandleInv'
<1>1. /\ Local(p) /\ Frame(p)' \subseteq Frame(p) \cup {NoFile}
      /\ dir'[p] = dir[p] /\ cur'[p] = cur[p] /\ pc'[p] = l
  BY GotoFrame DEF HandleInv, TypeInv
<1>2. FramesApart'
  BY <1>1, ApartShrink DEF HandleInv
<1>3. dir'[p] # NoFile => dir'[p] \in OpenFiles'
  BY <1>1 DEF HandleInv, FrameOpen, OpenFiles
<1>4. OpenFiles' = OpenFiles
  BY DEF OpenFiles
<1>5. QED BY <1>1, <1>2, <1>3, <1>4, HandlePreserved

\* A chain without a secret keeps them so, panicking or not.
LEMMA NoSecretHandle ==
    ASSUME HandleInv, TypeInv', NEW p \in Procs, NoSecret(p),
           pc[p] \in OpenLabels, UNCHANGED <<opened, closed>>
    PROVE  HandleInv'
<1>1. CASE Legacy(p)
  BY <1>1, GotoHandle DEF NoSecret, OpenLabels, ClosePhase, HandleInv, FrameOpen
<1>2. CASE ~Legacy(p)
  BY <1>2, UnwindHandle DEF NoSecret
<1>3. QED BY <1>1, <1>2

\* Calls: a method of a handle that its caller may use, or of a new one.
LEMMA CallHandle ==
    ASSUME HandleInv, TypeInv', NEW p \in Procs, NEW f \in Files, NEW m, NEW l,
           Call(p, f, m, l), opened \subseteq opened', closed' = closed,
           Unused(f) \/ f \notin opened,
           deferred' = deferred \/ deferred' = [deferred EXCEPT ![p] = <<f>>],
           dir' = dir \/ (dir' = [dir EXCEPT ![p] = f] /\ l \notin ClosePhase),
           (l \in OpenLabels /\ f \in OpenFiles') \/ l = "load"
    PROVE  HandleInv'
<1> DEFINE N == {f} \ {NoFile}
<1>1. dir[p] = NoFile
  BY DEF HandleInv, FrameOpen, Call
<1>2. /\ Local(p)
      /\ pc'[p] = l /\ cur'[p] = f /\ dir'[p] \in {NoFile, f}
      /\ (dir'[p] # NoFile => l \notin ClosePhase)
      /\ (deferred'[p] = deferred[p] \/ deferred'[p] = <<f>>)
  BY <1>1 DEF Call, Goto, Local, HandleInv, TypeInv, FrameOK
<1>3. Frame(p)' \subseteq Frame(p) \cup {NoFile} \cup N
  BY <1>2 DEF Frame
<1>4. \A g \in N : \A q \in Procs : g \notin Frame(q)
  <2>1. CASE Unused(f)
    BY <2>1 DEF Unused
  <2>2. CASE f \notin opened
    BY <2>2 DEF Frame, HandleInv, TypeInv, FrameOK
  <2>3. QED BY <2>1, <2>2
<1>5. FramesApart'
  <2> HIDE DEF N
  <2> QED BY <1>2, <1>3, <1>4, ApartPreserved DEF HandleInv
<1>6. QED
  BY <1>2, <1>5, HandlePreserved DEF OpenLabels, ClosePhase

\* Each goroutine has its handles to itself and works on open ones.
LEMMA HandleCaller ==
    ASSUME ~ConcurrentClose, HandleInv, TypeInv', NEW p \in Procs, Caller(p)
    PROVE  HandleInv'
<1> USE DEF handleVars
<1>1. ASSUME NEW f \in Files, Open(p, f) PROVE HandleInv'
  <2>1. Local(p) /\ Frame(p)' = Frame(p)
        /\ pc' = pc /\ cur' = cur /\ dir' = dir
    BY <1>1 DEF Open, Local, Frame, frameVars
  <2>2. FramesApart'
    BY <2>1, ApartShrink DEF HandleInv
  <2>3. OpenFiles \subseteq OpenFiles'
    BY <1>1 DEF Open, NewFile, OpenFiles
  <2>4. pc[p] = "idle"
    BY <1>1 DEF Open
  <2>5. opened \subseteq opened' /\ closed' = closed
    BY <1>1 DEF Open, NewFile
  <2>6. QED
    BY <2>1, <2>2, <2>3, <2>4, <2>5, HandlePreserved
       DEF HandleInv, FrameOpen, CloseClosed, OpenLabels
<1>2. ASSUME NEW f \in Files, ReadFile(p, f) PROVE HandleInv'
  <2>1. f \in OpenFiles'
    BY <1>2 DEF ReadFile, NewFile, OpenFiles, HandleInv, TypeInv, DataOK
  <2>2. QED
    BY <1>2, <2>1, CallHandle DEF ReadFile, NewFile, OpenLabels
<1>3. ASSUME NEW f \in Files, CallRead(p, f) PROVE HandleInv'
  BY <1>3, CallHandle DEF CallRead, Usable, OpenFiles, OpenLabels
<1>4. ASSUME NEW f \in Files, CallStat(p, f) PROVE HandleInv'
  BY <1>4, CallHandle DEF CallStat, Usable, OpenFiles, OpenLabels
<1>5. ASSUME NEW f \in Files, CallReadDir(p, f) PROVE HandleInv'
  <2>1. PICK l \in {"children", "mount"} : Call(p, f, "readdir", l)
    BY <1>5 DEF CallReadDir
  <2>2. QED
    BY <1>5, <2>1, CallHandle
       DEF CallReadDir, Usable, OpenFiles, OpenLabels, ClosePhase
<1>6. ASSUME NEW f \in Files, CallClose(p, f) PROVE HandleInv'
  BY <1>6, CallHandle DEF CallClose
<1>7. QED BY <1>1, <1>2, <1>3, <1>4, <1>5, <1>6 DEF Caller

\* What a goroutine does inside a method keeps the handles apart.
LEMMA HandleStep ==
    ASSUME HandleInv, TypeInv', NEW p \in Procs, Step(p)
    PROVE  HandleInv'
<1> USE DEF handleVars
<1>0. /\ pc[p] \in OpenLabels => cur[p] \in OpenFiles
      /\ pc[p] \in ClosePhase => dir[p] = NoFile
      /\ pc[p] \in {"remove", "dec"} => cur[p] \in closed
      /\ pc[p] # "idle" => cur[p] \in opened
  BY DEF HandleInv, FrameOpen, CloseClosed, TypeInv, FrameOK, Busy
<1>1. CASE GetMountInfo(p)
  BY <1>0, <1>1, GotoHandle DEF GetMountInfo, AfterMount, OpenLabels, ClosePhase
<1>2. CASE Login(p) \/ TrySucceeds(p)
  <2>1. PICK remote \in BOOLEAN : LogsIn(p, remote) /\ pc[p] \in {"login", "try"}
    BY <1>2, LoginLogsIn
  <2>2. QED BY <1>0, <2>1, GotoHandle DEF LogsIn, OpenLabels, ClosePhase
<1>3. CASE LoginFails(p)
  BY <1>3, FailHandle DEF LoginFails, OpenLabels
<1>4. CASE LoginInTurn(p)
  BY <1>0, <1>4, NoSecretHandle, GotoHandle DEF LoginInTurn, OpenLabels, ClosePhase
<1>5. CASE TryLost(p)
  <2>1. Goto(p, "try")
    BY <1>5 DEF TryLost, Goto, HandleInv, TypeInv, FrameOK
  <2>2. QED BY <1>0, <1>5, <2>1, GotoHandle DEF TryLost, OpenLabels, ClosePhase
<1>6. CASE NoneLeft(p)
  BY <1>6, NoSecretHandle, FailHandle DEF NoneLeft, OpenLabels
<1>7. CASE RereadToken(p)
  BY <1>0, <1>7, GotoHandle DEF RereadToken, OpenLabels, ClosePhase
<1>8. CASE SetToken(p)
  BY <1>0, <1>8, GotoHandle DEF SetToken, OpenLabels, ClosePhase
<1>9. CASE ReadMounts(p)
  BY <1>0, <1>9, GotoHandle DEF ReadMounts, AfterMount, OpenLabels, ClosePhase
<1>10. CASE ReadSecret(p)
  BY <1>10, SucceedHandle DEF ReadSecret
<1>11. CASE List(p)
  BY <1>11, SucceedHandle DEF List
<1>12. CASE RequestFails(p)
  BY <1>12, FailHandle DEF RequestFails, OpenLabels
<1>13. ASSUME NEW f \in Files, OpenChild(p, f) PROVE HandleInv'
  <2>1. f \in OpenFiles' /\ OpenFiles \subseteq OpenFiles' /\ closed' = closed
        /\ opened \subseteq opened' /\ f \notin opened
    BY <1>13 DEF OpenChild, NewFile, OpenFiles, HandleInv, TypeInv, DataOK
  <2>2. /\ Local(p)
        /\ cur'[p] = f /\ dir'[p] = dir[p] /\ pc'[p] = "mount"
        /\ deferred'[p] = <<f>> \o deferred[p]
    BY <1>13 DEF OpenChild, Goto, Local, HandleInv, TypeInv, FrameOK
  <2>3. {(<<f>> \o deferred[p])[i] : i \in DOMAIN (<<f>> \o deferred[p])}
          \subseteq {f} \cup {deferred[p][i] : i \in DOMAIN deferred[p]}
    BY DEF HandleInv, TypeInv, FrameOK
  <2>4. Frame(p)' \subseteq Frame(p) \cup {NoFile} \cup {f}
    BY <2>2, <2>3 DEF Frame
  <2>5. \A g \in {f} : \A q \in Procs : g \notin Frame(q)
    BY <2>1, FilesAssumption DEF Frame, HandleInv, TypeInv, FrameOK
  <2>6. FramesApart'
    BY <2>2, <2>4, <2>5, ApartPreserved DEF HandleInv
  <2>7. QED
    BY <2>1, <2>2, <2>6, HandlePreserved
       DEF HandleInv, FrameOpen, ClosePhase
<1>14. CASE ReadDirReturns(p)
  BY <1>14, UnwindHandle DEF ReadDirReturns
<1>15. CASE CloseLoad(p)
  BY <1>0, <1>15, UnwindHandle, GotoHandle
     DEF CloseLoad, OpenLabels, ClosePhase, OpenFiles
<1>16. CASE CloseStore(p)
  <2>1. /\ Local(p) /\ Frame(p)' = Frame(p)
        /\ dir'[p] = dir[p] /\ cur'[p] = cur[p] /\ pc'[p] = "remove"
    BY <1>16, GotoFrame DEF CloseStore, HandleInv, TypeInv
  <2>2. dir[p] = NoFile /\ cur[p] # NoFile
    BY <1>0, <1>16, FilesAssumption
       DEF CloseStore, ClosePhase, HandleInv, TypeInv, DataOK
  <2>3. \A q \in Procs \ {p} : cur[q] # cur[p] /\ dir[q] # cur[p]
    BY <2>2 DEF HandleInv, FramesApart, Frame
  <2>4. closed' = closed \cup {cur[p]} /\ opened' = opened
    BY <1>16 DEF CloseStore
  <2>5. FramesApart'
    BY <2>1, ApartShrink DEF HandleInv
  <2>6. FrameOpen'
    BY <2>1, <2>2, <2>3, <2>4
       DEF HandleInv, FrameOpen, OpenFiles, Local, OpenLabels
  <2>7. CloseClosed'
    BY <2>1, <2>4 DEF HandleInv, CloseClosed, Local
  <2>8. QED BY <2>5, <2>6, <2>7 DEF HandleInv
<1>17. CASE CheckRef(p)
  BY <1>0, <1>17, GotoHandle DEF CheckRef, OpenLabels, ClosePhase
<1>18. CASE RemoveRef(p)
  BY <1>0, <1>18, GotoHandle DEF RemoveRef, OpenLabels, ClosePhase
<1>19. CASE CloseRefs(p)
  BY <1>0, <1>19, UnwindHandle, GotoHandle
     DEF CloseRefs, LastClose, OpenLabels, ClosePhase
<1>20. CASE Logout(p)
  BY <1>0, <1>20, UnwindHandle, GotoHandle DEF Logout, OpenLabels, ClosePhase
<1>21. CASE Revoke(p)
  BY <1>0, <1>21, GotoHandle DEF Revoke, OpenLabels, ClosePhase
<1>22. CASE ClearToken(p)
  BY <1>22, UnwindHandle DEF ClearToken
<1>23. QED
  BY <1>1, <1>2, <1>3, <1>4, <1>5, <1>6, <1>7, <1>8, <1>9, <1>10, <1>11, <1>12,
     <1>13, <1>14, <1>15, <1>16, <1>17, <1>18, <1>19, <1>20, <1>21, <1>22 DEF Step

\* Every step keeps the handles apart.
LEMMA HandleNext ==
    ASSUME ~ConcurrentClose, HandleInv, [Next]_vars
    PROVE  HandleInv'
<1>1. TypeInv'
  BY TypeNext DEF HandleInv
<1>2. CASE UNCHANGED vars
  <2>1. UNCHANGED <<pc, cur, dir, deferred, opened, closed>>
    BY <1>2 DEF vars, handleVars, frameVars
  <2>2. QED
    BY <1>1, <2>1
       DEF HandleInv, FramesApart, FrameOpen, CloseClosed, OpenFiles, Frame
<1>3. QED BY <1>1, <1>2, HandleCaller, HandleStep DEF Next

\* The handles that hold a reference: finitely many, so fewer than the range of
\* the counter.
LEMMA HoldingFinite ==
    ASSUME TypeInv
    PROVE  /\ Holding \subseteq opened
           /\ IsFiniteSet(Holding)
           /\ Cardinality(Holding) \in 0..(RefModulus - 1)
<1>1. Holding \subseteq opened
  BY DEF Holding, OpenFiles, TypeInv, FrameOK, Busy
<1>2. Holding \in SUBSET Files
  BY <1>1 DEF TypeInv, DataOK
<1>3. IsFiniteSet(Holding) /\ Cardinality(Holding) <= Cardinality(Files)
  BY <1>2, FilesAssumption, FS_Subset
<1>4. Cardinality(Holding) \in Nat /\ Cardinality(Files) \in Nat
  BY <1>3, FilesAssumption, FS_CardinalityType
<1>5. QED BY <1>1, <1>3, <1>4, RefModulusAssumption

\* A step of p that neither opens nor closes, and does not take p into or out
\* of the part of Close where the flag is set and the reference is still held.
LEMMA HoldingSame ==
    ASSUME NEW p \in Procs, Local(p), UNCHANGED <<opened, closed>>,
           \/ pc[p] \notin {"remove", "dec"} /\ pc'[p] \notin {"remove", "dec"}
           \/ /\ pc[p] \in {"remove", "dec"} /\ pc'[p] \in {"remove", "dec"}
              /\ cur'[p] = cur[p]
    PROVE  Holding' = Holding
BY DEF Holding, OpenFiles, Local

\* A handle that is opened takes its reference.
LEMMA CountNew ==
    ASSUME HandleInv, RefsExact, NEW f \in Files, NewFile(f),
           Holding' = Holding \cup {f}
    PROVE  RefsExact'
<1>1. f \notin Holding
  BY HoldingFinite DEF HandleInv, NewFile
<1>2. Holding \cup {f} \in SUBSET Files
  BY HoldingFinite DEF HandleInv, TypeInv, DataOK
<1>3. Cardinality(Holding \cup {f}) = Cardinality(Holding) + 1
  BY <1>1, HoldingFinite, FS_AddElement DEF HandleInv
<1>4. Cardinality(Holding \cup {f}) <= Cardinality(Files)
  BY <1>2, FilesAssumption, FS_Subset
<1>5. Cardinality(Holding) \in Nat /\ Cardinality(Files) \in Nat
  BY HoldingFinite, FilesAssumption, FS_CardinalityType DEF HandleInv
<1>6. refs # RefModulus - 1
  BY <1>3, <1>4, <1>5, RefModulusAssumption DEF RefsExact
<1>7. QED BY <1>3, <1>6 DEF RefsExact, NewFile, AddRef, Increment

CountInv == HandleInv /\ RefsExact

\* Opens and calls keep the count.
LEMMA CountCaller ==
    ASSUME CountInv, HandleInv', NEW p \in Procs, Caller(p)
    PROVE  RefsExact'
<1> USE DEF CountInv, clientVars, handleVars
<1>1. ASSUME NEW f \in Files, Open(p, f) PROVE RefsExact'
  <2>1. Holding' = Holding \cup {f}
    BY <1>1 DEF Open, NewFile, Holding, OpenFiles, frameVars, HandleInv,
                TypeInv, DataOK
  <2>2. QED BY <1>1, <2>1, CountNew DEF Open
<1>2. ASSUME NEW f \in Files, NEW m, NEW l \in Labels \ {"remove", "dec"},
             Call(p, f, m, l)
      PROVE  {cur'[q] : q \in {r \in Procs : pc'[r] \in {"remove", "dec"}}}
               = {cur[q] : q \in {r \in Procs : pc[r] \in {"remove", "dec"}}}
  BY <1>2 DEF Call, Goto, HandleInv, TypeInv, FrameOK
<1>3. ASSUME NEW f \in Files, ReadFile(p, f) PROVE RefsExact'
  <2>1. Holding' = Holding \cup {f}
    BY <1>2, <1>3 DEF ReadFile, NewFile, Holding, OpenFiles, Labels, HandleInv,
                      TypeInv, DataOK
  <2>2. QED BY <1>3, <2>1, CountNew DEF ReadFile
<1>4. ASSUME NEW f \in Files, NEW m, NEW l \in Labels \ {"remove", "dec"},
             Call(p, f, m, l), UNCHANGED <<refs, opened, closed>>
      PROVE  RefsExact'
  BY <1>2, <1>4 DEF RefsExact, Holding, OpenFiles
<1>5. ASSUME NEW f \in Files,
             CallRead(p, f) \/ CallStat(p, f) \/ CallClose(p, f)
      PROVE  RefsExact'
  BY <1>4, <1>5 DEF CallRead, CallStat, CallClose, Labels, ClosePhase
<1>6. ASSUME NEW f \in Files, CallReadDir(p, f) PROVE RefsExact'
  <2>1. PICK l \in {"children", "mount"} : Call(p, f, "readdir", l)
    BY <1>6 DEF CallReadDir
  <2>2. QED BY <1>4, <1>6, <2>1 DEF CallReadDir, Labels
<1>7. QED BY <1>1, <1>3, <1>5, <1>6 DEF Caller

\* So do the steps inside a method: only Close gives a reference back.
LEMMA CountStep ==
    ASSUME CountInv, HandleInv', NEW p \in Procs, Step(p)
    PROVE  RefsExact'
<1> USE DEF CountInv, HandleInv, TypeInv, clientVars, handleVars
<1>1. ASSUME UNCHANGED <<refs, opened, closed>>, Local(p),
             \/ /\ pc[p] \notin {"remove", "dec"}
                /\ pc'[p] \notin {"remove", "dec"}
             \/ /\ pc[p] \in {"remove", "dec"} /\ pc'[p] \in {"remove", "dec"}
                /\ cur'[p] = cur[p]
      PROVE  RefsExact'
  BY <1>1, HoldingSame DEF RefsExact
<1>2. ASSUME UNCHANGED <<refs, opened, closed>>,
             Unwind(p) \/ Succeed(p) \/ Fail(p), pc[p] \notin {"remove", "dec"}
      PROVE  RefsExact'
  BY <1>1, <1>2, UnwindFrame, SucceedFrame, FailFrame
<1>3. ASSUME UNCHANGED <<refs, opened, closed, frameVars>>,
             NEW l \in Labels \ {"remove", "dec"}, Goto(p, l),
             pc[p] \notin {"remove", "dec"}
      PROVE  RefsExact'
  BY <1>1, <1>3, GotoFrame
<1>4. CASE GetMountInfo(p)
  BY <1>3, <1>4 DEF GetMountInfo, AfterMount, Labels
<1>5. CASE Login(p) \/ TrySucceeds(p)
  <2>1. PICK remote \in BOOLEAN : LogsIn(p, remote) /\ pc[p] \in {"login", "try"}
    BY <1>5, LoginLogsIn
  <2>2. QED BY <1>3, <2>1 DEF LogsIn, Labels
<1>6. CASE LoginFails(p)
  BY <1>2, <1>6 DEF LoginFails
<1>7. CASE LoginInTurn(p)
  BY <1>2, <1>3, <1>7 DEF LoginInTurn, NoSecret, Labels
<1>8. CASE TryLost(p)
  BY <1>1, <1>8 DEF TryLost, Local, frameVars
<1>9. CASE NoneLeft(p)
  BY <1>2, <1>3, <1>9 DEF NoneLeft, NoSecret, Labels
<1>10. CASE RereadToken(p)
  BY <1>3, <1>10 DEF RereadToken, Labels
<1>11. CASE SetToken(p)
  BY <1>3, <1>11 DEF SetToken, Labels
<1>12. CASE ReadMounts(p)
  BY <1>3, <1>12 DEF ReadMounts, AfterMount, Labels
<1>13. CASE ReadSecret(p) \/ List(p) \/ RequestFails(p) \/ ReadDirReturns(p)
  BY <1>2, <1>13 DEF ReadSecret, List, RequestFails, ReadDirReturns
<1>14. ASSUME NEW f \in Files, OpenChild(p, f) PROVE RefsExact'
  <2>1. Local(p) /\ pc[p] = "children" /\ pc'[p] = "mount"
        /\ opened' = opened \cup {f} /\ closed' = closed /\ f \notin opened
    BY <1>14 DEF OpenChild, NewFile, Goto, Local, FrameOK
  <2>2. Holding' = Holding \cup {f}
    BY <2>1 DEF Holding, OpenFiles, Local, DataOK
  <2>3. QED BY <1>14, <2>2, CountNew DEF OpenChild
<1>15. CASE CloseLoad(p)
  BY <1>2, <1>3, <1>15 DEF CloseLoad, Labels, ClosePhase
<1>16. CASE CloseStore(p)
  <2>1. Local(p) /\ pc[p] = "store" /\ pc'[p] = "remove" /\ cur'[p] = cur[p]
        /\ opened' = opened /\ closed' = closed \cup {cur[p]}
    BY <1>16, GotoFrame DEF CloseStore
  <2>2. cur[p] \in OpenFiles
    BY <2>1 DEF FrameOpen, OpenLabels
  <2>3. {cur'[q] : q \in {r \in Procs : pc'[r] \in {"remove", "dec"}}}
          = {cur[q] : q \in {r \in Procs : pc[r] \in {"remove", "dec"}}}
              \cup {cur[p]}
    BY <2>1 DEF Local
  <2>4. Holding' = Holding
    BY <2>1, <2>2, <2>3 DEF Holding, OpenFiles
  <2>5. QED BY <1>16, <2>4 DEF CloseStore, RefsExact
<1>17. CASE CheckRef(p)
  <2>0. PICK l \in {"dec", "panic"} : Goto(p, l) /\ (l = "panic" => refs = 0)
    BY <1>17 DEF CheckRef
  <2>1. Local(p) /\ pc[p] = "remove" /\ cur'[p] = cur[p]
        /\ pc'[p] = l
    BY <1>17, <2>0, GotoFrame DEF CheckRef
  <2>2. cur[p] \in Holding
    BY <2>1 DEF Holding
  <2>3. refs # 0
    BY <2>2, HoldingFinite, FS_EmptySet DEF RefsExact
  <2>4. QED BY <1>1, <1>17, <2>0, <2>1, <2>3 DEF CheckRef
<1>18. CASE RemoveRef(p)
  <2>1. Local(p) /\ pc[p] = "dec" /\ pc'[p] = "refs" /\ cur'[p] = cur[p]
        /\ UNCHANGED <<opened, closed>>
    BY <1>18, GotoFrame DEF RemoveRef
  <2>2. cur[p] \in Holding /\ cur[p] \in closed /\ cur[p] # NoFile
    BY <2>1, FilesAssumption DEF Holding, CloseClosed, DataOK
  <2>3. \A q \in Procs \ {p} : cur[q] # cur[p]
    BY <2>2 DEF FramesApart, Frame
  <2>4. Holding' = Holding \ {cur[p]}
    BY <2>1, <2>2, <2>3 DEF Holding, OpenFiles, Local
  <2>5. Cardinality(Holding') = Cardinality(Holding) - 1
    BY <2>2, <2>4, HoldingFinite, FS_RemoveElement
  <2>6. refs # 0
    BY <2>2, HoldingFinite, FS_EmptySet DEF RefsExact
  <2>7. QED BY <1>18, <2>5, <2>6 DEF RemoveRef, Decrement, RefsExact
<1>19. CASE CloseRefs(p)
  BY <1>2, <1>3, <1>19 DEF CloseRefs, LastClose, Labels, ClosePhase
<1>20. CASE Logout(p)
  BY <1>2, <1>3, <1>20 DEF Logout, Labels, ClosePhase
<1>21. CASE Revoke(p)
  BY <1>3, <1>21 DEF Revoke, Labels, ClosePhase
<1>22. CASE ClearToken(p)
  BY <1>2, <1>22 DEF ClearToken
<1>23. QED
  BY <1>4, <1>5, <1>6, <1>7, <1>8, <1>9, <1>10, <1>11, <1>12, <1>13, <1>14, <1>15,
     <1>16, <1>17, <1>18, <1>19, <1>20, <1>21, <1>22 DEF Step

\* No handle, no reference.
LEMMA CountInit == Init => CountInv
<1> SUFFICES ASSUME Init PROVE CountInv
  OBVIOUS
<1>1. Holding = {}
  BY DEF Init, Holding, OpenFiles
<1>2. RefsExact
  BY <1>1, FS_EmptySet DEF Init, RefsExact
<1>3. FramesApart
  BY DEF Init, FramesApart, Frame
<1>4. FrameOpen /\ CloseClosed
  BY DEF Init, FrameOpen, CloseClosed, OpenLabels
<1>5. QED BY <1>2, <1>3, <1>4, TypeInit DEF CountInv, HandleInv

\* Every step keeps the count exact.
LEMMA CountNext ==
    ASSUME ~ConcurrentClose PROVE CountInv /\ [Next]_vars => CountInv'
<1> SUFFICES ASSUME CountInv, [Next]_vars PROVE CountInv'
  OBVIOUS
<1>1. HandleInv'
  BY HandleNext DEF CountInv
<1>2. CASE UNCHANGED vars
  <2>1. UNCHANGED <<refs, pc, cur, opened, closed>>
    BY <1>2 DEF vars, clientVars, handleVars, frameVars
  <2>2. QED BY <1>1, <2>1 DEF CountInv, RefsExact, Holding, OpenFiles
<1>3. QED BY <1>1, <1>2, CountCaller, CountStep DEF Next, CountInv

\* While callers use each handle from one goroutine at a time, the reference
\* count of the shared client is exactly the number of handles that hold a
\* reference, for any number of goroutines, handles and auth methods.
THEOREM RefsAreExact ==
    ASSUME ~ConcurrentClose PROVE Spec => []RefsExact
<1>1. CountInv => RefsExact
  BY DEF CountInv
<1>2. QED BY <1>1, CountInit, CountNext, PTL DEF Spec

-----------------------------------------------------------------------------
(* The panic in RemoveRef *)

\* A set of handles with a member is not counted as zero.
LEMMA MemberCounts ==
    ASSUME NEW H \in SUBSET Files, NEW f \in H
    PROVE  Cardinality(H) # 0
BY FilesAssumption, FS_Subset, FS_EmptySet

PanicInv == CountInv /\ NeverPanics

\* Only the check in RemoveRef panics, and it never finds the count at zero.
LEMMA PanicStep ==
    ASSUME PanicInv, NEW p \in Procs, Step(p)
    PROVE  NeverPanics'
<1> USE DEF PanicInv, CountInv, HandleInv, TypeInv, NeverPanics
<1>1. ASSUME NEW l, l # "panic", Goto(p, l) PROVE NeverPanics'
  BY <1>1 DEF Goto, FrameOK
<1>2. ASSUME Unwind(p) \/ Succeed(p) \/ Fail(p) PROVE NeverPanics'
  BY <1>2, UnwindFrame, SucceedFrame, FailFrame DEF Local
<1>3. CASE GetMountInfo(p) \/ ReadMounts(p)
  BY <1>1, <1>3 DEF GetMountInfo, ReadMounts, AfterMount
<1>4. CASE Login(p) \/ TrySucceeds(p) \/ RereadToken(p) \/ SetToken(p)
  BY <1>1, <1>4 DEF Login, TrySucceeds, LogsIn, RereadToken, SetToken
<1>5. CASE LoginInTurn(p) \/ TryLost(p) \/ NoneLeft(p)
  BY <1>1, <1>2, <1>5 DEF LoginInTurn, TryLost, NoneLeft, NoSecret
<1>6. CASE \/ LoginFails(p) \/ ReadSecret(p) \/ List(p) \/ RequestFails(p)
           \/ ReadDirReturns(p) \/ ClearToken(p)
  BY <1>2, <1>6 DEF LoginFails, ReadSecret, List, RequestFails,
                    ReadDirReturns, ClearToken
<1>7. CASE \E f \in Files : OpenChild(p, f)
  BY <1>1, <1>7 DEF OpenChild
<1>8. CASE CloseStore(p) \/ RemoveRef(p) \/ Revoke(p)
  BY <1>1, <1>8 DEF CloseStore, RemoveRef, Revoke
<1>9. CASE CloseLoad(p) \/ CloseRefs(p) \/ Logout(p)
  BY <1>1, <1>2, <1>9 DEF CloseLoad, CloseRefs, LastClose, Logout
<1>10. CASE CheckRef(p)
  <2>1. cur[p] \in Holding /\ Holding \in SUBSET Files
    BY <1>10, HoldingFinite DEF CheckRef, Holding, DataOK
  <2>2. refs # 0
    BY <2>1, MemberCounts DEF RefsExact
  <2>3. QED BY <1>1, <1>10, <2>2 DEF CheckRef
<1>11. QED
  BY <1>3, <1>4, <1>5, <1>6, <1>7, <1>8, <1>9, <1>10 DEF Step

\* No step panics.
LEMMA PanicNext ==
    ASSUME ~ConcurrentClose PROVE PanicInv /\ [Next]_vars => PanicInv'
<1> SUFFICES ASSUME PanicInv, [Next]_vars PROVE NeverPanics'
  BY CountNext DEF PanicInv
<1>1. ASSUME NEW p \in Procs, Caller(p) PROVE NeverPanics'
  BY <1>1 DEF Caller, Open, ReadFile, CallClose, CallRead, CallStat,
              CallReadDir, Call, Goto, NeverPanics, PanicInv, CountInv,
              HandleInv, TypeInv, FrameOK
<1>2. CASE UNCHANGED vars
  BY <1>2 DEF vars, NeverPanics, PanicInv
<1>3. QED BY <1>1, <1>2, PanicStep DEF Next

\* While callers use each handle from one goroutine at a time, RemoveRef never
\* reaches its panic ("this should never happen", client.go:33).
THEOREM RemoveRefNeverPanics ==
    ASSUME ~ConcurrentClose PROVE Spec => []NeverPanics
<1>1. Init => PanicInv
  BY CountInit DEF PanicInv, NeverPanics, Init
<1>2. PanicInv => NeverPanics
  BY DEF PanicInv
<1>3. QED BY <1>1, <1>2, PanicNext, PTL DEF Spec

-----------------------------------------------------------------------------
(* The owner of the token *)

\* TokenHasOwner, said with the count instead of the handles it counts.
TokenCounted ==
    (clientToken # NoToken /\ opened # {}) =>
        \/ refs # 0
        \/ \E p \in Procs : pc[p] \in {"refs", "logout", "revoke", "clear"}
        \/ clientToken = unclaimed

OwnerInv == CountInv /\ TokenCounted

\* The inductive invariant of the token's owner implies the property.
LEMMA OwnerInvOwner == OwnerInv => TokenHasOwner
BY FS_EmptySet DEF OwnerInv, CountInv, TokenCounted, TokenHasOwner, RefsExact

\* Opening a handle takes a reference; other calls change neither token nor
\* count.
LEMMA OwnerCaller ==
    ASSUME OwnerInv, CountInv', NEW p \in Procs, Caller(p)
    PROVE  TokenCounted'
<1> USE DEF OwnerInv, CountInv, HandleInv, TypeInv
<1>1. ASSUME NEW f \in Files, NewFile(f), closed' = closed PROVE TokenCounted'
  <2>1. f \in Holding'
    BY <1>1 DEF NewFile, Holding, OpenFiles, DataOK
  <2>2. Holding' \in SUBSET Files
    BY DEF Holding, OpenFiles, FrameOK, Busy, DataOK
  <2>3. refs' # 0
    BY <2>1, <2>2, MemberCounts DEF RefsExact
  <2>4. QED BY <2>3 DEF TokenCounted
<1>2. ASSUME NEW f \in Files, NEW m, NEW l, Call(p, f, m, l),
             UNCHANGED <<refs, clientToken, opened, unclaimed>>
      PROVE  TokenCounted'
  BY <1>2 DEF Call, Goto, FrameOK, TokenCounted
<1>3. QED
  BY <1>1, <1>2 DEF Caller, Open, ReadFile, CallClose, CallRead, CallStat,
                    CallReadDir, clientVars, handleVars, methodVars, loginVars

\* A step that sets the token is a step of an open handle, and the Close that
\* takes the count to zero goes on to clear the token.
LEMMA OwnerStep ==
    ASSUME OwnerInv, CountInv', NEW p \in Procs, Step(p)
    PROVE  TokenCounted'
<1> USE DEF OwnerInv, CountInv, HandleInv, TypeInv, clientVars, handleVars,
            methodVars, loginVars
<1>1. ASSUME UNCHANGED <<refs, clientToken, opened, unclaimed>>, Local(p),
             pc[p] \notin {"refs", "logout", "revoke", "clear"}
      PROVE  TokenCounted'
  BY <1>1 DEF TokenCounted, Local
<1>2. ASSUME UNCHANGED <<refs, clientToken, opened, unclaimed>>,
             pc[p] \notin {"refs", "logout", "revoke", "clear"},
             \/ Unwind(p) \/ Succeed(p) \/ Fail(p)
             \/ \E l \in Labels : Goto(p, l) /\ UNCHANGED frameVars
      PROVE  TokenCounted'
  BY <1>1, <1>2, UnwindFrame, SucceedFrame, FailFrame, GotoFrame
<1>3. ASSUME pc[p] \in OpenLabels, refs' = refs PROVE TokenCounted'
  <2>1. cur[p] \in Holding /\ Holding \in SUBSET Files
    BY <1>3, HoldingFinite DEF FrameOpen, Holding, DataOK
  <2>2. QED BY <1>3, <2>1, MemberCounts DEF RefsExact, TokenCounted
<1>4. CASE \/ GetMountInfo(p) \/ Login(p) \/ LoginFails(p) \/ RereadToken(p)
           \/ SetToken(p) \/ ReadMounts(p) \/ ReadSecret(p) \/ List(p)
           \/ RequestFails(p) \/ ReadDirReturns(p) \/ CloseStore(p)
           \/ LoginInTurn(p) \/ TrySucceeds(p) \/ TryLost(p) \/ NoneLeft(p)
  BY <1>3, <1>4 DEF GetMountInfo, Login, LogsIn, LoginFails, LoginInTurn,
                    TrySucceeds, TryLost, NoneLeft, RereadToken, SetToken,
                    ReadMounts, ReadSecret, List, RequestFails,
                    ReadDirReturns, CloseStore, OpenLabels
<1>5. ASSUME NEW f \in Files, OpenChild(p, f) PROVE TokenCounted'
  <2>1. f \in Holding' /\ Holding' \in SUBSET Files
    BY <1>5 DEF OpenChild, NewFile, Holding, OpenFiles, FrameOK, Busy, DataOK
  <2>2. QED BY <2>1, MemberCounts DEF RefsExact, TokenCounted
<1>6. CASE CloseLoad(p) \/ CheckRef(p)
  BY <1>2, <1>6 DEF CloseLoad, CheckRef, Labels, ClosePhase
<1>7. CASE RemoveRef(p)
  <2>1. pc'[p] = "refs"
    BY <1>7 DEF RemoveRef, Goto, FrameOK
  <2>2. QED BY <2>1 DEF TokenCounted
<1>8. CASE CloseRefs(p)
  <2>1. CASE LastReference
    <3>1. pc'[p] \in {"logout", "clear", "revoke"}
      BY <1>8, <2>1 DEF CloseRefs, LastClose, Goto, FrameOK
    <3>2. QED BY <3>1 DEF TokenCounted
  <2>2. CASE ~LastReference
    BY <1>8, <2>2 DEF CloseRefs, LastReference, TokenCounted
  <2>3. QED BY <2>1, <2>2
<1>9. CASE Logout(p)
  <2>1. CASE chosen[Method(p)] = "none"
    BY <1>9, <2>1 DEF Logout, TokenCounted
  <2>2. CASE chosen[Method(p)] # "none"
    <3>1. pc'[p] \in {"clear", "revoke"}
      BY <1>9, <2>2 DEF Logout, Goto, FrameOK
    <3>2. QED BY <3>1 DEF TokenCounted
  <2>3. QED BY <2>1, <2>2
<1>10. CASE Revoke(p)
  <2>1. pc'[p] = "clear"
    BY <1>10 DEF Revoke, Goto, FrameOK
  <2>2. QED BY <2>1 DEF TokenCounted
<1>11. CASE ClearToken(p)
  BY <1>11 DEF ClearToken, TokenCounted
<1>12. QED
  BY <1>4, <1>5, <1>6, <1>7, <1>8, <1>9, <1>10, <1>11 DEF Step

\* Every step keeps an owner for the client's token.
LEMMA OwnerNext ==
    ASSUME ~ConcurrentClose PROVE OwnerInv /\ [Next]_vars => OwnerInv'
<1> SUFFICES ASSUME OwnerInv, [Next]_vars PROVE OwnerInv'
  OBVIOUS
<1>1. CountInv'
  BY CountNext DEF OwnerInv
<1>2. CASE UNCHANGED vars
  BY <1>1, <1>2 DEF vars, clientVars, handleVars, loginVars, methodVars, OwnerInv,
                    TokenCounted
<1>3. QED BY <1>1, <1>2, OwnerCaller, OwnerStep DEF Next, OwnerInv

\* While callers use each handle from one goroutine at a time, the client's
\* token never outlives the handles: whenever it has one, a handle holds a
\* reference or a Close is on its way to give the token up.  The one exception is
\* a token that a composite method's Logout has left there because none of its
\* methods was chosen (vaultauth/auth.go:99).
THEOREM TokenAlwaysOwned ==
    ASSUME ~ConcurrentClose PROVE Spec => []TokenHasOwner
<1>1. Init => OwnerInv
  BY CountInit DEF OwnerInv, TokenCounted, Init
<1>2. QED BY <1>1, OwnerInvOwner, OwnerNext, PTL DEF Spec

\* No filesystem has a method whose Logout may do nothing (vaultauth/auth.go:99).
NoComposites == \A f \in Files : AuthOf[f] \notin Composites

\* Then no Close gets to such a Logout, and no token is left behind by one.
NoneUnclaimed == unclaimed = NoToken /\ \A p \in Procs : pc[p] # "logout"

\* What a goroutine does leaves nothing unclaimed.
LEMMA UnclaimedNext ==
    ASSUME NoComposites, TypeInv, NoneUnclaimed, [Next]_vars
    PROVE  NoneUnclaimed'
<1> USE DEF TypeInv, FrameOK, DataOK, clientVars, handleVars, loginVars, methodVars
<1>1. ASSUME NEW p \in Procs, NEW l, Goto(p, l), l # "logout", unclaimed' = unclaimed
      PROVE  NoneUnclaimed'
  BY <1>1 DEF Goto, NoneUnclaimed
<1>2. ASSUME NEW p \in Procs, Unwind(p) \/ Succeed(p) \/ Fail(p) \/ NoSecret(p),
             unclaimed' = unclaimed
      PROVE  NoneUnclaimed'
  BY <1>2, UnwindFrame, SucceedFrame, FailFrame, NoSecretFrame
     DEF Local, NoneUnclaimed
<1>3. ASSUME NEW p \in Procs, Caller(p) PROVE NoneUnclaimed'
  <2>1. ASSUME NEW f \in Files, Open(p, f) PROVE NoneUnclaimed'
    BY <2>1 DEF Open, NoneUnclaimed
  <2>2. ASSUME NEW f \in Files, NEW m, NEW l \in {"mount", "children", "load"},
               Call(p, f, m, l), unclaimed' = unclaimed
        PROVE  NoneUnclaimed'
    BY <1>1, <2>2 DEF Call
  <2> QED
    BY <1>3, <2>1, <2>2
       DEF Caller, ReadFile, CallRead, CallStat, CallReadDir, CallClose
<1>4. ASSUME NEW p \in Procs, Login(p) \/ TrySucceeds(p) PROVE NoneUnclaimed'
  BY <1>1, <1>4, LoginLogsIn DEF LogsIn
<1>5. ASSUME NEW p \in Procs,
             \/ GetMountInfo(p) \/ RereadToken(p) \/ SetToken(p) \/ ReadMounts(p)
             \/ (\E f \in Files : OpenChild(p, f)) \/ CloseStore(p) \/ CheckRef(p)
             \/ RemoveRef(p) \/ Revoke(p)
      PROVE  NoneUnclaimed'
  BY <1>1, <1>5 DEF GetMountInfo, RereadToken, SetToken, ReadMounts, OpenChild,
                    CloseStore, CheckRef, RemoveRef, Revoke, AfterMount
<1>6. ASSUME NEW p \in Procs,
             \/ LoginFails(p) \/ NoneLeft(p) \/ ReadSecret(p) \/ List(p)
             \/ RequestFails(p) \/ ReadDirReturns(p) \/ ClearToken(p)
      PROVE  NoneUnclaimed'
  BY <1>2, <1>6 DEF LoginFails, NoneLeft, ReadSecret, List, RequestFails,
                    ReadDirReturns, ClearToken
<1>7. ASSUME NEW p \in Procs, LoginInTurn(p) \/ CloseLoad(p) PROVE NoneUnclaimed'
  BY <1>1, <1>2, <1>7 DEF LoginInTurn, CloseLoad
<1>8. ASSUME NEW p \in Procs, CloseRefs(p) PROVE NoneUnclaimed'
  <2>1. cur[p] \in Files
    BY <1>8 DEF CloseRefs, Busy
  <2>2. LastClose(cur[p]) # "logout"
    BY <2>1 DEF LastClose, NoComposites
  <2> QED  BY <1>1, <1>2, <1>8, <2>2 DEF CloseRefs
<1>9. ASSUME NEW p \in Procs, TryLost(p) \/ Logout(p) PROVE NoneUnclaimed'
  BY <1>9 DEF TryLost, Logout, NoneUnclaimed
<1>10. CASE UNCHANGED vars
  BY <1>10 DEF vars, NoneUnclaimed
<1> QED
  BY <1>3, <1>4, <1>5, <1>6, <1>7, <1>8, <1>9, <1>10 DEF Next, Step

\* Without composite methods there is no exception: as long as callers use each
\* handle from one goroutine at a time, the client has no token once no handle
\* holds a reference and no Close is under way (vault.go:390).
THEOREM LogsOutWithTheLast ==
    ASSUME ~ConcurrentClose, NoComposites PROVE Spec => []LogsOutAtZero
<1>1. Init => OwnerInv /\ NoneUnclaimed
  BY CountInit DEF OwnerInv, TokenCounted, Init, NoneUnclaimed
<1>2. OwnerInv /\ NoneUnclaimed /\ [Next]_vars => OwnerInv' /\ NoneUnclaimed'
  BY OwnerNext, UnclaimedNext DEF OwnerInv, CountInv, HandleInv
<1>3. OwnerInv /\ NoneUnclaimed => LogsOutAtZero
  <2> SUFFICES ASSUME OwnerInv, NoneUnclaimed, opened # {}, Holders = {}
               PROVE  clientToken = NoToken
    BY DEF LogsOutAtZero
  <2>1. /\ Holding = {}
        /\ \A p \in Procs : pc[p] \notin {"refs", "logout", "revoke", "clear"}
    BY DEF Holders, Holding
  <2> QED  BY <2>1, OwnerInvOwner DEF TokenHasOwner, NoneUnclaimed
<1> QED  BY <1>1, <1>2, <1>3, PTL DEF Spec

-----------------------------------------------------------------------------
(* One goroutine: the token as a lease, and no token left behind *)

\* One goroutine uses all the handles.
Alone == \A p, q \in Procs : p = q

\* From the check for a token to SetToken nobody else puts one into the client,
\* and from the check of the count to ClearToken nobody takes a reference.
TokenInv ==
    \A p \in Procs :
        /\ pc[p] \in {"login", "try"} => clientToken = NoToken
        /\ pc[p] = "setToken" => clientToken \in {NoToken, got[p]}
        /\ pc[p] # "setToken" => got[p] = NoToken
        /\ pc[p] \in {"logout", "revoke", "clear"} => refs = 0
        /\ pc[p] = "try" => Chained(p)
        /\ pc[p] = "logout" => Method(p) \in Composites

LeaseInv == PanicInv /\ TokenInv

\* A step to a label of which TokenInv says nothing.
LEMMA QuietToken ==
    ASSUME Alone, NEW p \in Procs, got'[p] = NoToken,
           pc'[p] \notin {"login", "try", "setToken", "logout", "revoke", "clear"}
    PROVE  TokenInv'
<1>1. \A q \in Procs : q = p
  BY DEF Alone
<1> QED  BY <1>1 DEF TokenInv

\* Where the end of a method, or of a request, leaves a goroutine.
LEMMA QuietEnd ==
    ASSUME Alone, TypeInv, TokenInv, NEW p \in Procs, pc[p] # "setToken", got' = got,
           Unwind(p) \/ Succeed(p) \/ Fail(p) \/ NoSecret(p)
    PROVE  TokenInv'
<1>1. pc'[p] \in {"idle", "load", "children", "mount", "reread"}
  BY UnwindFrame, SucceedFrame, FailFrame, NoSecretFrame DEF TypeInv
<1> QED  BY <1>1, QuietToken DEF TokenInv

\* Callers know nothing of tokens.
LEMMA TokenCaller ==
    ASSUME Alone, TypeInv, TokenInv, NEW p \in Procs, Caller(p)
    PROVE  TokenInv'
<1> USE DEF TypeInv, FrameOK
<1>1. ASSUME NEW f \in Files, Open(p, f) PROVE TokenInv'
  BY <1>1, QuietToken DEF Open, TokenInv
<1>2. ASSUME NEW f \in Files, NEW m, NEW l \in {"mount", "children", "load"},
             Call(p, f, m, l), got' = got
      PROVE  TokenInv'
  BY <1>2, QuietToken DEF Call, Goto, TokenInv
<1> QED
  BY <1>1, <1>2 DEF Caller, ReadFile, CallRead, CallStat, CallReadDir, CallClose

\* A login puts its token into the client, or leaves it to SetToken.
LEMMA LogsInToken ==
    ASSUME Alone, TypeInv, TokenInv, NEW p \in Procs, NEW remote \in BOOLEAN,
           LogsIn(p, remote), pc[p] \in {"login", "try"}
    PROVE  TokenInv'
<1>1. \A q \in Procs : q = p
  BY DEF Alone
<1>2. CASE Legacy(p)
  <2>1. pc'[p] = "reread" /\ got'[p] = NoToken
    BY <1>2 DEF LogsIn, Goto, TypeInv, FrameOK, TokenInv
  <2> QED  BY <2>1, QuietToken
<1>3. CASE ~Legacy(p)
  <2>1. pc'[p] = "setToken" /\ clientToken' = NoToken
    BY <1>3 DEF LogsIn, Goto, TypeInv, FrameOK, TokenInv
  <2> QED  BY <1>1, <2>1 DEF TokenInv
<1> QED  BY <1>2, <1>3

\* What a goroutine does inside a method, if it is alone.
LEMMA TokenStep ==
    ASSUME Alone, TypeInv, TokenInv, NEW p \in Procs, Step(p)
    PROVE  TokenInv'
<1> USE DEF TypeInv, FrameOK, DataOK, clientVars
<1>0. \A q \in Procs : q = p
  BY DEF Alone
<1>1. ASSUME NEW l, Goto(p, l), pc[p] # "setToken", got' = got,
             l \notin {"login", "try", "setToken", "logout", "revoke", "clear"}
      PROVE  TokenInv'
  BY <1>1, QuietToken DEF Goto, TokenInv
<1>2. CASE GetMountInfo(p)
  <2>1. CASE cur[p] \in mounted \/ clientToken # NoToken
    BY <1>1, <1>2, <2>1 DEF GetMountInfo, AfterMount, NeedsLogin
  <2>2. CASE cur[p] \notin mounted /\ clientToken = NoToken
    BY <1>0, <1>2, <2>2 DEF GetMountInfo, NeedsLogin, Goto, TokenInv
  <2> QED  BY <2>1, <2>2
<1>3. CASE Login(p) \/ TrySucceeds(p)
  <2>1. PICK remote \in BOOLEAN : LogsIn(p, remote) /\ pc[p] \in {"login", "try"}
    BY <1>3, LoginLogsIn
  <2> QED  BY <2>1, LogsInToken
<1>4. CASE LoginInTurn(p)
  <2>1. CASE chosen[Method(p)] = "none"
    <3>1. pc[p] = "login" /\ Chained(p) /\ pc'[p] = "try" /\ got' = got
          /\ clientToken' = clientToken /\ cur' = cur
      BY <1>4, <2>1 DEF LoginInTurn, Goto, frameVars
    <3>2. Chained(p)'
      BY <3>1 DEF Chained, Method
    <3> QED  BY <1>0, <3>1, <3>2 DEF TokenInv
  <2>2. CASE chosen[Method(p)] # "none"
    BY <1>4, <2>2, QuietEnd DEF LoginInTurn
  <2> QED  BY <2>1, <2>2
<1>5. CASE TryLost(p)
  <2>1. UNCHANGED <<pc, cur, got, refs, clientToken>>
    BY <1>5 DEF TryLost, frameVars
  <2> QED  BY <2>1 DEF TokenInv, Chained, Method
<1>6. CASE NoneLeft(p)
  BY <1>6, QuietEnd DEF NoneLeft
<1>7. CASE \/ LoginFails(p) \/ ReadSecret(p) \/ List(p)
           \/ RequestFails(p) \/ ReadDirReturns(p)
  BY <1>7, QuietEnd DEF LoginFails, ReadSecret, List, RequestFails, ReadDirReturns
<1>8. CASE RereadToken(p)
  BY <1>0, <1>8 DEF RereadToken, Goto, TokenInv
<1>9. CASE SetToken(p)
  <2>1. pc'[p] = "mounts" /\ got'[p] = NoToken
    BY <1>9 DEF SetToken, Goto
  <2> QED  BY <2>1, QuietToken
<1>10. CASE ReadMounts(p) \/ CloseStore(p) \/ CheckRef(p) \/ RemoveRef(p)
  BY <1>1, <1>10 DEF ReadMounts, AfterMount, CloseStore, CheckRef, RemoveRef
<1>11. ASSUME NEW f \in Files, OpenChild(p, f) PROVE TokenInv'
  BY <1>1, <1>11 DEF OpenChild
<1>12. CASE CloseLoad(p)
  BY <1>1, <1>12, QuietEnd DEF CloseLoad
<1>13. CASE CloseRefs(p)
  <2>1. CASE LastReference
    <3>1. /\ pc'[p] = LastClose(cur[p]) /\ cur' = cur
          /\ got'[p] = NoToken /\ refs' = 0
      BY <1>13, <2>1 DEF CloseRefs, Goto, LastReference, TokenInv, frameVars
    <3>2. /\ pc'[p] \in {"logout", "clear", "revoke"}
          /\ pc'[p] = "logout" => Method(p)' \in Composites
      BY <3>1 DEF LastClose, Method
    <3> QED  BY <1>0, <3>1, <3>2 DEF TokenInv
  <2>2. CASE ~LastReference
    BY <1>13, <2>2, QuietEnd DEF CloseRefs
  <2> QED  BY <2>1, <2>2
<1>14. CASE Logout(p)
  <2>1. CASE chosen[Method(p)] = "none"
    BY <1>14, <2>1, QuietEnd DEF Logout
  <2>2. CASE chosen[Method(p)] # "none"
    <3>1. pc'[p] \in {"clear", "revoke"} /\ got' = got /\ refs' = refs
      BY <1>14, <2>2 DEF Logout, Goto
    <3> QED  BY <1>0, <1>14, <3>1 DEF Logout, TokenInv
  <2> QED  BY <2>1, <2>2
<1>15. CASE Revoke(p)
  <2>1. pc'[p] = "clear" /\ got' = got /\ refs' = refs
    BY <1>15 DEF Revoke, Goto
  <2> QED  BY <1>0, <1>15, <2>1 DEF Revoke, TokenInv
<1>16. CASE ClearToken(p)
  BY <1>16, QuietEnd DEF ClearToken
<1> QED
  BY <1>2, <1>3, <1>4, <1>5, <1>6, <1>7, <1>8, <1>9, <1>10, <1>11, <1>12, <1>13,
     <1>14, <1>15, <1>16 DEF Step

\* The invariant of the lease holds at first ...
LEMMA LeaseInit == Init => LeaseInv
<1> SUFFICES ASSUME Init PROVE LeaseInv
  OBVIOUS
<1>1. PanicInv
  BY CountInit DEF PanicInv, NeverPanics, Init
<1>2. TokenInv
  BY DEF Init, TokenInv
<1> QED  BY <1>1, <1>2 DEF LeaseInv

\* ... and in every step of a goroutine that is alone.
LEMMA LeaseNext ==
    ASSUME ~ConcurrentClose, Alone PROVE LeaseInv /\ [Next]_vars => LeaseInv'
<1> SUFFICES ASSUME LeaseInv, [Next]_vars PROVE LeaseInv'
  OBVIOUS
<1>1. PanicInv'
  BY PanicNext DEF LeaseInv
<1>2. TypeInv /\ TokenInv
  BY DEF LeaseInv, PanicInv, CountInv, HandleInv
<1>3. CASE UNCHANGED vars
  <2>1. UNCHANGED <<pc, cur, clientToken, got, refs>>
    BY <1>3 DEF vars, clientVars, frameVars
  <2>2. TokenInv'
    BY <1>2, <2>1 DEF TokenInv, Chained, Method
  <2> QED  BY <1>1, <2>2 DEF LeaseInv
<1>4. ASSUME NEW p \in Procs, Caller(p) \/ Step(p) PROVE TokenInv'
  BY <1>2, <1>4, TokenCaller, TokenStep
<1> QED  BY <1>1, <1>3, <1>4 DEF Next, LeaseInv

Closing == {"remove", "dec", "refs", "logout", "revoke", "clear"}

\* A step that neither opens nor closes a handle, nor goes into or out of the part
\* of Close that still has to do with the token.
LEMMA HoldersSame ==
    ASSUME NEW p \in Procs, Local(p), UNCHANGED <<opened, closed>>,
           \/ pc[p] \notin Closing /\ pc'[p] \notin Closing
           \/ pc[p] \in Closing /\ pc'[p] \in Closing /\ cur'[p] = cur[p]
    PROVE  Holders' = Holders
BY DEF Holders, OpenFiles, Local, Closing

\* A handle that is opened holds the lease from then on.
LEMMA OpenAcquires ==
    ASSUME LeaseInv, NEW f \in Files, NewFile(f), closed' = closed,
           clientToken' = clientToken,
           {cur'[q] : q \in {r \in Procs : pc'[r] \in Closing}}
             = {cur[q] : q \in {r \in Procs : pc[r] \in Closing}}
    PROVE  Lease!Acquire(f)
<1> USE DEF LeaseInv, PanicInv, CountInv, HandleInv, TypeInv
<1>1. f \notin Holders
  BY DEF NewFile, Holders, OpenFiles, FrameOK, Busy
<1>2. Holders' = Holders \cup {f}
  BY DEF NewFile, Holders, OpenFiles, Closing, DataOK
<1> QED  BY <1>1, <1>2 DEF Lease!Acquire

\* What callers do: an Open acquires, a call changes nothing.
LEMMA LeaseCaller ==
    ASSUME LeaseInv, NEW p \in Procs, Caller(p)
    PROVE  Lease!Next \/ (Holders' = Holders /\ clientToken' = clientToken)
<1> USE DEF LeaseInv, PanicInv, CountInv, HandleInv, TypeInv, FrameOK
<1>1. ASSUME NEW f \in Files, NEW m, NEW l, l \notin Closing, Call(p, f, m, l)
      PROVE  {cur'[q] : q \in {r \in Procs : pc'[r] \in Closing}}
               = {cur[q] : q \in {r \in Procs : pc[r] \in Closing}}
  BY <1>1 DEF Call, Goto, Closing
<1>2. ASSUME NEW f \in Files, Open(p, f) PROVE Lease!Acquire(f)
  BY <1>2, OpenAcquires DEF Open, frameVars
<1>3. ASSUME NEW f \in Files, ReadFile(p, f) PROVE Lease!Acquire(f)
  BY <1>1, <1>3, OpenAcquires DEF ReadFile, Closing
<1>4. ASSUME NEW f \in Files, NEW m, NEW l, l \notin Closing, Call(p, f, m, l),
             UNCHANGED <<opened, closed>>
      PROVE  Holders' = Holders
  BY <1>1, <1>4 DEF Holders, OpenFiles, Closing
<1>5. ASSUME NEW f \in Files,
             CallRead(p, f) \/ CallStat(p, f) \/ CallReadDir(p, f) \/ CallClose(p, f)
      PROVE  Holders' = Holders /\ clientToken' = clientToken
  BY <1>4, <1>5 DEF CallRead, CallStat, CallReadDir, CallClose, Closing,
                    clientVars, handleVars
<1> QED  BY <1>2, <1>3, <1>5 DEF Caller, Lease!Next

\* What a goroutine does inside a method: a login obtains the token, a Close
\* releases it or, if it is the last one, gives it up.
LEMMA LeaseStep ==
    ASSUME Alone, NoComposites, LeaseInv, NeverPanics', NEW p \in Procs, Step(p)
    PROVE  Lease!Next \/ (Holders' = Holders /\ clientToken' = clientToken)
<1> USE DEF LeaseInv, PanicInv, CountInv, HandleInv, TypeInv, clientVars, handleVars,
            methodVars, loginVars
<1>0. \A q \in Procs : q = p
  BY DEF Alone
<1>1. ASSUME NEW l, Goto(p, l), UNCHANGED <<frameVars, opened, closed>>,
             pc[p] \in Closing <=> l \in Closing
      PROVE  Holders' = Holders
  BY <1>1, GotoFrame, HoldersSame
<1>2. ASSUME Unwind(p) \/ Succeed(p) \/ Fail(p) \/ NoSecret(p),
             UNCHANGED <<opened, closed>>, pc[p] \notin Closing
      PROVE  Holders' = Holders
  <2>1. Local(p) /\ pc'[p] \in {"idle", "load", "children", "mount", "reread"}
    BY <1>2, UnwindFrame, SucceedFrame, FailFrame, NoSecretFrame
  <2> QED  BY <1>2, <2>1, HoldersSame DEF Closing
<1>3. pc[p] \in OpenLabels => Holders # {}
  BY DEF FrameOpen, Holders
<1>4. CASE GetMountInfo(p) \/ ReadMounts(p) \/ RereadToken(p)
  BY <1>1, <1>4 DEF GetMountInfo, ReadMounts, RereadToken, AfterMount, Closing
<1>5. CASE Login(p) \/ TrySucceeds(p)
  <2>1. PICK remote \in BOOLEAN : LogsIn(p, remote) /\ pc[p] \in {"login", "try"}
    BY <1>5, LoginLogsIn
  <2>2. Holders' = Holders
    BY <1>1, <2>1 DEF LogsIn, Closing
  <2>3. clientToken = NoToken /\ Holders # {}
    BY <1>3, <2>1 DEF TokenInv, OpenLabels
  <2>4. CASE Legacy(p)
    <3>1. clientToken' = IF remote THEN issued + 1 ELSE UserToken
      BY <2>1, <2>4 DEF LogsIn
    <3>2. remote => issued + 1 \in Tokens \ {NoToken}
      BY <2>1, IssueType DEF LogsIn
    <3>3. clientToken' \in Tokens \ {NoToken}
      BY <3>1, <3>2, TokenAssumption DEF Tokens, UserToken, NoToken
    <3> QED  BY <2>2, <2>3, <3>3 DEF Lease!Obtain, Lease!Next
  <2>5. CASE ~Legacy(p)
    BY <2>1, <2>2, <2>5 DEF LogsIn
  <2> QED  BY <2>4, <2>5
<1>6. CASE LoginInTurn(p) \/ NoneLeft(p)
  BY <1>1, <1>2, <1>6 DEF LoginInTurn, NoneLeft, Closing
<1>7. CASE TryLost(p)
  BY <1>7 DEF TryLost, Holders, OpenFiles, frameVars
<1>8. CASE SetToken(p)
  <2>1. Holders' = Holders
    BY <1>1, <1>8 DEF SetToken, Closing
  <2>2. /\ Holders # {} /\ clientToken' = got[p] /\ got[p] \in Tokens
        /\ clientToken \in {NoToken, got[p]}
    BY <1>3, <1>8 DEF SetToken, TokenInv, OpenLabels, DataOK
  <2> QED  BY <2>1, <2>2 DEF Lease!Obtain, Lease!Next
<1>9. CASE \/ LoginFails(p) \/ ReadSecret(p) \/ List(p)
           \/ RequestFails(p) \/ ReadDirReturns(p)
  BY <1>2, <1>9 DEF LoginFails, ReadSecret, List, RequestFails, ReadDirReturns, Closing
<1>10. ASSUME NEW f \in Files, OpenChild(p, f) PROVE Lease!Next
  <2>1. pc[p] = "children" /\ pc'[p] = "mount"
    BY <1>10 DEF OpenChild, Goto, FrameOK
  <2>2. {cur'[q] : q \in {r \in Procs : pc'[r] \in Closing}}
          = {cur[q] : q \in {r \in Procs : pc[r] \in Closing}}
    BY <1>0, <2>1 DEF Closing
  <2> QED  BY <1>10, <2>2, OpenAcquires DEF OpenChild, Lease!Next
<1>11. CASE CloseLoad(p)
  BY <1>1, <1>2, <1>11 DEF CloseLoad, Closing
<1>12. CASE CloseStore(p)
  <2>1. Local(p) /\ pc[p] = "store" /\ pc'[p] = "remove" /\ cur'[p] = cur[p]
    BY <1>12, GotoFrame DEF CloseStore
  <2>2. cur[p] \in OpenFiles /\ opened' = opened /\ closed' = closed \cup {cur[p]}
    BY <1>12 DEF CloseStore, FrameOpen, OpenLabels
  <2>3. Holders' = Holders
    BY <1>0, <2>1, <2>2 DEF Holders, OpenFiles
  <2> QED  BY <1>12, <2>3 DEF CloseStore
<1>13. CASE CheckRef(p)
  <2>1. PICK l \in {"panic", "dec"} : Goto(p, l)
    BY <1>13 DEF CheckRef
  <2>2. l # "panic"
    BY <2>1 DEF Goto, FrameOK, NeverPanics
  <2> QED  BY <1>1, <1>13, <2>1, <2>2 DEF CheckRef, Closing
<1>14. CASE RemoveRef(p) \/ Revoke(p)
  BY <1>1, <1>14 DEF RemoveRef, Revoke, Closing
<1>15. CASE CloseRefs(p)
  <2>1. CASE LastReference
    BY <1>1, <1>15, <2>1 DEF CloseRefs, LastClose, Closing
  <2>2. CASE ~LastReference
    <3>1. /\ Unwind(p) /\ pc[p] = "refs" /\ refs # 0
          /\ UNCHANGED <<opened, closed, clientToken>>
      BY <1>15, <2>2 DEF CloseRefs, LastReference
    <3>2. Holding # {} /\ Holding = OpenFiles
      BY <1>0, <3>1, FS_EmptySet DEF RefsExact, Holding
    <3>3. pc'[p] \in {"idle", "load"}
      BY <3>1, UnwindFrame
    <3>4. Holders = OpenFiles \cup {cur[p]} /\ Holders' = OpenFiles
      BY <1>0, <3>1, <3>3 DEF Holders, OpenFiles
    <3>5. CASE cur[p] \in OpenFiles
      BY <3>1, <3>4, <3>5
    <3>6. CASE cur[p] \notin OpenFiles
      <4>1. Lease!Release(cur[p])
        BY <3>1, <3>2, <3>4, <3>6 DEF Lease!Release
      <4>2. cur[p] \in Files
        BY <3>1 DEF FrameOK, Busy, DataOK
      <4> QED  BY <4>1, <4>2 DEF Lease!Next
    <3> QED  BY <3>5, <3>6
  <2> QED  BY <2>1, <2>2
<1>16. CASE Logout(p)
  BY <1>16 DEF Logout, TokenInv, Method, NoComposites, Busy, FrameOK, DataOK
<1>17. CASE ClearToken(p)
  <2>1. /\ Unwind(p) /\ pc[p] = "clear"
        /\ UNCHANGED <<opened, closed>> /\ clientToken' = NoToken
    BY <1>17 DEF ClearToken
  <2>2. refs = 0
    BY <2>1 DEF TokenInv
  <2>3. OpenFiles = {}
    <3>1. OpenFiles \subseteq Holding /\ Holding \in SUBSET Files
      BY HoldingFinite DEF Holding, DataOK
    <3> QED  BY <2>2, <3>1, MemberCounts DEF RefsExact
  <2>4. pc'[p] \in {"idle", "load"}
    BY <2>1, UnwindFrame
  <2>5. Holders = {cur[p]} /\ Holders' = {}
    BY <1>0, <2>1, <2>3, <2>4 DEF Holders, OpenFiles
  <2>6. cur[p] \in Files
    BY <2>1 DEF FrameOK, Busy, DataOK
  <2> QED  BY <2>1, <2>5, <2>6 DEF Lease!ReleaseLast, Lease!Next
<1> QED
  BY <1>4, <1>5, <1>6, <1>7, <1>8, <1>9, <1>10, <1>11, <1>12, <1>13, <1>14, <1>15,
     <1>16, <1>17 DEF Step

\* For one goroutine, and filesystems whose methods are not composite ones, the
\* client's token is the lease that the comment on refCountedClient promises
\* (client.go:13): acquired when a handle first needs it, kept while one is open,
\* given up with the last one, whatever fails.
THEOREM TokenIsLease ==
    ASSUME ~ConcurrentClose, Alone, NoComposites PROVE Spec => LeaseSpec
<1>1. Init => Lease!Init
  BY DEF Init, Lease!Init, Holders, OpenFiles
<1>2. LeaseInv /\ LeaseInv' /\ [Next]_vars => [Lease!Next]_(Lease!vars)
  <2> SUFFICES ASSUME LeaseInv, LeaseInv', [Next]_vars
               PROVE  Lease!Next \/ (Holders' = Holders /\ clientToken' = clientToken)
    BY DEF Lease!vars
  <2>1. CASE UNCHANGED vars
    BY <2>1 DEF vars, clientVars, handleVars, frameVars, Holders, OpenFiles
  <2>2. NeverPanics'
    BY DEF LeaseInv, PanicInv
  <2> QED  BY <2>1, <2>2, LeaseCaller, LeaseStep DEF Next
<1> QED  BY <1>1, <1>2, LeaseInit, LeaseNext, PTL DEF Spec, LeaseSpec, Lease!Spec

\* The auth methods are alike to Close: no filesystem is derived with the token
\* method from one with another, or the other way round, and none is composite.
SameLogout == \E step \in {"clear", "revoke"} : \A f \in Files : LastClose(f) = step

TokenMethod == \A f \in Files : AuthOf[f] = "token"

\* The tokens that nobody would miss: the user's and those the network lost.
Accounted == {UserToken} \cup lost

\* The token method never has a token but the user's, so what ClearToken forgets
\* without a revocation is that one, or none.
LeakInv ==
    /\ NoTokenLeak
    /\ TokenMethod =>
           \A p \in Procs : {clientToken, got[p]} \subseteq {NoToken, UserToken}
    /\ \A p \in Procs : pc[p] = "clear" => clientToken \notin live \ Accounted

\* A step that leaves all tokens where they are.
LEMMA QuietLeak ==
    ASSUME Alone, LeakInv, NEW p \in Procs, UNCHANGED <<live, clientToken, got>>,
           lost \subseteq lost', pc'[p] # "clear"
    PROVE  LeakInv'
<1>1. \A q \in Procs : q = p
  BY DEF Alone
<1>2. NoTokenLeak'
  BY DEF LeakInv, NoTokenLeak
<1> QED  BY <1>1, <1>2 DEF LeakInv, TokenMethod

\* Calls leave them where they are.
LEMMA LeakCaller ==
    ASSUME Alone, TypeInv, LeakInv, NEW p \in Procs, Caller(p)
    PROVE  LeakInv'
<1> USE DEF TypeInv, FrameOK, clientVars, serverVars, loginVars
<1>1. ASSUME NEW f \in Files, Open(p, f) PROVE LeakInv'
  BY <1>1, QuietLeak DEF Open
<1>2. ASSUME NEW f \in Files, NEW m, NEW l \in {"mount", "children", "load"},
             Call(p, f, m, l), UNCHANGED <<serverVars, clientToken, got>>
      PROVE  LeakInv'
  BY <1>2, QuietLeak DEF Call, Goto
<1> QED
  BY <1>1, <1>2 DEF Caller, ReadFile, CallRead, CallStat, CallReadDir, CallClose

\* A new token goes to the client or to SetToken, which finds no other there.
LEMMA LogsInLeak ==
    ASSUME Alone, TypeInv, TokenInv, LeakInv, NEW p \in Procs,
           NEW remote \in BOOLEAN, LogsIn(p, remote), pc[p] \in {"login", "try"},
           remote => Remote(p) \/ pc[p] = "try"
    PROVE  LeakInv'
<1> DEFINE token == IF remote THEN issued + 1 ELSE UserToken
<1>0. (\A q \in Procs : q = p) /\ {got[q] : q \in Procs} = {got[p]}
  BY DEF Alone
<1>1. clientToken = NoToken /\ got[p] = NoToken /\ got \in [Procs -> Tokens]
  BY DEF TokenInv, TypeInv, DataOK
<1>2. lost' = lost
  BY DEF LogsIn
<1>3. live' \ Accounted \subseteq {token}
  <2>1. live \ Accounted \subseteq {NoToken}
    BY <1>0, <1>1 DEF LeakInv, NoTokenLeak, Accounted
  <2>2. NoToken \notin live
    BY DEF TypeInv, DataOK
  <2>3. live' = IF remote THEN live \cup {issued + 1} ELSE live
    BY DEF LogsIn, Issue
  <2> QED  BY <2>1, <2>2, <2>3
<1>4. TokenMethod => token = UserToken
  <2>1. pc[p] # "idle" /\ cur[p] \in Files
    BY DEF TypeInv, DataOK, FrameOK, Busy
  <2>2. TokenMethod => ~Remote(p) /\ ~Chained(p)
    BY <2>1, FilesAssumption DEF TokenMethod, Remote, Chained, Method, AuthKinds
  <2> QED  BY <2>2 DEF TokenInv
<1>5. pc'[p] # "clear"
  BY DEF LogsIn, Goto, TypeInv, FrameOK
<1>6. \/ clientToken' = token /\ got' = got
      \/ clientToken' = clientToken /\ got'[p] = token
  <2>1. CASE Legacy(p)
    BY <2>1 DEF LogsIn
  <2>2. CASE ~Legacy(p)
    BY <1>1, <2>2 DEF LogsIn
  <2> QED  BY <2>1, <2>2
<1> HIDE DEF token
<1>7. NoTokenLeak'
  <2>1. {got'[q] : q \in Procs} = {got'[p]}
    BY <1>0
  <2>2. Accounted' = Accounted
    BY <1>2 DEF Accounted
  <2> QED  BY <1>3, <1>6, <2>1, <2>2 DEF NoTokenLeak, Accounted
<1>8. TokenMethod => {clientToken', got'[p]} \subseteq {NoToken, UserToken}
  BY <1>1, <1>4, <1>6
<1> QED  BY <1>0, <1>5, <1>7, <1>8 DEF LeakInv, TokenMethod

\* The other steps leave no token behind: one that is forgotten has been revoked,
\* or was the user's.
LEMMA LeakStep ==
    ASSUME Alone, SameLogout, TypeInv, TokenInv, LeakInv, NEW p \in Procs, Step(p)
    PROVE  LeakInv'
<1> USE DEF TypeInv, FrameOK, DataOK, clientVars, serverVars, loginVars
<1>0. (\A q \in Procs : q = p) /\ {got[q] : q \in Procs} = {got[p]}
  BY DEF Alone
<1>1. ASSUME NEW l, Goto(p, l), l # "clear", UNCHANGED <<serverVars, clientToken, got>>
      PROVE  LeakInv'
  BY <1>1, QuietLeak DEF Goto
<1>2. ASSUME Unwind(p) \/ Succeed(p) \/ Fail(p) \/ NoSecret(p)
      PROVE  pc'[p] # "clear"
  BY <1>2, UnwindFrame, SucceedFrame, FailFrame, NoSecretFrame
<1>3. CASE GetMountInfo(p) \/ ReadMounts(p)
  BY <1>1, <1>3 DEF GetMountInfo, ReadMounts, AfterMount
<1>4. CASE Login(p) \/ TrySucceeds(p)
  BY <1>4, LoginLogsIn, LogsInLeak
<1>5. CASE LoginFails(p) \/ TryLost(p)
  <2>1. pc'[p] # "clear" /\ UNCHANGED <<clientToken, got>>
    BY <1>2, <1>5 DEF LoginFails, TryLost
  <2>2. CASE UNCHANGED serverVars
    BY <2>1, <2>2, QuietLeak
  <2>3. CASE ReplyLost
    <3>1. live' \ Accounted' \subseteq live \ Accounted
      BY <2>3 DEF ReplyLost, Issue, Accounted
    <3>2. NoTokenLeak'
      BY <2>1, <3>1 DEF LeakInv, NoTokenLeak, Accounted
    <3> QED  BY <1>0, <2>1, <3>2 DEF LeakInv, TokenMethod
  <2> QED  BY <1>5, <2>2, <2>3 DEF LoginFails, TryLost
<1>6. CASE LoginInTurn(p) \/ NoneLeft(p)
  BY <1>1, <1>2, <1>6, QuietLeak DEF LoginInTurn, NoneLeft
<1>7. CASE RereadToken(p)
  <2>1. pc'[p] = "setToken" /\ got'[p] = clientToken /\ got[p] = NoToken
        /\ UNCHANGED <<serverVars, clientToken>>
    BY <1>7 DEF RereadToken, Goto, TokenInv
  <2>2. {got'[q] : q \in Procs} = {clientToken}
    BY <1>0, <2>1
  <2>3. NoTokenLeak'
    BY <1>0, <2>1, <2>2 DEF LeakInv, NoTokenLeak
  <2> QED  BY <1>0, <2>1, <2>3 DEF LeakInv, TokenMethod
<1>8. CASE SetToken(p)
  <2>1. pc'[p] = "mounts" /\ clientToken' = got[p] /\ got'[p] = NoToken
        /\ clientToken \in {NoToken, got[p]} /\ UNCHANGED serverVars
    BY <1>8 DEF SetToken, Goto, TokenInv
  <2>2. NoTokenLeak'
    BY <1>0, <2>1 DEF LeakInv, NoTokenLeak
  <2> QED  BY <1>0, <2>1, <2>2 DEF LeakInv, TokenMethod
<1>9. CASE ReadSecret(p) \/ List(p) \/ RequestFails(p) \/ ReadDirReturns(p)
  BY <1>2, <1>9, QuietLeak DEF ReadSecret, List, RequestFails, ReadDirReturns
<1>10. ASSUME NEW f \in Files, OpenChild(p, f) PROVE LeakInv'
  BY <1>1, <1>10 DEF OpenChild
<1>11. CASE CloseLoad(p)
  BY <1>1, <1>2, <1>11, QuietLeak DEF CloseLoad
<1>12. CASE CloseStore(p) \/ CheckRef(p) \/ RemoveRef(p)
  BY <1>1, <1>12 DEF CloseStore, CheckRef, RemoveRef
<1>13. CASE CloseRefs(p)
  <2>0. UNCHANGED <<serverVars, clientToken, got>> /\ cur[p] \in Files
    BY <1>13 DEF CloseRefs, Busy
  <2>1. CASE ~LastReference
    BY <1>2, <1>13, <2>0, <2>1, QuietLeak DEF CloseRefs
  <2>2. CASE LastReference /\ LastClose(cur[p]) # "clear"
    BY <1>1, <1>13, <2>0, <2>2 DEF CloseRefs
  <2>3. CASE LastReference /\ LastClose(cur[p]) = "clear"
    <3>1. TokenMethod
      BY <2>0, <2>3 DEF SameLogout, LastClose, TokenMethod
    <3>2. clientToken \notin live \ Accounted
      BY <3>1 DEF LeakInv, Accounted
    <3>3. NoTokenLeak'
      BY <2>0 DEF LeakInv, NoTokenLeak
    <3> QED  BY <1>0, <2>0, <3>2, <3>3 DEF LeakInv, TokenMethod, Accounted
  <2> QED  BY <2>1, <2>2, <2>3
<1>14. CASE Logout(p)
  <2>1. cur[p] \in Files /\ LastClose(cur[p]) = "logout"
    BY <1>14 DEF Logout, Busy, TokenInv, Method, LastClose
  <2> QED  BY <2>1 DEF SameLogout
<1>15. CASE Revoke(p)
  <2>1. UNCHANGED <<clientToken, got>>
        /\ \/ live' = live \ {clientToken} /\ lost' = lost
           \/ live' = live /\ lost' = lost \cup {clientToken}
    BY <1>15 DEF Revoke
  <2>2. clientToken \notin live' \ Accounted'
    BY <2>1 DEF Accounted
  <2>3. NoTokenLeak'
    BY <2>1 DEF LeakInv, NoTokenLeak
  <2> QED  BY <2>1, <2>2, <2>3 DEF LeakInv, TokenMethod
<1>16. CASE ClearToken(p)
  <2>1. pc'[p] # "clear" /\ clientToken' = NoToken /\ UNCHANGED <<serverVars, got>>
        /\ clientToken \notin live \ Accounted
    BY <1>2, <1>16 DEF ClearToken, LeakInv
  <2>2. NoTokenLeak'
    BY <2>1 DEF LeakInv, NoTokenLeak, Accounted
  <2> QED  BY <1>0, <2>1, <2>2 DEF LeakInv, TokenMethod
<1> QED
  BY <1>3, <1>4, <1>5, <1>6, <1>7, <1>8, <1>9, <1>10, <1>11, <1>12, <1>13, <1>14,
     <1>15, <1>16 DEF Step

\* For one goroutine, and filesystems whose auth methods Close treats alike, no
\* token is left behind: what the server still accepts is the user's, the client's,
\* or lost by the network (vault.go:405, 643).
THEOREM NoTokenLeft ==
    ASSUME ~ConcurrentClose, Alone, SameLogout PROVE Spec => []NoTokenLeak
<1>1. Init => LeakInv
  BY TokenAssumption DEF Init, LeakInv, NoTokenLeak
<1>2. LeaseInv /\ LeakInv /\ [Next]_vars => LeakInv'
  <2> SUFFICES ASSUME LeaseInv, LeakInv, [Next]_vars PROVE LeakInv'
    OBVIOUS
  <2>1. TypeInv /\ TokenInv
    BY DEF LeaseInv, PanicInv, CountInv, HandleInv
  <2>2. CASE UNCHANGED vars
    BY <2>2 DEF vars, clientVars, loginVars, serverVars, LeakInv, NoTokenLeak,
                Accounted, TokenMethod
  <2> QED  BY <2>1, <2>2, LeakCaller, LeakStep DEF Next
<1>3. LeakInv => NoTokenLeak
  BY DEF LeakInv
<1> QED  BY <1>1, <1>2, <1>3, LeaseInit, LeaseNext, PTL DEF Spec
=============================================================================
