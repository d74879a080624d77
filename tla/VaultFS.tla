------------------------------- MODULE VaultFS -------------------------------
(***************************************************************************)
(* vaultfs: the handles (vaultFile) that one vaultFS and the filesystems   *)
(* derived from it with WithAuthMethod have opened, the refCountedClient   *)
(* they all share, and the tokens the Vault server has issued.             *)
(*                                                                         *)
(* A goroutine runs one method of one handle at a time.  A step is one     *)
(* atomic operation on the shared client (its reference count, its token)  *)
(* or one round trip to the server, so that everything another goroutine   *)
(* can do in between is a behaviour of the model.  ReadDir and ReadFile    *)
(* open handles of their own and close them with defer: these come from    *)
(* Inner and no caller ever sees them.                                     *)
(***************************************************************************)
EXTENDS Naturals, Sequences, FiniteSets

CONSTANTS
    Procs,        \* goroutines
    Files,        \* handles, each opened at most once
    Inner,        \* the handles ReadDir and ReadFile open for themselves
    NoFile,       \* a nil *vaultFile
    AuthOf,       \* the auth method of the filesystem a handle comes from
    Chains,       \* the auth methods that try others in turn: vaultauth's
                  \* CompositeAuthMethod and EnvAuthMethod, and the deprecated
                  \* EnvAuthMethod; each is one object with a method it chose
    Composites,   \* those of vaultauth, which have a Logout
    InitTokens,   \* what api.NewClient may find in $VAULT_TOKEN
    MaxToken,     \* bound: the last token the server can issue
    RefModulus,   \* 2^64 in the code: the range of refCountedClient.refs
    ConcurrentClose \* may a handle be closed while another goroutine uses it?

NoToken   == 0    \* the empty string
UserToken == 1    \* the token the user gave; logins issue 2..MaxToken

\* The auth methods without a state of their own.
AuthKinds == {"token",        \* vaultauth.NewTokenAuth: has a Logout
              "login",        \* an api.AuthMethod that logs in, no Logout
              "legacyToken",  \* wrappedAuth around TokenAuthMethod
              "legacyLogin"}  \* wrappedAuth around AppRole, GitHub, UserPass

ASSUME FilesAssumption ==
    /\ IsFiniteSet(Files)
    /\ Inner \subseteq Files
    /\ NoFile \notin Files
    /\ Composites \subseteq Chains /\ Chains \cap AuthKinds = {}
    /\ AuthOf \in [Files -> AuthKinds \cup Chains]

ASSUME RefModulusAssumption ==
    RefModulus \in Nat /\ Cardinality(Files) < RefModulus

ASSUME TokenAssumption ==
    /\ InitTokens \subseteq {NoToken, UserToken}
    /\ MaxToken \in Nat /\ MaxToken >= UserToken
    /\ ConcurrentClose \in BOOLEAN

VARIABLES
    refs,         \* refCountedClient.refs
    clientToken,  \* the api.Client's token
    live,         \* server: tokens issued and neither revoked nor expired
    issued,       \* server: the last token issued
    lost,         \* tokens whose login reply or revocation the network lost
    chosen,       \* for each of Chains, the kind of method that logged in
    unclaimed,    \* history: the token that the last Logout without a chosen
                  \* method left in the client
    opened,       \* handles that exist
    closed,       \* handles whose closed flag is 1
    mounted,      \* handles with a cached mountInfo
    read,         \* handles with a cached body
    listed,       \* handles with cached children
    pc,           \* goroutine: the step it takes next
    op,           \* goroutine: the method it runs
    cur,          \* goroutine: the handle whose method it runs
    dir,          \* goroutine: the directory whose ReadDir it is in, if any
    deferred,     \* goroutine: the handles its deferred Closes will close
    got           \* goroutine: the token in the api.Secret Login returned

clientVars == <<refs, clientToken>>
serverVars == <<live, issued, lost>>
methodVars == <<chosen, unclaimed>>
loginVars  == <<serverVars, methodVars>>
handleVars == <<opened, closed, mounted, read, listed>>
frameVars  == <<op, cur, dir, deferred>>
vars == <<clientVars, loginVars, handleVars, pc, frameVars, got>>

Tokens == NoToken..MaxToken

ClosePhase == {"load", "store", "remove", "dec", "refs", "logout", "revoke", "clear"}

Labels == {"idle", "panic", "mount", "login", "try", "reread", "setToken",
           "mounts", "request", "list", "children"} \cup ClosePhase

TypeOK ==
    /\ refs \in 0..(RefModulus - 1)
    /\ clientToken \in Tokens
    /\ live \subseteq Tokens \ {NoToken}
    /\ issued \in UserToken..MaxToken
    /\ lost \subseteq Tokens
    /\ chosen \in [Chains -> {"none", "token", "login"}]
    /\ unclaimed \in Tokens
    /\ opened \subseteq Files
    /\ closed \subseteq opened
    /\ mounted \subseteq opened
    /\ read \subseteq opened
    /\ listed \subseteq opened
    /\ pc \in [Procs -> Labels]
    /\ op \in [Procs -> {"none", "read", "stat", "statdir", "readdir", "close"}]
    /\ cur \in [Procs -> opened \cup {NoFile}]
    /\ dir \in [Procs -> opened \cup {NoFile}]
    /\ deferred \in [Procs -> Seq(opened)]
    /\ got \in [Procs -> Tokens]

Init ==
    /\ refs = 0
    /\ clientToken \in InitTokens
    /\ live = {UserToken}
    /\ issued = UserToken
    /\ lost = {}
    /\ chosen = [m \in Chains |-> "none"]
    /\ unclaimed = NoToken
    /\ opened = {} /\ closed = {}
    /\ mounted = {} /\ read = {} /\ listed = {}
    /\ pc = [p \in Procs |-> "idle"]
    /\ op = [p \in Procs |-> "none"]
    /\ cur = [p \in Procs |-> NoFile]
    /\ dir = [p \in Procs |-> NoFile]
    /\ deferred = [p \in Procs |-> <<>>]
    /\ got = [p \in Procs |-> NoToken]

-----------------------------------------------------------------------------
(* refCountedClient *)

\* Mutant of Increment: childFile counts the handle that newVaultFile counted.
CountTwice(n) == n + 2

\* refs.Add(1)
Increment(n) == IF n = RefModulus - 1 THEN 0 ELSE n + 1

\* refs.Add(^uint64(0))
Decrement(n) == IF n = 0 THEN RefModulus - 1 ELSE n - 1

AddRef == refs' = Increment(refs)

-----------------------------------------------------------------------------
(* Frames: what a goroutine is in the middle of *)

Frame(p) == {cur[p], dir[p]} \cup {deferred[p][i] : i \in DOMAIN deferred[p]}

\* No goroutine is in the middle of a method of f.
Unused(f) == \A q \in Procs : f \notin Frame(q)

Goto(p, label) == pc' = [pc EXCEPT ![p] = label]

\* Goroutine p, idle, calls a method of f.
Call(p, f, method, label) ==
    /\ pc[p] = "idle"
    /\ Goto(p, label)
    /\ op' = [op EXCEPT ![p] = method]
    /\ cur' = [cur EXCEPT ![p] = f]

\* The method returns: the deferred Closes run, the last one first, and then
\* the goroutine is back with its caller.
Unwind(p) ==
    LET pending == deferred[p] IN
    /\ dir' = [dir EXCEPT ![p] = NoFile]
    /\ IF pending = <<>>
       THEN /\ Goto(p, "idle")
            /\ op' = [op EXCEPT ![p] = "none"]
            /\ cur' = [cur EXCEPT ![p] = NoFile]
            /\ UNCHANGED deferred
       ELSE /\ Goto(p, "load")
            /\ op' = [op EXCEPT ![p] = "close"]
            /\ cur' = [cur EXCEPT ![p] = Head(pending)]
            /\ deferred' = [deferred EXCEPT ![p] = Tail(pending)]

\* The request of cur[p] succeeds.  The Stat of a child goes on with the loop
\* of the ReadDir that called it.
Succeed(p) ==
    IF dir[p] = NoFile
    THEN Unwind(p)
    ELSE /\ Goto(p, "children")
         /\ op' = [op EXCEPT ![p] = "readdir"]
         /\ cur' = [cur EXCEPT ![p] = dir[p]]
         /\ UNCHANGED <<dir, deferred>>

\* The request of cur[p] fails, and with it the ReadDir it may be a part of;
\* but for Stat, what cannot be read may be a directory: it tries a LIST.
Fail(p) ==
    \/ Unwind(p)
    \/ /\ op[p] = "stat"
       /\ op' = [op EXCEPT ![p] = "statdir"]
       /\ Goto(p, "mount")
       /\ UNCHANGED <<cur, dir, deferred>>

-----------------------------------------------------------------------------
(* vaultFS.Open, ReadFile and the methods of a handle *)

\* Mutant of NewFile: a handle that takes no reference.
NewFileUncounted(f) ==
    /\ f \notin opened
    /\ UNCHANGED refs
    /\ opened' = opened \cup {f}

\* newVaultFile
NewFile(f) ==
    /\ f \notin opened
    /\ AddRef
    /\ opened' = opened \cup {f}

Open(p, f) ==
    /\ pc[p] = "idle" /\ f \notin Inner
    /\ NewFile(f)
    /\ UNCHANGED <<clientToken, loginVars, closed, mounted, read, listed, pc,
                   frameVars, got>>

\* ReadFile opens a handle, defers its Close and reads it.
ReadFile(p, f) ==
    /\ f \in Inner
    /\ NewFile(f)
    /\ Call(p, f, "read", "mount")
    /\ deferred' = [deferred EXCEPT ![p] = <<f>>]
    /\ UNCHANGED <<clientToken, loginVars, closed, mounted, read, listed, dir,
                   got>>

\* A handle its caller holds and may use: neither closed nor in use.
Usable(f) == f \in opened \ closed /\ f \notin Inner /\ Unused(f)

\* Read: a cached body needs no request.
CallRead(p, f) ==
    /\ Usable(f) /\ f \notin read
    /\ Call(p, f, "read", "mount")
    /\ UNCHANGED <<clientVars, loginVars, handleVars, dir, deferred, got>>

CallStat(p, f) ==
    /\ Usable(f)
    /\ Call(p, f, "stat", "mount")
    /\ UNCHANGED <<clientVars, loginVars, handleVars, dir, deferred, got>>

\* ReadDir: cached children need no LIST.
CallReadDir(p, f) ==
    /\ Usable(f)
    /\ Call(p, f, "readdir", IF f \in listed THEN "children" ELSE "mount")
    /\ dir' = [dir EXCEPT ![p] = f]
    /\ UNCHANGED <<clientVars, loginVars, handleVars, deferred, got>>

CallClose(p, f) ==
    /\ f \in opened \ Inner
    /\ ConcurrentClose \/ Unused(f)
    /\ Call(p, f, "close", "load")
    /\ UNCHANGED <<clientVars, loginVars, handleVars, dir, deferred, got>>

-----------------------------------------------------------------------------
(* getMountInfo *)

\* Mutant of NeedsLogin: every handle logs in for itself.
AlwaysLogin == TRUE

NeedsLogin == clientToken = NoToken

\* The label after getMountInfo.
AfterMount(p) == IF op[p] \in {"readdir", "statdir"} THEN "list" ELSE "request"

GetMountInfo(p) ==
    /\ pc[p] = "mount"
    /\ Goto(p, IF cur[p] \in mounted THEN AfterMount(p)
               ELSE IF NeedsLogin THEN "login" ELSE "mounts")
    /\ UNCHANGED <<clientVars, loginVars, handleVars, frameVars, got>>

\* The server answers a login with a token of its own.
Issue == /\ issued < MaxToken
         /\ issued' = issued + 1
         /\ live' = live \cup {issued + 1}

Method(p)  == AuthOf[cur[p]]
Chained(p) == Method(p) \in Chains
Remote(p)  == Method(p) \in {"login", "legacyLogin"}
Legacy(p)  == Method(p) \in {"legacyToken", "legacyLogin"} \cup (Chains \ Composites)

\* A method logs in, at the server or with the user's token.  A legacy one puts
\* the token into the client, where wrappedAuth reads it in a step of its own.
LogsIn(p, remote) ==
    /\ IF remote THEN Issue ELSE UNCHANGED <<live, issued>>
    /\ LET token == IF remote THEN issued + 1 ELSE UserToken IN
       IF Legacy(p)
       THEN /\ Goto(p, "reread")
            /\ clientToken' = token
            /\ UNCHANGED got
       ELSE /\ Goto(p, "setToken")
            /\ got' = [got EXCEPT ![p] = token]
            /\ UNCHANGED clientToken
    /\ UNCHANGED <<refs, lost, unclaimed, handleVars, frameVars>>

\* auth.Login succeeds.
Login(p) ==
    /\ pc[p] = "login" /\ ~Chained(p)
    /\ LogsIn(p, Remote(p))
    /\ UNCHANGED chosen

\* The server issues a token, but its reply is lost.
ReplyLost == Issue /\ lost' = lost \cup {issued + 1}

\* auth.Login fails: refused, nothing configured, or the reply is lost.
LoginFails(p) ==
    /\ pc[p] = "login" /\ ~Chained(p)
    /\ \/ UNCHANGED serverVars
       \/ Remote(p) /\ ReplyLost
    /\ Fail(p)
    /\ UNCHANGED <<clientVars, methodVars, handleVars, got>>

\* Login of a chain has no method of its own to answer with, but one is chosen:
\* nobody logs in.  wrappedAuth makes a secret of the token that the client has;
\* the composite's is nil, which getMountInfo dereferences: the panic runs the
\* deferred Closes, and the model goes on with a caller who recovers from it.
NoSecret(p) ==
    IF Legacy(p) THEN Goto(p, "reread") /\ UNCHANGED frameVars ELSE Unwind(p)

\* Login of a chain: with a method chosen there is nothing to try.
LoginInTurn(p) ==
    /\ pc[p] = "login" /\ Chained(p)
    /\ IF chosen[Method(p)] = "none"
       THEN Goto(p, "try") /\ UNCHANGED frameVars
       ELSE NoSecret(p)
    /\ UNCHANGED <<clientVars, loginVars, handleVars, got>>

\* A method that is tried logs in, and is chosen.
TrySucceeds(p) ==
    /\ pc[p] = "try"
    /\ \E kind \in {"token", "login"} :
          /\ chosen' = [chosen EXCEPT ![Method(p)] = kind]
          /\ LogsIn(p, kind = "login")

\* One that is tried fails because the reply is lost; the next is tried.
TryLost(p) ==
    /\ pc[p] = "try" /\ ReplyLost
    /\ UNCHANGED <<clientVars, methodVars, handleVars, pc, frameVars, got>>

\* None is left to try; another goroutine may have chosen one in the meantime.
NoneLeft(p) ==
    /\ pc[p] = "try"
    /\ IF chosen[Method(p)] = "none" THEN Fail(p) ELSE NoSecret(p)
    /\ UNCHANGED <<clientVars, loginVars, handleVars, got>>

\* wrappedAuth.Login: client.Token()
RereadToken(p) ==
    /\ pc[p] = "reread"
    /\ got' = [got EXCEPT ![p] = clientToken]
    /\ Goto(p, "setToken")
    /\ UNCHANGED <<clientVars, loginVars, handleVars, frameVars>>

SetToken(p) ==
    /\ pc[p] = "setToken"
    /\ clientToken' = got[p]
    /\ got' = [got EXCEPT ![p] = NoToken]
    /\ Goto(p, "mounts")
    /\ UNCHANGED <<refs, loginVars, handleVars, frameVars>>

\* The server serves a request only if the token that comes with it is live.
Served == clientToken \in live

ReadMounts(p) ==
    /\ pc[p] = "mounts" /\ Served
    /\ mounted' = mounted \cup {cur[p]}
    /\ Goto(p, AfterMount(p))
    /\ UNCHANGED <<clientVars, loginVars, opened, closed, read, listed,
                   frameVars, got>>

-----------------------------------------------------------------------------
(* request and list *)

ReadSecret(p) ==
    /\ pc[p] = "request" /\ Served
    /\ read' = IF op[p] = "read" THEN read \cup {cur[p]} ELSE read
    /\ Succeed(p)
    /\ UNCHANGED <<clientVars, loginVars, opened, closed, mounted, listed, got>>

List(p) ==
    /\ pc[p] = "list" /\ Served
    /\ listed' = IF op[p] = "readdir" THEN listed \cup {cur[p]} ELSE listed
    /\ Succeed(p)
    /\ UNCHANGED <<clientVars, loginVars, opened, closed, mounted, read, got>>

\* Any request may fail, whatever its token.
RequestFails(p) ==
    /\ pc[p] \in {"mounts", "request", "list"}
    /\ Fail(p)
    /\ UNCHANGED <<clientVars, loginVars, handleVars, got>>

\* ReadDir: one more child that is a secret.
OpenChild(p, f) ==
    /\ pc[p] = "children" /\ f \in Inner
    /\ NewFile(f)
    /\ deferred' = [deferred EXCEPT ![p] = <<f>> \o @]
    /\ cur' = [cur EXCEPT ![p] = f]
    /\ op' = [op EXCEPT ![p] = "stat"]
    /\ Goto(p, "mount")
    /\ UNCHANGED <<clientToken, loginVars, closed, mounted, read, listed, dir,
                   got>>

\* ReadDir has its entries, or there are no more.
ReadDirReturns(p) ==
    /\ pc[p] = "children"
    /\ Unwind(p)
    /\ UNCHANGED <<clientVars, loginVars, handleVars, got>>

-----------------------------------------------------------------------------
(* Close *)

\* Mutant of CloseLoad: no check of the closed flag.
CloseUnchecked(p) ==
    /\ pc[p] = "load"
    /\ Goto(p, "store")
    /\ UNCHANGED <<clientVars, loginVars, handleVars, frameVars, got>>

CloseLoad(p) ==
    /\ pc[p] = "load"
    /\ IF cur[p] \in closed
       THEN Unwind(p)                        \* fs.ErrClosed
       ELSE Goto(p, "store") /\ UNCHANGED frameVars
    /\ UNCHANGED <<clientVars, loginVars, handleVars, got>>

CloseStore(p) ==
    /\ pc[p] = "store"
    /\ closed' = closed \cup {cur[p]}
    /\ Goto(p, "remove")
    /\ UNCHANGED <<clientVars, loginVars, opened, mounted, read, listed,
                   frameVars, got>>

\* RemoveRef panics rather than take the count below zero.
CheckRef(p) ==
    /\ pc[p] = "remove"
    /\ Goto(p, IF refs = 0 THEN "panic" ELSE "dec")
    /\ UNCHANGED <<clientVars, loginVars, handleVars, frameVars, got>>

RemoveRef(p) ==
    /\ pc[p] = "dec"
    /\ refs' = Decrement(refs)
    /\ Goto(p, "refs")
    /\ UNCHANGED <<clientToken, loginVars, handleVars, frameVars, got>>

\* Mutant of LastReference: the count as it was before RemoveRef.
LastReferenceBefore == refs = 1

LastReference == refs = 0

\* What the last Close does.  Two kinds of method are authLogouters: a chain of
\* vaultauth has a Logout to run, and that of the token method only clears the
\* client's token.  wrappedAuth hides the Logout of a legacy method, and its
\* token is revoked like any other.
LastClose(f) ==
    IF AuthOf[f] \in Composites THEN "logout"
    ELSE IF AuthOf[f] = "token" THEN "clear"
    ELSE "revoke"

CloseRefs(p) ==
    /\ pc[p] = "refs"
    /\ IF LastReference
       THEN Goto(p, LastClose(cur[p])) /\ UNCHANGED frameVars
       ELSE Unwind(p)
    /\ UNCHANGED <<clientVars, loginVars, handleVars, got>>

\* compositeAuthMethod.Logout does what its chosen method asks for, and nothing
\* if it has chosen none: no handle of it has logged in, and whatever token the
\* client has stays there.
Logout(p) ==
    /\ pc[p] = "logout"
    /\ \/ /\ chosen[Method(p)] = "none"
          /\ unclaimed' = clientToken
          /\ Unwind(p)
       \/ /\ chosen[Method(p)] # "none"
          /\ Goto(p, IF chosen[Method(p)] = "token" THEN "clear" ELSE "revoke")
          /\ UNCHANGED <<unclaimed, frameVars>>
    /\ UNCHANGED <<clientVars, serverVars, chosen, handleVars, got>>

\* revokeToken: revoke-self, whose error is ignored ...
Revoke(p) ==
    /\ pc[p] = "revoke"
    /\ \/ live' = live \ {clientToken} /\ UNCHANGED lost
       \/ lost' = lost \cup {clientToken} /\ UNCHANGED live
    /\ Goto(p, "clear")
    /\ UNCHANGED <<clientVars, issued, methodVars, handleVars, frameVars, got>>

\* Mutant of ClearToken: the client keeps the token it has revoked.
LogoutWithoutClear(p) ==
    /\ pc[p] = "clear"
    /\ Unwind(p)
    /\ UNCHANGED <<clientVars, loginVars, handleVars, got>>

\* ... and ClearToken, which is all that the token method's Logout does.
ClearToken(p) ==
    /\ pc[p] = "clear"
    /\ clientToken' = NoToken
    /\ Unwind(p)
    /\ UNCHANGED <<refs, loginVars, handleVars, got>>

-----------------------------------------------------------------------------
Caller(p) == \E f \in Files :
    \/ Open(p, f) \/ ReadFile(p, f) \/ CallClose(p, f)
    \/ CallRead(p, f) \/ CallStat(p, f) \/ CallReadDir(p, f)

\* What a goroutine does by itself once it is inside a method.
Step(p) ==
    \/ GetMountInfo(p) \/ Login(p) \/ LoginFails(p)
    \/ LoginInTurn(p) \/ TrySucceeds(p) \/ TryLost(p) \/ NoneLeft(p)
    \/ RereadToken(p) \/ SetToken(p) \/ ReadMounts(p)
    \/ ReadSecret(p) \/ List(p) \/ RequestFails(p)
    \/ (\E f \in Files : OpenChild(p, f)) \/ ReadDirReturns(p)
    \/ CloseLoad(p) \/ CloseStore(p) \/ CheckRef(p) \/ RemoveRef(p)
    \/ CloseRefs(p) \/ Logout(p) \/ Revoke(p) \/ ClearToken(p)

Next == \E p \in Procs : Caller(p) \/ Step(p)

\* A goroutine inside a method keeps running, and a round trip to the server
\* ends with a reply or an error: the API client's requests time out.
Fairness == \A p \in Procs : WF_vars(Step(p))

Spec == Init /\ [][Next]_vars /\ Fairness

-----------------------------------------------------------------------------
(* Properties *)

\* Handles that a caller, or a ReadDir or ReadFile, may still use.
OpenFiles == opened \ closed

\* The handles whose reference the count includes: the open ones, and those
\* whose Close has set the flag but not yet reached the decrement.
Holding == OpenFiles \cup {cur[p] : p \in {q \in Procs : pc[q] \in {"remove", "dec"}}}

\* Those that have yet to do with the client's token.
Holders == OpenFiles \cup {cur[p] : p \in {q \in Procs :
                 pc[q] \in {"remove", "dec", "refs", "logout", "revoke", "clear"}}}

\* The reference count is the number of handles that hold a reference, however
\* the Opens, the Closes and the children of ReadDir interleave.
RefsExact == refs = Cardinality(Holding)

\* RemoveRef never finds the count at zero (the panic of client.go:35).
NeverPanics == \A p \in Procs : pc[p] # "panic"

\* With a token in the client there is a handle whose Close will give it up, or
\* a Close on its way to do so: the token never outlives the handles.  Not so the
\* one that a Logout without a chosen method has left there.
TokenHasOwner ==
    (clientToken # NoToken /\ opened # {}) =>
        \/ Holding # {}
        \/ \E p \in Procs : pc[p] \in {"refs", "logout", "revoke", "clear"}
        \/ clientToken = unclaimed

\* "Decrements the ref count on first call and logs out of vault when the ref
\* count reaches zero" (vault.go:390): with no handle left the client has no
\* token.  A Logout without a chosen method is the exception to TokenHasOwner.
LogsOutAtZero ==
    (opened # {} /\ Holders = {}) => clientToken = NoToken

\* A token the server has issued and still accepts is the client's, or the one
\* a Login is about to give it, unless the network lost its reply or its
\* revocation: no token is left behind for the server to expire.
NoTokenLeak ==
    live \ ({UserToken} \cup lost) \subseteq
        {clientToken} \cup {got[p] : p \in Procs}

\* "When using this method, the token is not managed by vaultfs, and will not be
\* revoked when files are closed" (vaultauth/token.go:17): nor when the files of a
\* filesystem are closed that shares the client and has another method.
TokenUnmanaged == UserToken \in live

\* Once every handle is closed the client gives its token up, if nobody opens
\* another one and no Logout without a chosen method has left it there.
TokenGivenUp ==
    (opened # {} /\ OpenFiles = {}) ~>
        (clientToken \in {NoToken, unclaimed} \/ OpenFiles # {})

\* The client's token as a lease: see VaultLease.
Lease == INSTANCE VaultLease WITH holders <- Holders, token <- clientToken

LeaseSpec == Lease!Spec
=============================================================================
