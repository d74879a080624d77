-------------------------------- MODULE GitFS --------------------------------
(***************************************************************************)
(* gitfs: the repository is cloned by the first Open or ReadDir, and kept. *)
(* Nothing keeps two goroutines from cloning it at the same time, and a    *)
(* filesystem derived from another starts with the clone that one has.     *)
(* The remote may change its branches between any two of the requests of a *)
(* clone.                                                                  *)
(***************************************************************************)
EXTENDS Integers, Sequences, FiniteSets

CONSTANTS
    Procs,          \* goroutines
    Branches,       \* the branches of the remote
    MaxCommit,      \* bound on the commits
    Authenticators, \* those that filesystems are configured with
    NoClone,        \* f.repofs is nil
    HEAD            \* the empty reference: whatever HEAD is for the remote

\* "none" is for a filesystem that there is not, yet.
ASSUME GitAssumption == "none" \notin Authenticators

VARIABLES
    serial,   \* one goroutine at a time uses the filesystems
    scheme,   \* of the URL, less "git+"
    creds,    \* what the URL and the environment provide
    wanted,   \* the branch in the URL's fragment, or HEAD
    bare,     \* a repository on disk is found at its path, not below it
    default, tip, commit,  \* the remote
    auth,     \* f.auth of each filesystem; "none": not derived yet
    repofs,   \* f.repofs: the branch and the commit of its clone
    frame     \* each goroutine's call of clone, or Idle

given  == <<serial, scheme, creds, wanted, bare>>
remote == <<default, tip, commit>>
vars   == <<given, remote, auth, repofs, frame>>

Filesystems == {"made", "derived"}

Schemes == {"git", "file", "http", "ssh"}

\* "user" stands for a user or a password, of the URL or the authenticator; the
\* others for GIT_HTTP_PASSWORD, GIT_HTTP_TOKEN, a GIT_SSH_KEY that can be read,
\* and an agent at SSH_AUTH_SOCK.
Credentials(s) ==
    CASE s = "http" -> {"user", "password", "token"}
      [] s = "ssh"  -> {"key", "agent"}
      [] OTHER      -> {}

Snapshot == [branch : Branches, commit : 1..MaxCommit]

Frame ==
    [pc       : {"idle", "auth", "discover", "clone", "store"},
     fs       : Filesystems,
     dotGit   : BOOLEAN,            \* it tries the subdirectory .git
     method   : {"error", "nil", "basic", "token", "key", "agent"},
     ref      : Branches \cup {HEAD},
     clone    : Snapshot \cup {NoClone},
     defaults : SUBSET Branches]    \* history: the default branches meanwhile

Call(f) ==
    [pc |-> "auth", fs |-> f, dotGit |-> FALSE, method |-> "nil", ref |-> HEAD,
     clone |-> NoClone, defaults |-> {default}]

Idle == [Call("made") EXCEPT !.pc = "idle", !.defaults = {}]

TypeOK ==
    /\ scheme \in Schemes /\ creds \subseteq Credentials(scheme)
    /\ default \in Branches
    /\ tip \in [Branches -> 1..commit] /\ commit \in 1..MaxCommit
    /\ auth \in [Filesystems -> Authenticators \cup {"none"}]
    /\ repofs \in [Filesystems -> Snapshot \cup {NoClone}]
    /\ frame \in [Procs -> Frame]
    /\ \A p \in Procs : frame[p].pc = "store" => frame[p].clone # NoClone

Init ==
    /\ serial \in BOOLEAN
    /\ scheme \in Schemes /\ creds \in SUBSET Credentials(scheme)
    /\ wanted \in Branches \cup {HEAD}
    /\ bare \in BOOLEAN /\ (scheme # "file" => bare)
    /\ default \in Branches
    /\ tip = [b \in Branches |-> 1] /\ commit = 1
    /\ auth \in {[f \in Filesystems |-> IF f = "made" THEN a ELSE "none"] :
                    a \in Authenticators}
    /\ repofs = [f \in Filesystems |-> NoClone]
    /\ frame = [p \in Procs |-> Idle]

-----------------------------------------------------------------------------
(* The authenticators *)

\* What each makes of the URL; "nil" is no authentication, without an error.
One(a) ==
    CASE a = "basic" -> IF scheme # "http" THEN "error"
                        ELSE IF creds \cap {"user", "password"} # {} THEN "basic"
                        ELSE "nil"
      [] a = "token" -> IF "token" \in creds THEN "token" ELSE "error"
      [] a = "key"   -> IF "key" \in creds THEN "key" ELSE "error"
      [] a = "agent" -> IF "agent" \in creds THEN "agent" ELSE "error"
      [] a = "noop"  -> IF scheme = "ssh" THEN "error" ELSE "nil"

\* The authenticators that AutoAuthenticator tries.
Chain == <<"basic", "token", "key", "agent", "noop">>

\* AutoAuthenticator takes the first that does not return an error.
AutoAuthenticator ==
    LET accepts == {i \in 1..Len(Chain) : One(Chain[i]) # "error"} IN
    IF accepts = {} THEN "error"
    ELSE One(Chain[CHOOSE i \in accepts : \A j \in accepts : i <= j])

Authenticate(a) == IF a = "auto" THEN AutoAuthenticator ELSE One(a)

-----------------------------------------------------------------------------
(* Goroutines *)

At(p, label) == frame[p].pc = label

SetFrame(p, new) == frame' = [frame EXCEPT ![p] = new]

\* Mutant of NeedsClone: every Open clones.
NeedsCloneAlways(f) == TRUE

NeedsClone(f) == repofs[f] = NoClone

\* Open, ReadDir: with a clone they read it.
ReadClone(p, f) ==
    /\ At(p, "idle") /\ auth[f] # "none" /\ ~NeedsClone(f)
    /\ UNCHANGED vars

\* Without one they call clone.
Open(p, f) ==
    /\ At(p, "idle") /\ auth[f] # "none" /\ NeedsClone(f)
    /\ serial => \A q \in Procs : At(q, "idle")
    /\ SetFrame(p, Call(f))
    /\ UNCHANGED <<given, remote, auth, repofs>>

\* gitClone: the method, and the branch if the URL has one.
StartClone(p) ==
    /\ At(p, "auth")
    /\ LET m == Authenticate(auth[frame[p].fs]) IN
       SetFrame(p, IF m = "error" THEN Idle
                   ELSE [frame[p] EXCEPT
                           !.pc = IF wanted = HEAD THEN "discover" ELSE "clone",
                           !.method = m, !.ref = wanted])
    /\ UNCHANGED <<given, remote, auth, repofs>>

\* refFromRemoteHead: a session of its own; its errors are ignored.
Discover(p) ==
    /\ At(p, "discover")
    /\ \E ref \in {default, HEAD} :
          SetFrame(p, [frame[p] EXCEPT !.pc = "clone", !.ref = ref])
    /\ UNCHANGED <<given, remote, auth, repofs>>

\* Mutant of Target: a default branch that go-git makes up.
TargetMaster(ref) == IF ref = HEAD THEN CHOOSE b \in Branches : TRUE ELSE ref

\* The branch that a reference is for.
Target(ref) == IF ref = HEAD THEN default ELSE ref

\* Is the repository at the path that is tried?
Found(p) == bare \/ frame[p].dotGit

\* The clone has the branch as it is now.
Clone(p) ==
    LET branch == Target(frame[p].ref) IN
    /\ At(p, "clone") /\ Found(p)
    /\ SetFrame(p, [frame[p] EXCEPT
                      !.pc = "store",
                      !.clone = [branch |-> branch, commit |-> tip[branch]]])
    /\ UNCHANGED <<given, remote, auth, repofs>>

\* "maybe this has a `.git` subdirectory..."
TryDotGit(p) ==
    /\ At(p, "clone") /\ ~Found(p)
    /\ SetFrame(p, [frame[p] EXCEPT !.pc = "auth", !.dotGit = TRUE])
    /\ UNCHANGED <<given, remote, auth, repofs>>

\* The branch is gone, the remote refuses, the network fails.
CloneFails(p) ==
    /\ At(p, "clone") /\ Found(p)
    /\ SetFrame(p, Idle)
    /\ UNCHANGED <<given, remote, auth, repofs>>

\* f.repofs = ..., whatever it has become since it was found to be nil.
Store(p) ==
    /\ At(p, "store")
    /\ repofs' = [repofs EXCEPT ![frame[p].fs] = frame[p].clone]
    /\ SetFrame(p, Idle)
    /\ UNCHANGED <<given, remote, auth>>

\* WithAuthenticator, WithContext: a copy, with the clone if there is one.
Derive(a) ==
    /\ auth["derived"] = "none"
    /\ serial => \A p \in Procs : At(p, "idle")
    /\ auth' = [auth EXCEPT !["derived"] = a]
    /\ repofs' = [repofs EXCEPT !["derived"] = repofs["made"]]
    /\ UNCHANGED <<given, remote, frame>>

-----------------------------------------------------------------------------
(* The remote *)

Push(b) ==
    /\ commit < MaxCommit
    /\ commit' = commit + 1
    /\ tip' = [tip EXCEPT ![b] = commit']
    /\ UNCHANGED <<given, default, auth, repofs, frame>>

SetDefault(b) ==
    /\ b # default
    /\ default' = b
    /\ frame' = [p \in Procs |->
                   IF At(p, "idle") THEN Idle
                   ELSE [frame[p] EXCEPT !.defaults = @ \cup {b}]]
    /\ UNCHANGED <<given, tip, commit, auth, repofs>>

Step(p) ==
    \/ StartClone(p) \/ Discover(p) \/ Clone(p) \/ TryDotGit(p)
    \/ CloneFails(p) \/ Store(p)

Next ==
    \/ \E p \in Procs : Step(p) \/ \E f \in Filesystems : Open(p, f) \/ ReadClone(p, f)
    \/ \E a \in Authenticators : Derive(a)
    \/ \E b \in Branches : Push(b) \/ SetDefault(b)

Spec == Init /\ [][Next]_vars

-----------------------------------------------------------------------------
(* Properties *)

\* "When not specified, the repository's default branch will be chosen"
\* (gitfs/doc.go:39): a branch that was the default while the clone was made,
\* also if the default changes between the requests or cannot be asked for.
DefaultBranchChosen ==
    \A p \in Procs :
        (At(p, "store") /\ wanted = HEAD) =>
            frame[p].clone.branch \in frame[p].defaults

\* All that one goroutine reads from a filesystem is of one commit, whatever the
\* remote does (gitfs/git.go:112); two that open it first may read of two.
ClonedOnce ==
    [][serial => \A f \in Filesystems :
           repofs[f] # NoClone => repofs'[f] = repofs[f]]_vars
=============================================================================
