------------------------------- MODULE GcpCache -------------------------------
(***************************************************************************)
(* gcpsmfs: handles of one secret and the cache that the handles of one    *)
(* filesystem share.  A handle loads its content and its modification time *)
(* with one request each; Stat runs both at once.  The secret may be       *)
(* rotated at any time: what the server answers is the version that is the *)
(* latest when it serves the request.                                      *)
(***************************************************************************)
EXTENDS Naturals, FiniteSets, ObjectVersions

CONSTANT Handles   \* handles, each opened once and used by one goroutine

ASSUME CacheAssumption == IsFiniteSet(Handles)

Parts == {"content", "modTime"}

VARIABLES
    cacheOn,  \* the handles of a filesystem with the cache enabled
    serial,   \* does one goroutine use all of them?
    version,   \* the latest version of the secret
    since,     \* the version that was the latest when a handle was opened
    op,        \* what each handle's goroutine is in: "none", "read" or "stat"
    pc,        \* where it is with each part
    answer,    \* the version in the server's answer
    loaded,    \* the handle's f.content and f.modTime: of which version
    cache,     \* the shared content and modTime maps' entries
    served     \* how many requests for each part the server has answered

setup == <<cacheOn, serial>>
vars == <<setup, version, since, op, pc, answer, loaded, cache, served>>

TypeOK ==
    /\ cacheOn \subseteq Handles /\ serial \in BOOLEAN
    /\ version \in Versions
    /\ since \in [Handles -> {Nil} \cup Versions]
    /\ op \in [Handles -> {"none", "read", "stat"}]
    /\ pc \in [Handles -> [Parts -> {"none", "check", "request", "store"}]]
    /\ answer \in [Handles -> [Parts -> {Nil} \cup Versions]]
    /\ loaded \in [Handles -> [Parts -> {Nil} \cup Versions]]
    /\ cache \in [Parts -> {Nil} \cup Versions]
    /\ served \in [Parts -> 0..Cardinality(Handles)]

Each(value) == [h \in Handles |-> [part \in Parts |-> value]]

Init ==
    /\ cacheOn \in SUBSET Handles /\ serial \in BOOLEAN
    /\ version = 1
    /\ since = [h \in Handles |-> Nil]
    /\ op = [h \in Handles |-> "none"]
    /\ pc = Each("none") /\ answer = Each(Nil) /\ loaded = Each(Nil)
    /\ cache = [part \in Parts |-> Nil]
    /\ served = [part \in Parts |-> 0]

-----------------------------------------------------------------------------
\* A new version of the secret.
Rotate ==
    /\ version < MaxVersion
    /\ version' = version + 1
    /\ UNCHANGED <<since, op, pc, answer, loaded, cache, served>>

Open(h) ==
    /\ since[h] = Nil
    /\ since' = [since EXCEPT ![h] = version]
    /\ UNCHANGED <<version, op, pc, answer, loaded, cache, served>>

\* Mutant of Needs: what the handle has already is loaded again.
NeedsAlways(h, part) == TRUE

\* f.content == nil, f.modTime == nil
Needs(h, part) == loaded[h][part] = Nil

Start(h, method, parts) ==
    /\ since[h] # Nil /\ op[h] = "none"
    /\ serial => \A other \in Handles : op[other] = "none"
    /\ op' = [op EXCEPT ![h] = method]
    /\ pc' = [pc EXCEPT ![h] = [part \in Parts |->
                 IF part \in parts /\ Needs(h, part) THEN "check" ELSE "none"]]
    /\ UNCHANGED <<version, since, answer, loaded, cache, served>>

\* Read loads the content.
Read(h) == Start(h, "read", {"content"})

\* Stat loads both parts, each in a goroutine of an errgroup.
Stat(h) == Start(h, "stat", Parts)

\* Mutant of Cached: WithCache(false) leaves the cache in place.
CachedAnyway(h, part) == cache[part] # Nil

Cached(h, part) == h \in cacheOn /\ cache[part] # Nil

\* What the cache has is the handle's; without it there is a request.
Check(h, part) ==
    /\ pc[h][part] = "check"
    /\ IF Cached(h, part)
       THEN /\ loaded' = [loaded EXCEPT ![h][part] = cache[part]]
            /\ pc' = [pc EXCEPT ![h][part] = "none"]
       ELSE /\ pc' = [pc EXCEPT ![h][part] = "request"]
            /\ UNCHANGED loaded
    /\ UNCHANGED <<version, since, op, answer, cache, served>>

\* The server answers with its latest version ...
Serve(h, part) ==
    /\ pc[h][part] = "request"
    /\ answer' = [answer EXCEPT ![h][part] = version]
    /\ served' = [served EXCEPT ![part] = @ + 1]
    /\ pc' = [pc EXCEPT ![h][part] = "store"]
    /\ UNCHANGED <<version, since, op, loaded, cache>>

\* ... or with an error, which the cache does not keep.
Refuse(h, part) ==
    /\ pc[h][part] = "request"
    /\ pc' = [pc EXCEPT ![h][part] = "none"]
    /\ UNCHANGED <<version, since, op, answer, loaded, cache, served>>

\* Mutant of Remember: nothing is stored.
Forget(h, part) == UNCHANGED cache

Remember(h, part) ==
    cache' = IF h \in cacheOn THEN [cache EXCEPT ![part] = answer[h][part]]
             ELSE cache

\* The answer reaches the handle, and the cache.
Store(h, part) ==
    /\ pc[h][part] = "store"
    /\ loaded' = [loaded EXCEPT ![h][part] = answer[h][part]]
    /\ Remember(h, part)
    /\ answer' = [answer EXCEPT ![h][part] = Nil]
    /\ pc' = [pc EXCEPT ![h][part] = "none"]
    /\ UNCHANGED <<version, since, op, served>>

\* Read and Stat return when all that they started has ended.
Return(h) ==
    /\ op[h] # "none"
    /\ \A part \in Parts : pc[h][part] = "none"
    /\ op' = [op EXCEPT ![h] = "none"]
    /\ UNCHANGED <<version, since, pc, answer, loaded, cache, served>>

Next ==
    /\ UNCHANGED setup
    /\ \/ Rotate
       \/ \E h \in Handles :
             \/ Open(h) \/ Read(h) \/ Stat(h) \/ Return(h)
             \/ \E part \in Parts : \/ Check(h, part) \/ Serve(h, part)
                                    \/ Refuse(h, part) \/ Store(h, part)

Spec == Init /\ [][Next]_vars

-----------------------------------------------------------------------------
(* Properties *)

\* The content and the time a handle has shown stay what they are, whatever is
\* rotated and however Read and Stat of other handles interleave: a size that
\* Stat returned is the size of what Read returns.
HandleStable ==
    [][\A h \in Handles, part \in Parts :
         loaded[h][part] # Nil => loaded'[h][part] = loaded[h][part]]_loaded

\* Without the cache a handle never shows a version older than the latest one
\* when it was opened: what the comment on secretCache recommends to who must
\* "observe secret rotations", also next to handles that do use the cache.
RotationsSeen ==
    \A h \in Handles \ cacheOn, part \in Parts :
        loaded[h][part] # Nil => loaded[h][part] >= since[h]

\* While one goroutine at a time uses the filesystem the server answers once
\* for each part, and all the handles agree ("served from cache; no additional
\* RPC", gcpsm_test.go:253).
OneRequest ==
    (serial /\ cacheOn = Handles) =>
        /\ \A part \in Parts : served[part] <= 1
        /\ \A h1, h2 \in Handles, part \in Parts :
              Nil \in {loaded[h1][part], loaded[h2][part]}
                 \/ loaded[h1][part] = loaded[h2][part]

=============================================================================
