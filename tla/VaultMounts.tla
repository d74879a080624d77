------------------------------ MODULE VaultMounts ------------------------------
(***************************************************************************)
(* vaultfs: which mount a path belongs to, found among the mounts that the *)
(* server lists (a Go map: in any order), and the API path to which the    *)
(* requests for the path go.  Paths are sequences of segments, without the *)
(* "v1" that they all begin with.                                          *)
(***************************************************************************)
EXTENDS Naturals, Sequences, SequencesExt, FiniteSets, FiniteSetsExt

CONSTANTS
    Paths,        \* the paths of files that are opened
    Mounts,       \* the mounts that a server may have
    MaxMounts,    \* bound: how many it has
    BytePrefixes  \* pairs of segments, the first of which begins the second

\* A mount: the group it is listed in, its name, whether it is a KV version 2
\* mount, and whether its description is malformed.
Groups == {"secret", "auth"}

ASSUME MountsAssumption ==
    /\ \A path \in Paths : path \in Seq(STRING) /\ path # <<>>
    /\ \A m \in Mounts : /\ m.group \in Groups
                         /\ m.name \in Seq(STRING) /\ m.name # <<>>
                         /\ m.kv2 \in BOOLEAN /\ m.bad \in BOOLEAN
                         /\ m.kv2 => m.group = "secret"  \* no auth method is a "kv"
    /\ MaxMounts \in Nat

NoMount == [group |-> "none", name |-> <<>>, kv2 |-> FALSE, bad |-> FALSE]

VARIABLES
    path,     \* f.u.Path
    slash,    \* does it end with a slash?  (the root of the filesystem)
    mounts,   \* the mounts of the server
    todo,     \* those that the loop has not seen
    best,     \* bestMatch
    stage,    \* "visit", "found", "error", and "sent"
    request   \* the request that was sent: its method and its path

mountVars == <<path, slash, mounts, todo, best, stage, request>>

NoRequest == [method |-> "none", path |-> <<>>]

\* The path of the mount: path.Join(group.prefix, mountName)
MountPath(m) == IF m.group = "auth" THEN <<"auth">> \o m.name ELSE m.name

MountTypeOK ==
    /\ path \in Paths /\ slash \in BOOLEAN
    /\ mounts \subseteq Mounts /\ todo \subseteq mounts
    /\ best \in mounts \cup {NoMount}
    /\ stage \in {"visit", "found", "error", "sent"}
    /\ request.method \in {"none", "GET", "LIST"}
    /\ best # NoMount => Len(MountPath(best)) <= Len(path)

MountInit ==
    /\ path \in Paths /\ slash \in BOOLEAN
    /\ mounts \in UNION {kSubset(k, Mounts) : k \in 0..MaxMounts}
    /\ \A m1, m2 \in mounts : MountPath(m1) = MountPath(m2) => m1 = m2
    /\ todo = mounts
    /\ best = NoMount /\ stage = "visit" /\ request = NoRequest

-----------------------------------------------------------------------------
\* Mutant of Matches: strings.HasPrefix(rawFilePath, mountPrefix)
MatchesBytes(m) ==
    LET prefix == MountPath(m)
        n == Len(prefix) IN
    /\ n <= Len(path)
    /\ SubSeq(path, 1, n - 1) = SubSeq(prefix, 1, n - 1)
    /\ path[n] = prefix[n] \/ <<prefix[n], path[n]>> \in BytePrefixes

\* rawFilePath is the mount, or begins with the mount and a slash.
Matches(m) == IsPrefix(MountPath(m), path)

\* len(mountPrefix) > bestPrefixLen
Longer(m) == best = NoMount \/ Len(MountPath(m)) > Len(MountPath(best))

\* One round of the loop.
Visit(m) ==
    /\ stage = "visit" /\ m \in todo
    /\ todo' = todo \ {m}
    /\ IF ~Matches(m) THEN UNCHANGED <<best, stage>>
       ELSE IF m.bad THEN stage' = "error" /\ UNCHANGED best
       ELSE /\ best' = IF Longer(m) THEN m ELSE best
            /\ UNCHANGED stage
    /\ UNCHANGED <<path, slash, mounts, request>>

\* The loop ends: the mount, or "mount not found".
Visited ==
    /\ stage = "visit" /\ todo = {}
    /\ stage' = IF best = NoMount THEN "error" ELSE "found"
    /\ UNCHANGED <<path, slash, mounts, todo, best, request>>

SecretPath(m) == SubSeq(path, Len(MountPath(m)) + 1, Len(path))

\* request: a secret of a KV version 2 mount through its "data", anything else,
\* and the mount itself, as it is.
ReadPath ==
    IF best.kv2 /\ (SecretPath(best) # <<>> \/ slash)
    THEN best.name \o <<"data">> \o SecretPath(best)
    ELSE path

\* Mutant of ListPath: no "metadata/" is injected.
ListPathRaw == best.name \o SecretPath(best)

\* list: from the mount's name, with "metadata" for KV version 2.
ListPath ==
    best.name \o (IF best.kv2 THEN <<"metadata">> ELSE <<>>) \o SecretPath(best)

Send(method, to) ==
    /\ stage = "found"
    /\ stage' = "sent"
    /\ request' = [method |-> method, path |-> to]
    /\ UNCHANGED <<path, slash, mounts, todo, best>>

Read == Send("GET", ReadPath)
List == Send("LIST", ListPath)

\* The next request of the handle: its mount is cached.
Again ==
    /\ stage = "sent"
    /\ stage' = "found" /\ request' = NoRequest
    /\ UNCHANGED <<path, slash, mounts, todo, best>>

\* After an error there is none: the mounts are fetched once more.
Retry ==
    /\ stage = "error"
    /\ stage' = "visit" /\ todo' = mounts /\ best' = NoMount
    /\ UNCHANGED <<path, slash, mounts, request>>

MountNext ==
    \/ \E m \in Mounts : Visit(m)
    \/ Visited \/ Read \/ List \/ Again \/ Retry

MountSpec == MountInit /\ [][MountNext]_mountVars

-----------------------------------------------------------------------------
(* Properties *)

\* The mounts that the path lies in, a segment boundary after each.
Above == {m \in mounts : \E n \in 1..Len(path) : MountPath(m) = SubSeq(path, 1, n)}

\* The result does not depend on the order of the map: the innermost mount of
\* the path, or an error if it has none, or if one that it has is malformed.
InnermostMount ==
    /\ stage \in {"found", "sent"} =>
          /\ best \in Above /\ \A m \in Above : ~m.bad
          /\ \A m \in Above : Len(MountPath(m)) <= Len(MountPath(best))
    /\ stage = "error" => Above = {} \/ \E m \in Above : m.bad

\* A request goes to the path of the file: literally, or in a KV version 2 mount
\* with the API's segment after the path of the mount ("addressed as
\* /v1/auth/<mount> (as opposed to secret mounts, which are addressed as
\* /v1/<mount>)", vault.go:690).
ApiSegment == IF request.method = "LIST" THEN "metadata" ELSE "data"

RequestAddressesFile ==
    stage = "sent" =>
        \/ request.path = path /\ (request.method = "LIST" => ~best.kv2)
        \/ /\ best.kv2
           /\ request.path = MountPath(best) \o <<ApiSegment>> \o SecretPath(best)

\* Every GET and, in the mounts of secrets, every LIST does.
SecretRequestAddressesFile ==
    (request.method = "GET" \/ best.group = "secret") => RequestAddressesFile

=============================================================================
