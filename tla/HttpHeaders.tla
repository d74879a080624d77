------------------------------ MODULE HttpHeaders ------------------------------
(***************************************************************************)
(* The headers that the requests of filesystems carry which are derived    *)
(* from one another with WithHeader.  In httpfs a header map is shared:    *)
(* the first WithHeader takes the map of its caller, and a later one adds  *)
(* to the map that is there, whoever has it.  In vaultfs they are those    *)
(* of the API client: WithHeader adds to them for every filesystem that    *)
(* has the client, and WithClient and WithConfig replace the client.       *)
(***************************************************************************)
EXTENDS Naturals, Sequences

CONSTANTS
    HeaderSets,  \* what headers a caller's map or client may have at first
    CallerMaps,  \* how many header maps, or clients of vaultfs, the caller has
    MaxHttpFS    \* bound on the filesystems

ASSUME HeaderAssumption == CallerMaps \in Nat

VARIABLES
    provider, \* httpfs or vaultfs
    maps,     \* what each header map has: the caller's, then those of New
    headers,  \* f.headers of each filesystem, or those of its f.client: which map
    handed,   \* history: what each filesystem was given, in all its derivation
              \* or since it was given a client,
    added     \* and what the caller has put in its maps

headerVars == <<provider, maps, headers, handed, added>>

InitHeaders ==
    /\ provider \in {"httpfs", "vaultfs"}
    /\ maps \in [1..CallerMaps -> HeaderSets]
    /\ headers = <<>> /\ handed = <<>>
    /\ added = maps

NewFS ==
    /\ Len(headers) < MaxHttpFS
    /\ maps' = Append(maps, {})
    /\ headers' = Append(headers, Len(maps'))
    /\ handed' = Append(handed, {})
    /\ UNCHANGED <<provider, added>>

\* Mutant of Joined: the new map replaces the old one.
JoinedInstead(old, m) == [map |-> m, has |-> maps[m]]

\* What WithHeader makes of a filesystem's map and its argument.
Joined(old, m) ==
    IF provider = "httpfs" /\ maps[old] = {} THEN [map |-> m, has |-> maps[m]]
    ELSE [map |-> old, has |-> maps[old] \cup maps[m]]

WithHTTPHeader(f, m) ==
    LET joined == Joined(headers[f], m) IN
    /\ Len(headers) < MaxHttpFS
    /\ headers' = Append(headers, joined.map)
    /\ maps' = [maps EXCEPT ![joined.map] = joined.has]
    /\ handed' = Append(handed, handed[f] \cup maps[m])
    /\ UNCHANGED <<provider, added>>

\* WithContext, WithHTTPClient and Sub of httpfs; WithContext and WithAuthMethod of
\* vaultfs
Copy(f) ==
    /\ Len(headers) < MaxHttpFS
    /\ headers' = Append(headers, headers[f])
    /\ handed' = Append(handed, handed[f])
    /\ UNCHANGED <<provider, maps, added>>

\* "The current client will be replaced": by one of the caller's, and with it the
\* headers that the filesystem had.
WithAPIClient(m) ==
    /\ provider = "vaultfs" /\ headers # <<>>
    /\ Len(headers) < MaxHttpFS
    /\ headers' = Append(headers, m)
    /\ handed' = Append(handed, {})
    /\ UNCHANGED <<provider, maps, added>>

\* The client that replaces it is a new one, as in New.
WithAPIConfig == provider = "vaultfs" /\ headers # <<>> /\ NewFS

\* The caller goes on using its map.
Put(m, header) ==
    /\ header \notin maps[m]
    /\ maps' = [maps EXCEPT ![m] = @ \cup {header}]
    /\ added' = [added EXCEPT ![m] = @ \cup {header}]
    /\ UNCHANGED <<provider, headers, handed>>

NextHeaders ==
    \/ NewFS \/ WithAPIConfig
    \/ \E f \in DOMAIN headers : Copy(f) \/ \E m \in 1..CallerMaps : WithHTTPHeader(f, m)
    \/ \E m \in 1..CallerMaps : WithAPIClient(m)
    \/ \E m \in 1..CallerMaps, header \in UNION HeaderSets : Put(m, header)

SpecHeaders == InitHeaders /\ [][NextHeaders]_headerVars

\* A request sends what the map has then, or the client's headers.
Sent(f) == maps[headers[f]]

-----------------------------------------------------------------------------
(* Properties *)

\* What the filesystems that have map m were given.
HandedWith(m) == UNION {handed[g] : g \in {g \in DOMAIN headers : headers[g] = m}}

\* The requests of a filesystem carry every header that it was given in its
\* derivation ("injects the given HTTP header", extensions.go:25), or since its
\* client was replaced, and of others only those that were put in the map that it
\* shares: by its caller, or with a filesystem that has the same map or client.
HeadersKept ==
    \A f \in DOMAIN headers :
        /\ handed[f] \subseteq Sent(f)
        /\ Sent(f) \subseteq
              HandedWith(headers[f])
                 \cup (IF headers[f] \in 1..CallerMaps THEN added[headers[f]] ELSE {})
=============================================================================
