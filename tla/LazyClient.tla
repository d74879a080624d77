------------------------------ MODULE LazyClient ------------------------------
(***************************************************************************)
(* The client that a filesystem of a cloud service makes when it first     *)
(* needs one, in filesystems that are derived from one another and used    *)
(* by goroutines that do not wait for each other: getClient of awssmfs,    *)
(* awssmpfs, awsimdsfs, gcpmetafs and gcpsmfs, and the bucket of blobfs.   *)
(* The client is kept in a field that a derived filesystem copies.  What a *)
(* bucket is opened with depends on its scheme: gs takes the filesystem's  *)
(* HTTP client, s3 its metadata filesystem, and azblob takes neither.      *)
(***************************************************************************)
EXTENDS Naturals, Sequences

CONSTANTS
    Goroutines,   \* those that use the filesystems
    HTTPClients,  \* HTTP clients that callers have
    Metadata,     \* instance metadata filesystems that callers have: each says
                  \* another region
    MaxFS         \* bound on the filesystems

Buckets  == {"s3", "gs", "azblob"}  \* the schemes of blobfs
Services == {"awssm", "awssmp", "awsimds", "gcpmeta", "gcpsm"} \cup Buckets

VARIABLES
    service,    \* the service
    envRegion,  \* whether the environment says which region it is
    fsys,       \* the filesystems, in the order they were made
    call        \* where each goroutine is in getClient, and what it returned last

lazyVars == <<service, envRegion, fsys, call>>

Unset == "none"

NoClient == [by |-> Unset, http |-> Unset, region |-> Unset]
Callers  == [by |-> "caller", http |-> Unset, region |-> Unset]  \* given to WithSMClient

NoCall == [at |-> "idle", fs |-> 0, region |-> Unset, client |-> NoClient]

\* The services that ask the metadata filesystem for a region.
Regional == {"awssm", "awssmp", "s3"}

\* Those whose client is made without the filesystem's HTTP client.
OwnTransport == {"s3", "azblob"}

\* "given" is history: what the caller has asked for, and whether that was when
\* there was a client already.
InitLazy ==
    /\ service \in Services
    /\ envRegion \in BOOLEAN
    /\ fsys = <<[client |-> NoClient, http |-> Unset, metadata |-> "aws+imds",
                 given |-> [client |-> NoClient, http |-> Unset,
                            metadata |-> "aws+imds", late |-> FALSE]]>>
    /\ call = [p \in Goroutines |-> NoCall]

-----------------------------------------------------------------------------
(* Deriving: fsys := *f, with a field changed *)

\* Mutant of Derived: the field is changed in the filesystem itself.
DerivedInPlace(f, copy) ==
    Append([fsys EXCEPT ![f] = [copy EXCEPT !.given = fsys[f].given]], copy)

Derived(f, copy) == Append(fsys, copy)

DeriveFrom(f, copy) ==
    /\ Len(fsys) < MaxFS
    /\ fsys' = Derived(f, copy)
    /\ UNCHANGED <<service, envRegion, call>>

WithContext(f) == DeriveFrom(f, fsys[f])

WithHTTPClient(f, http) ==
    DeriveFrom(f, [fsys[f] EXCEPT !.http = http, !.given.http = http,
                                  !.given.late = @ \/ fsys[f].client # NoClient])

\* WithSMClient, WithIMDSClient, WithMetadataClient
WithClient(f) ==
    /\ service \notin Buckets
    /\ DeriveFrom(f, [fsys[f] EXCEPT !.client = Callers, !.given.client = Callers])

\* Every blobfs takes one, whatever its scheme.
WithIMDSFS(f, metadata) ==
    /\ service \in Regional \cup Buckets
    /\ DeriveFrom(f, [fsys[f] EXCEPT !.metadata = metadata, !.given.metadata = metadata,
                                     !.given.late = @ \/ fsys[f].client # NoClient])

-----------------------------------------------------------------------------
(* getClient *)

\* if f.smclient != nil: the client is returned, or will be made.
GetClient(p, f) ==
    /\ call[p].at = "idle"
    /\ call' = [call EXCEPT ![p] =
         [NoCall EXCEPT !.at = IF fsys[f].client # NoClient THEN "return" ELSE "make",
                      !.fs = f]]
    /\ UNCHANGED <<service, envRegion, fsys>>

\* The configuration: the region is asked for if the environment has none.
Configure(p) ==
    /\ call[p].at = "make"
    /\ call' = [call EXCEPT ![p].at = "create",
                            ![p].region = IF service \notin Regional THEN Unset
                                          ELSE IF envRegion THEN "environment"
                                          ELSE fsys[call[p].fs].metadata]
    /\ UNCHANGED <<service, envRegion, fsys>>

\* The configuration cannot be loaded, or there is no answer: nothing is kept, and
\* the next call tries again.
ConfigureFails(p) ==
    /\ call[p].at = "make" /\ service # "gcpmeta"
    /\ call' = [call EXCEPT ![p] = NoCall]
    /\ UNCHANGED <<service, envRegion, fsys>>

\* The HTTP client that is used, of those that a filesystem has.
Transport(f) == IF service \in OwnTransport THEN Unset ELSE fsys[f].http

Create(p) ==
    LET f == call[p].fs IN
    /\ call[p].at = "create"
    /\ fsys' = [fsys EXCEPT ![f].client =
         [by |-> "code", http |-> Transport(f), region |-> call[p].region]]
    /\ call' = [call EXCEPT ![p].at = "return"]
    /\ UNCHANGED <<service, envRegion>>

\* return f.smclient: perhaps another goroutine's.
Return(p) ==
    /\ call[p].at = "return"
    /\ call' = [call EXCEPT ![p].at = "idle", ![p].client = fsys[call[p].fs].client]
    /\ UNCHANGED <<service, envRegion, fsys>>

NextLazy ==
    \/ \E f \in DOMAIN fsys :
          \/ WithContext(f) \/ WithClient(f)
          \/ \E http \in HTTPClients : WithHTTPClient(f, http)
          \/ \E metadata \in Metadata : WithIMDSFS(f, metadata)
          \/ \E p \in Goroutines : GetClient(p, f)
    \/ \E p \in Goroutines :
          Configure(p) \/ ConfigureFails(p) \/ Create(p) \/ Return(p)

SpecLazy == InitLazy /\ [][NextLazy]_lazyVars

-----------------------------------------------------------------------------
(* Properties *)

\* The client that a call gets is the one that its filesystem was given, or one
\* made of the HTTP client that it was given and, where the service needs it, of
\* the region of the instance, whatever was derived, called or failed in between,
\* and in whatever order.  Not so if there was a client already when it was given
\* another one.  And "injects an HTTP client into the filesystem"
\* (extensions.go:35) has two exceptions: a bucket of s3 or azblob is opened with
\* an HTTP client of the SDK's own, never with the caller's.
ClientAsGiven ==
    \A p \in Goroutines : call[p].client # NoClient =>
        LET given  == fsys[call[p].fs].given
            client == call[p].client IN
        IF given.client = Callers THEN client = Callers
        ELSE /\ client.by = "code"
             /\ IF service \in {"s3", "azblob"} THEN client.http = Unset
                ELSE given.late \/ client.http = given.http
             /\ service \in Regional /\ ~given.late =>
                   client.region = IF envRegion THEN "environment" ELSE given.metadata
=============================================================================
