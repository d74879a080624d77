---------------------------- MODULE MCPathsAndPages ----------------------------
(***************************************************************************)
(* What a path stands for and what is in a directory, for TLC: VaultMounts,*)
(* ObjectNames, SecretNames or MetadataWalk, and the ways of paging        *)
(* through a directory, PagedDir, DirCursor, LoopCursor or BlobDir; one of *)
(* them per behaviour.                                                     *)
(***************************************************************************)
EXTENDS PagedDir, DirCursor, LoopCursor, BlobDir, MCVaultMounts, MetadataWalk,
        StoreNames, ObjectSets, MetadataSets

VARIABLE which  \* the one that is called; the others are empty

pagedVars  == vars

SomeSizes == {-1, 1, 2}
MoreSizes == {-1, 0, 1, 2, 3}
EverySize == MinInt..MaxInt

\* The ones that are not called stay in one of their initial states, in which
\* they have nothing to page through, to find or to list.
PagedAtRest   == /\ skipsGone = FALSE /\ listing = <<>> /\ gone = {} /\ pc = "idle"
                 /\ next = 1 /\ size = 0 /\ listed = FALSE /\ partial = FALSE
                 /\ children = <<>> /\ diroff = 0 /\ reply = Reply(0, 0, <<>>, "none")
ClampedAtRest == length = 0 /\ InitClamp
LoopAtRest    == kids = 0 /\ InitLoop
BlobAtRest    == objects = 0 /\ InitBlob
MountsAtRest  == /\ path = <<"k">> /\ slash = FALSE /\ mounts = {} /\ todo = {}
                 /\ best = NoMount /\ stage = "visit" /\ request = NoRequest
ObjectsAtRest == /\ kind = "sm" /\ store = {} /\ root = Slash /\ base = Empty
                 /\ file = NoFile /\ said = NoReply
SecretsAtRest == project = Secrets!NoProject /\ secrets = {} /\ Secrets!InitSecrets
WalkAtRest    == service = "aws" /\ top = <<>> /\ InitWalk

PathsAndPagesInit ==
    /\ which \in {"paged", "clamped", "loop", "blob", "mounts", "objects", "secrets",
                 "walk"}
    /\ IF which = "paged" THEN Init ELSE PagedAtRest
    /\ IF which = "clamped" THEN InitClamp ELSE ClampedAtRest
    /\ IF which = "loop" THEN InitLoop ELSE LoopAtRest
    /\ IF which = "blob" THEN InitBlob ELSE BlobAtRest
    /\ IF which = "mounts" THEN MountInit ELSE MountsAtRest
    /\ IF which = "objects" THEN InitObjects ELSE ObjectsAtRest
    /\ IF which = "secrets" THEN Secrets!InitSecrets ELSE SecretsAtRest
    /\ IF which = "walk" THEN InitWalk ELSE WalkAtRest

PagedStep ==
    /\ which = "paged" /\ Next
    /\ UNCHANGED <<clampVars, loopVars, blobVars, mountVars, objectVars,
                   secretVars, walkVars>>
ClampedStep ==
    /\ which = "clamped" /\ NextClamp
    /\ UNCHANGED <<pagedVars, loopVars, blobVars, mountVars, objectVars,
                   secretVars, walkVars>>
LoopStep ==
    /\ which = "loop" /\ NextLoop
    /\ UNCHANGED <<pagedVars, clampVars, blobVars, mountVars, objectVars,
                   secretVars, walkVars>>
BlobStep ==
    /\ which = "blob" /\ NextBlob
    /\ UNCHANGED <<pagedVars, clampVars, loopVars, mountVars, objectVars,
                   secretVars, walkVars>>
MountStep ==
    /\ which = "mounts" /\ MountNext
    /\ UNCHANGED <<pagedVars, clampVars, loopVars, blobVars, objectVars,
                   secretVars, walkVars>>
ObjectStep ==
    /\ which = "objects" /\ NextObjects
    /\ UNCHANGED <<pagedVars, clampVars, loopVars, blobVars, mountVars,
                   secretVars, walkVars>>
SecretStep ==
    /\ which = "secrets" /\ Secrets!NextSecrets
    /\ UNCHANGED <<pagedVars, clampVars, loopVars, blobVars, mountVars, objectVars,
                   walkVars>>
WalkStep ==
    /\ which = "walk" /\ NextWalk
    /\ UNCHANGED <<pagedVars, clampVars, loopVars, blobVars, mountVars, objectVars,
                   secretVars>>

PathsAndPagesNext ==
    /\ UNCHANGED which
    /\ \/ PagedStep \/ ClampedStep \/ LoopStep \/ BlobStep
       \/ MountStep \/ ObjectStep \/ SecretStep \/ WalkStep

PathsAndPagesSpec ==
    PathsAndPagesInit
    /\ [][PathsAndPagesNext]_<<which, pagedVars, clampVars, loopVars, blobVars,
                               mountVars, objectVars, secretVars, walkVars>>

=============================================================================
