------------------------------- MODULE BlobDir -------------------------------
(***************************************************************************)
(* The ReadDir of blobfs: each call takes objects from an iterator that    *)
(* the handle keeps, and leaves out the markers that Azure makes for       *)
(* directories.  The iterator does not go back: what a call has taken when *)
(* it fails is gone.  The caller calls until io.EOF, or reads all.         *)
(***************************************************************************)
EXTENDS Integers, FiniteSets

CONSTANTS MaxObjects,  \* bound on the objects under a prefix
          ObjectSizes  \* the arguments ReadDir may be given

ASSUME BlobAssumption == MaxObjects \in Nat /\ ObjectSizes \subseteq Int

VARIABLES objects,   \* how many objects the bucket lists
          markers,   \* which of them are markers
          taken,     \* how many the iterator has given
          lost,      \* those that a ReadDir had taken when it failed
          given,     \* caller: the objects it was given an entry for
          blobReply  \* what the last ReadDir was asked and said

blobVars == <<objects, markers, taken, lost, given, blobReply>>

BlobReply(n, count, err) == [size |-> n, count |-> count, err |-> err]

InitBlob ==
    /\ objects \in 0..MaxObjects /\ markers \in SUBSET (1..objects)
    /\ taken = 0 /\ lost = {} /\ given = {}
    /\ blobReply = BlobReply(0, 0, "none")

\* The caller has what it wants.
BlobDone == blobReply.err \in {"EOF", "all"}

\* The entries that a call makes of the next k objects.
Entries(k) == ((taken + 1)..(taken + k)) \ markers

\* Mutant of GiveObjects: the entries of the last page are dropped for its io.EOF.
GiveBeforeEOF(n, k, err) ==
    LET kept == IF err = "EOF" THEN {} ELSE Entries(k) IN
    /\ given' = given \cup kept
    /\ blobReply' = BlobReply(n, Cardinality(kept), err)
    /\ taken' = taken + k
    /\ UNCHANGED <<objects, markers, lost>>

\* ReadDir(n) returns what it made of the next k objects.
GiveObjects(n, k, err) ==
    /\ given' = given \cup Entries(k)
    /\ blobReply' = BlobReply(n, Cardinality(Entries(k)), err)
    /\ taken' = taken + k
    /\ UNCHANGED <<objects, markers, lost>>

\* The loop has taken n objects; a marker counts as one of them.
TakePage(n) == n > 0 /\ taken + n <= objects /\ GiveObjects(n, n, "nil")

\* The iterator ends first: what there is, with io.EOF unless all was wanted.
TakeToEnd(n) ==
    /\ n <= 0 \/ taken + n > objects
    /\ GiveObjects(n, objects - taken, IF n > 0 THEN "EOF" ELSE "all")

\* The iterator fails after k objects: no entries for them.
TakeFails(n, k) ==
    /\ k <= objects - taken /\ (n > 0 => k < n)
    /\ lost' = lost \cup Entries(k)
    /\ taken' = taken + k
    /\ blobReply' = BlobReply(n, 0, "error")
    /\ UNCHANGED <<objects, markers, given>>

NextBlob ==
    /\ ~BlobDone
    /\ \E n \in ObjectSizes :
          \/ TakePage(n) \/ TakeToEnd(n)
          \/ \E k \in 0..MaxObjects : TakeFails(n, k)

SpecBlob == InitBlob /\ [][NextBlob]_blobVars

-----------------------------------------------------------------------------
(* Properties *)

\* When ReadDir is done (blobfs/blob.go:399) its caller has had an entry for
\* every object but the markers, in pages of no more than it asked for, except
\* for those that a call had taken from the iterator when it failed.
ObjectsAddUp ==
    /\ BlobDone => given = ((1..objects) \ markers) \ lost
    /\ blobReply.size > 0 => blobReply.count <= blobReply.size
=============================================================================
