------------------------------- MODULE PagedDir -------------------------------
(***************************************************************************)
(* A directory handle of awsimdsfs, awssmfs, awssmpfs or gcpmetafs: the    *)
(* first ReadDir lists the backend, makes a child of every name it has not *)
(* seen (with a Stat, unless the listing shows that it is a directory),    *)
(* sorts the children and pages through them.  DirCursor has the machine   *)
(* arithmetic of the pages; here it is what the pages contain.             *)
(***************************************************************************)
EXTENDS Integers, Sequences, SequencesExt, FiniteSets, NameOrder

CONSTANTS
    Names,       \* the names in the directory; numbers, for their order
    MaxListing,  \* bound on the entries of the backend's listing
    PageSizes    \* the arguments ReadDir may be given

ASSUME PagedDirAssumption ==
    /\ Names \subseteq Nat /\ IsFiniteSet(Names)
    /\ MaxListing \in Nat /\ PageSizes \subseteq Int

\* An entry of the listing: its first path segment, and whether there are more
\* (then it stands for a directory).
Entry == [name : Names, nested : BOOLEAN]

VARIABLES
    skipsGone, \* gcpmetafs: a child that is gone is skipped
    listing,   \* what the backend lists
    gone,      \* children whose Stat said that they do not exist
    pc,        \* "idle", or "populate" inside the first ReadDir
    next,      \* populate: the next entry
    size,      \* the n of the ReadDir in progress
    listed,    \* f.children is not nil
    partial,   \* a Stat has failed and left the children before it behind
    children,  \* f.children
    diroff,    \* f.diroff
    reply      \* the last reply: its n, its offset, its names and its error

vars == <<skipsGone, listing, gone, pc, next, size, listed, partial, children,
          diroff, reply>>

Reply(n, from, names, err) ==
    [size |-> n, from |-> from, names |-> names, err |-> err]

TypeOK ==
    /\ skipsGone \in BOOLEAN
    /\ \A i \in DOMAIN listing : listing[i] \in Entry
    /\ gone \subseteq Names
    /\ pc \in {"idle", "populate"}
    /\ next \in 1..(Len(listing) + 1)
    /\ size \in PageSizes \cup {0}
    /\ listed \in BOOLEAN /\ partial \in BOOLEAN
    /\ children \in Seq(Names) /\ Len(children) <= Cardinality(Names)
    /\ diroff \in 0..Len(children)
    /\ reply.err \in {"none", "nil", "EOF", "error"}

Init ==
    /\ skipsGone \in BOOLEAN
    /\ listing \in SeqOf(Entry, MaxListing)
    /\ gone = {} /\ pc = "idle" /\ next = 1 /\ size = 0
    /\ listed = FALSE /\ partial = FALSE /\ children = <<>> /\ diroff = 0
    /\ reply = Reply(0, 0, <<>>, "none")

-----------------------------------------------------------------------------
\* The rest of ReadDir, once there are children.
Return(n, kids) ==
    /\ pc' = "idle"
    /\ IF n > 0 /\ diroff >= Len(kids)
       THEN /\ reply' = Reply(n, diroff, <<>>, "EOF")
            /\ UNCHANGED diroff
       ELSE LET low  == diroff
                high == IF n <= 0 \/ low + n >= Len(kids) THEN Len(kids)
                        ELSE low + n IN
            /\ reply' = Reply(n, low, SubSeq(kids, low + 1, high), "nil")
            /\ diroff' = high

ReturnError(n) ==
    /\ pc' = "idle"
    /\ reply' = Reply(n, diroff, <<>>, "error")
    /\ UNCHANGED diroff

\* ReadDir of a handle whose children are known.
ReadCached(n) ==
    /\ pc = "idle" /\ listed
    /\ Return(n, children)
    /\ UNCHANGED <<listing, gone, next, size, listed, partial, children>>

\* Mutant of StartList: the directory is listed again whether or not the handle
\* has its children, as a refresh would.
ListAgain(n) ==
    /\ pc = "idle"
    /\ pc' = "populate"
    /\ next' = 1 /\ size' = n
    /\ listed' = skipsGone /\ children' = <<>>
    /\ UNCHANGED <<listing, gone, partial, diroff, reply>>

\* ReadDir lists the backend, page after page.
StartList(n) ==
    /\ pc = "idle" /\ ~listed
    /\ pc' = "populate"
    /\ next' = 1 /\ size' = n
    /\ listed' = skipsGone      \* gcpmetafs starts from an empty slice
    /\ UNCHANGED <<listing, gone, partial, children, diroff, reply>>

\* The listing fails; the secret managers say so too if it is empty.
ListFails(n) ==
    /\ pc = "idle" /\ ~listed
    /\ ReturnError(n)
    /\ UNCHANGED <<listing, gone, next, size, listed, partial, children>>

\* Mutant of Seen: every entry of the listing makes a child.
NeverSeen(name) == FALSE

\* The names the loop has been through.
Seen(name) == \E i \in 1..(next - 1) : listing[i].name = name

Child == listing[next].name

More == pc = "populate" /\ next <= Len(listing)

\* An entry whose name was there before.
SkipSeen ==
    /\ More /\ Seen(Child)
    /\ next' = next + 1
    /\ UNCHANGED <<listing, gone, pc, size, listed, partial, children, diroff, reply>>

\* A directory, or a child whose Stat succeeds.
AddChild ==
    /\ More /\ ~Seen(Child)
    /\ children' = Append(children, Child)
    /\ listed' = TRUE
    /\ next' = next + 1
    /\ UNCHANGED <<listing, gone, partial, pc, size, diroff, reply>>

\* Mutant of SkipGone: a break where the code continues.
StopAtGone ==
    /\ More /\ ~Seen(Child) /\ ~listing[next].nested
    /\ skipsGone
    /\ gone' = gone \cup {Child}
    /\ next' = Len(listing) + 1
    /\ UNCHANGED <<listing, pc, size, listed, partial, children, diroff, reply>>

\* A child that no longer exists, where that is not an error.
SkipGone ==
    /\ More /\ ~Seen(Child) /\ ~listing[next].nested
    /\ skipsGone
    /\ gone' = gone \cup {Child}
    /\ next' = next + 1
    /\ UNCHANGED <<listing, pc, size, listed, partial, children, diroff, reply>>

\* A child whose Stat fails ends the loop; the children so far are the handle's.
StatFails ==
    /\ More /\ ~Seen(Child) /\ ~listing[next].nested
    /\ partial' = listed
    /\ ReturnError(size)
    /\ UNCHANGED <<listing, gone, next, size, listed, children>>

\* Mutant of Sorted: the children in the order of the backend.
Unsorted(kids) == kids

\* "the AWS SDK doesn't sort the list of children, so we do it here"
Sorted(kids) == SortByName(kids)

Populated ==
    /\ pc = "populate" /\ next > Len(listing)
    /\ children' = Sorted(children)
    /\ Return(size, Sorted(children))
    /\ UNCHANGED <<listing, gone, next, size, listed, partial>>

Next ==
    /\ UNCHANGED skipsGone
    /\ \/ \E n \in PageSizes : ReadCached(n) \/ StartList(n) \/ ListFails(n)
       \/ SkipSeen \/ AddChild \/ SkipGone \/ StatFails \/ Populated

Spec == Init /\ [][Next]_vars

-----------------------------------------------------------------------------
(* Properties *)

\* What the directory holds: each name once, in order.
Expected == InOrder({listing[i].name : i \in DOMAIN listing} \ gone)

\* A ReadDir without an error returns the names that come next in the
\* directory: for n <= 0 all of them ("ReadDir returns all the DirEntry values
\* from the directory in a single slice", awsimdsfs.go:570), for n > 0 a page;
\* unless a Stat has failed before and left a part of the directory behind.
PagesOfDirectory ==
    (reply.err = "nil" /\ ~partial) =>
        LET last == IF reply.size <= 0 THEN Len(Expected)
                    ELSE reply.from + Len(reply.names) IN
        reply.names = SubSeq(Expected, reply.from + 1, last)

\* io.EOF is for the end of the directory, not for the end of what is cached.
EOFAtEnd == (reply.err = "EOF" /\ ~partial) => reply.from = Len(Expected)

\* Whatever the Stat of a child did, before or in this ReadDir, a page has
\* children of the directory only, and none of them twice.
NoFalseEntries ==
    /\ IsInjective(reply.names)
    /\ \A i \in DOMAIN reply.names :
          \E j \in DOMAIN listing : listing[j].name = reply.names[i]

\* Once a page was handed out, the children its offset counts from stay as they
\* are, also when the ReadDir that cached them has failed: a later page neither
\* repeats nor skips one of them.
CursorStable == [][diroff > 0 => children' = children]_vars

=============================================================================
