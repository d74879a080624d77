------------------------------ MODULE PageProofs ------------------------------
(***************************************************************************)
(* What the ReadDirs promise, for every directory and any sizes of pages:  *)
(* the arithmetic of the clamped cursor (DirCursor) and of the looping one *)
(* (LoopCursor), for every width of int; the iterator of blobfs (BlobDir); *)
(* the children that the pages are of (PagedDir); and that a walk through  *)
(* the metadata comes to everything (MetadataWalk), for any documents in   *)
(* the directories of the services.                                        *)
(***************************************************************************)
EXTENDS PagedDir, DirCursor, LoopCursor, BlobDir, MetadataWalk,
        NameOrderProofs, SequenceTheorems, TLAPS

(* The cursor with a clamp *)

\* The clamp gives the end of a page that is inside the directory, not before
\* its start, and no longer than n.
LEMMA ClampBounds ==
    ASSUME CursorTypeOK, NEW n \in Sizes, ~(n > 0 /\ offset >= length)
    PROVE  LET high == Clamp(offset, Plus(offset, n)) IN
           /\ high \in offset..length
           /\ n <= 0 => high = length
           /\ n > 0 => high > offset /\ high - offset <= n
<1>1. n \in Ints /\ length \in 0..MaxInt /\ offset \in 0..length /\ MaxInt \in Nat
  BY IntAssumption DEF CursorTypeOK
<1>2. CASE n <= 0
  <2>1. Plus(offset, n) <= offset
    BY <1>1, <1>2 DEF Plus, Ints, MinInt
  <2>2. Plus(offset, n) \in Int
    BY <1>1 DEF Plus, Ints, MinInt
  <2>3. Clamp(offset, Plus(offset, n)) = length
    BY <1>1, <2>1, <2>2 DEF Clamp
  <2>4. QED BY <1>1, <1>2, <2>3 DEF Ints
<1>3. CASE n > 0
  <2>1. CASE offset + n > MaxInt
    <3>1. Plus(offset, n) = offset + n - 2 * (MaxInt + 1)
      BY <2>1 DEF Plus
    <3>2. Plus(offset, n) <= offset /\ Plus(offset, n) \in Int
      BY <1>1, <3>1 DEF Ints, MinInt
    <3>3. QED BY <1>1, <1>3, <2>1, <3>2 DEF Clamp, Ints
  <2>2. CASE offset + n <= MaxInt
    <3>1. Plus(offset, n) = offset + n
      BY <1>1, <1>3, <2>2 DEF Plus, Ints, MinInt
    <3>2. QED BY <1>1, <1>3, <3>1 DEF Clamp, Ints
  <2>3. QED BY <1>1, <2>1, <2>2 DEF Ints, MinInt
<1>4. QED BY <1>1, <1>2, <1>3 DEF Ints

\* The offset stays inside the directory.
THEOREM CursorInside == SpecClamp => []CursorTypeOK
<1>1. InitClamp => CursorTypeOK
  BY IntAssumption DEF InitClamp, CursorTypeOK
<1>2. CursorTypeOK /\ [NextClamp]_clampVars => CursorTypeOK'
  <2> SUFFICES ASSUME CursorTypeOK, [NextClamp]_clampVars PROVE CursorTypeOK'
    OBVIOUS
  <2>1. ASSUME NEW n \in Sizes, ReadDir(n) PROVE CursorTypeOK'
    BY <2>1, ClampBounds, IntAssumption DEF ReadDir, CursorTypeOK
  <2>2. CASE UNCHANGED clampVars
    BY <2>2 DEF clampVars, CursorTypeOK
  <2>3. QED BY <2>1, <2>2 DEF NextClamp
<1>3. QED BY <1>1, <1>2, PTL DEF SpecClamp

\* Each ReadDir is a page, all the rest, or io.EOF, as DirStream has them.
THEOREM CursorImplementsStream == SpecClamp => StreamSpec
<1>1. InitClamp => Stream!Init
  BY DEF InitClamp, Stream!Init, Page, Stream!Page
<1>2. CursorTypeOK /\ [NextClamp]_clampVars => [Stream!Next]_(Stream!vars)
  <2> SUFFICES ASSUME CursorTypeOK, [NextClamp]_clampVars PROVE [Stream!Next]_(Stream!vars)
    OBVIOUS
  <2> USE DEF Page, Stream!Page
  <2>1. ASSUME NEW n \in Sizes, ReadDir(n) PROVE Stream!Next
    <3>1. n \in Int /\ offset \in 0..length /\ length \in Nat
      BY IntAssumption DEF CursorTypeOK, Ints
    <3>2. CASE n > 0 /\ offset >= length
      <4>1. Stream!ReadEOF
        BY <2>1, <3>1, <3>2 DEF ReadDir, Stream!ReadEOF
      <4>2. QED BY <2>1, <4>1 DEF ReadDir, Stream!Next
    <3>3. CASE n <= 0
      <4>1. offset' = length /\ page' = Page(offset, length, "nil")
        BY <2>1, <3>1, <3>3, ClampBounds DEF ReadDir
      <4>2. Stream!ReadAll
        BY <3>3, <4>1 DEF Stream!ReadAll
      <4>3. QED BY <2>1, <4>2 DEF ReadDir, Stream!Next
    <3>4. CASE n > 0 /\ ~(offset >= length)
      <4>1. /\ page' = Page(offset, offset', "nil")
            /\ offset' \in offset..length /\ offset' > offset
            /\ offset' - offset <= n
        BY <2>1, <3>1, <3>4, ClampBounds DEF ReadDir
      <4>2. Stream!ReadPage(n)
        <5>1. offset < length /\ offset' \in (offset + 1)..length
          BY <3>1, <3>4, <4>1
        <5>2. QED BY <3>4, <4>1, <5>1 DEF Stream!ReadPage
      <4>3. QED BY <2>1, <4>2 DEF ReadDir, Stream!Next
    <3>5. QED BY <3>1, <3>2, <3>3, <3>4
  <2>2. CASE UNCHANGED clampVars
    BY <2>2 DEF clampVars, Stream!vars
  <2>3. QED BY <2>1, <2>2 DEF NextClamp
<1>3. QED
  BY <1>1, <1>2, CursorInside, PTL DEF SpecClamp, StreamSpec, Stream!Spec

-----------------------------------------------------------------------------
(* The cursor with a loop *)

LoopInv ==
    /\ kids \in 0..MaxLen
    /\ diridx \in 0..kids
    /\ got \in Nat
    /\ loopReply \in [count : Nat, err : {"none", "nil", "EOF", "all", "error"}]
    /\ PagesAddUp

\* A new handle has given nothing.
LEMMA InitLoopInv == InitLoop => LoopInv
BY IntAssumption DEF InitLoop, LoopInv, PagesAddUp, LoopDone, LoopReply

\* The bound of the loop is n further, or negative.
LEMMA LoopBound ==
    ASSUME LoopInv, NEW n \in Sizes, n > 0
    PROVE  /\ n \in Nat
           /\ Plus(n, diridx) = n + diridx \/ Plus(n, diridx) < 0
           /\ Plus(n, diridx) \in Int
<1>1. n \in 1..MaxInt /\ diridx \in 0..MaxInt /\ MaxInt \in Nat
  BY IntAssumption DEF LoopInv, Ints, MinInt
<1>2. QED BY <1>1 DEF Plus, MinInt

\* Every page moves the cursor by what it gives.
LEMMA NextLoopInv == LoopInv /\ [NextLoop]_loopVars => LoopInv'
<1> SUFFICES ASSUME LoopInv, [NextLoop]_loopVars PROVE LoopInv'
  OBVIOUS
<1> USE IntAssumption DEF PagesAddUp, LoopDone, LoopReply, Give
<1>1. ASSUME NEW n \in Sizes, ReadAll(n), ~LoopDone PROVE LoopInv'
  BY <1>1 DEF LoopInv, ReadAll
<1>2. ASSUME NEW n \in Sizes, ReadPage(n), ~LoopDone PROVE LoopInv'
  BY <1>2, LoopBound DEF LoopInv, ReadPage, Advance
<1>3. ASSUME NEW n \in Sizes, ReadEOF(n), ~LoopDone PROVE LoopInv'
  BY <1>3 DEF LoopInv, ReadEOF
<1>4. ASSUME ReadFails, ~LoopDone PROVE LoopInv'
  BY <1>4 DEF LoopInv, ReadFails
<1>5. CASE UNCHANGED loopVars
  BY <1>5 DEF LoopInv, loopVars
<1>6. QED BY <1>1, <1>2, <1>3, <1>4, <1>5 DEF NextLoop

\* A caller that reads until io.EOF has been given every entry exactly once, in
\* pages of any sizes: a bound that wraps around makes a page empty, not wrong.
THEOREM PagesAlwaysAddUp == SpecLoop => []PagesAddUp
<1>1. LoopInv => PagesAddUp
  BY DEF LoopInv
<1>2. QED BY <1>1, InitLoopInv, NextLoopInv, PTL DEF SpecLoop

-----------------------------------------------------------------------------
(* The iterator of blobfs *)

\* What was taken is given, lost to a failure, or a marker; a caller that is
\* done has seen the iterator at its end.
BlobInv ==
    /\ objects \in Nat /\ markers \subseteq 1..objects
    /\ taken \in 0..objects /\ lost \subseteq 1..taken
    /\ given = ((1..taken) \ markers) \ lost
    /\ BlobDone => taken = objects
    /\ blobReply.size > 0 => blobReply.count <= blobReply.size

\* A call makes no more entries than it has taken objects.
LEMMA EntriesBound ==
    ASSUME BlobInv, NEW k \in 0..(objects - taken)
    PROVE  /\ Entries(k) \subseteq (taken + 1)..(taken + k)
           /\ Cardinality(Entries(k)) \in 0..k
<1>1. taken \in Int /\ k \in Nat
  BY DEF BlobInv
<1>2. IsFiniteSet((taken + 1)..(taken + k)) /\ Cardinality((taken + 1)..(taken + k)) = k
  <2> DEFINE low == taken + 1
             high == taken + k
  <2>1. low \in Int /\ high \in Int /\ (IF low > high THEN 0 ELSE high - low + 1) = k
    BY <1>1
  <2> HIDE DEF low, high
  <2>2. IsFiniteSet(low..high) /\ Cardinality(low..high) = k
    BY <2>1, FS_Interval
  <2>3. QED BY <2>2 DEF low, high
<1>3. Entries(k) \subseteq (taken + 1)..(taken + k)
  BY DEF Entries
<1>4. IsFiniteSet(Entries(k)) /\ Cardinality(Entries(k)) <= Cardinality((taken + 1)..(taken + k))
  BY <1>2, <1>3, FS_Subset
<1>5. Cardinality(Entries(k)) \in Nat
  BY <1>4, FS_CardinalityType
<1>6. QED BY <1>1, <1>2, <1>3, <1>4, <1>5

\* The next k objects are given ...
LEMMA GivenAddUp ==
    ASSUME BlobInv, NEW n \in Int, NEW err, NEW k \in 0..(objects - taken),
           GiveObjects(n, k, err), err \in {"EOF", "all"} => taken + k = objects,
           n > 0 => k <= n
    PROVE  BlobInv'
<1> USE DEF BlobInv
<1>1. /\ objects' = objects /\ markers' = markers /\ lost' = lost
      /\ taken' = taken + k /\ given' = given \cup Entries(k)
      /\ blobReply' = BlobReply(n, Cardinality(Entries(k)), err)
  BY DEF GiveObjects
<1>2. 1..(taken + k) = 1..taken \cup (taken + 1)..(taken + k)
  OBVIOUS
<1>3. given' = ((1..taken') \ markers') \ lost'
  BY <1>1, <1>2 DEF Entries
<1>4. blobReply'.size > 0 => blobReply'.count <= blobReply'.size
  <2>1. Cardinality(Entries(k)) \in 0..k
    BY EntriesBound
  <2>2. QED BY <1>1, <2>1 DEF BlobReply
<1>5. BlobDone' => taken' = objects'
  BY <1>1 DEF BlobDone, BlobReply
<1>6. taken' \in 0..objects' /\ lost' \subseteq 1..taken'
  BY <1>1
<1>7. QED BY <1>1, <1>3, <1>4, <1>5, <1>6

\* ... or lost.
LEMMA LostAddUp ==
    ASSUME BlobInv, NEW n \in Int, NEW k \in Nat, TakeFails(n, k)
    PROVE  BlobInv'
<1> USE DEF BlobInv
<1>1. /\ objects' = objects /\ markers' = markers /\ given' = given
      /\ taken' = taken + k /\ lost' = lost \cup Entries(k)
      /\ blobReply' = BlobReply(n, 0, "error") /\ k <= objects - taken
  BY DEF TakeFails
<1>2. 1..(taken + k) = 1..taken \cup (taken + 1)..(taken + k)
  BY <1>1
<1>3. given' = ((1..taken') \ markers') \ lost'
  BY <1>1, <1>2 DEF Entries
<1>4. taken' \in 0..objects' /\ lost' \subseteq 1..taken'
  BY <1>1, <1>2 DEF Entries
<1>5. QED BY <1>1, <1>3, <1>4 DEF BlobDone, BlobReply

\* A caller that reads until io.EOF has an entry for every object of the prefix
\* that is not a marker, but those a failed call had taken: for any number of
\* objects, any markers among them and any sizes.
THEOREM ObjectsAllAddUp == SpecBlob => []ObjectsAddUp
<1>1. InitBlob => BlobInv
  BY BlobAssumption DEF InitBlob, BlobInv, BlobDone, BlobReply
<1>2. BlobInv /\ [NextBlob]_blobVars => BlobInv'
  <2> SUFFICES ASSUME BlobInv, [NextBlob]_blobVars PROVE BlobInv'
    OBVIOUS
  <2>1. ASSUME NEW n \in ObjectSizes, TakePage(n) PROVE BlobInv'
    <3>1. n \in Int /\ n \in 0..(objects - taken) /\ GiveObjects(n, n, "nil")
      BY <2>1, BlobAssumption DEF TakePage, BlobInv
    <3>2. QED BY <3>1, GivenAddUp
  <2>2. ASSUME NEW n \in ObjectSizes, TakeToEnd(n) PROVE BlobInv'
    <3> DEFINE k == objects - taken
    <3>1. /\ n \in Int /\ k \in 0..(objects - taken) /\ taken + k = objects
          /\ n > 0 => k <= n
          /\ GiveObjects(n, k, IF n > 0 THEN "EOF" ELSE "all")
      BY <2>2, BlobAssumption DEF TakeToEnd, BlobInv
    <3> HIDE DEF k
    <3>2. QED BY <3>1, GivenAddUp
  <2>3. ASSUME NEW n \in ObjectSizes, NEW k \in 0..MaxObjects, TakeFails(n, k)
        PROVE  BlobInv'
    BY <2>3, LostAddUp, BlobAssumption
  <2>4. CASE UNCHANGED blobVars
    BY <2>4 DEF blobVars, BlobInv, BlobDone
  <2>5. QED BY <2>1, <2>2, <2>3, <2>4 DEF NextBlob
<1>3. BlobInv => ObjectsAddUp
  BY DEF BlobInv, ObjectsAddUp
<1>4. QED BY <1>1, <1>2, <1>3, PTL DEF SpecBlob

-----------------------------------------------------------------------------
(* The children *)

\* The names of the first k entries of the listing, and of all of them.
NamesTo(k) == {listing[i].name : i \in 1..k}
Listed == {listing[i].name : i \in DOMAIN listing}

DirTypes ==
    /\ skipsGone \in BOOLEAN /\ listed \in BOOLEAN /\ partial \in BOOLEAN
    /\ listing \in Seq(Entry)
    /\ gone \subseteq Names
    /\ pc \in {"idle", "populate"}
    /\ next \in 1..(Len(listing) + 1)
    /\ size \in Int
    /\ children \in Seq(Names) /\ IsInjective(children)
    /\ diroff \in 0..Len(children)

\* Before there are children no page has been handed out, but of an empty
\* directory, which is listed again.
FreshInv ==
    /\ ~listed => children = <<>> /\ gone = {}
    /\ pc = "populate" /\ skipsGone => listed
    /\ ~listed \/ pc = "populate" =>
          /\ diroff = 0 /\ ~partial
          /\ reply.names = <<>>
          /\ reply.err \in {"none", "error"} \/ (Listed = {} /\ reply.from = 0)

\* The loop has made a child of every name it was at, or knows that it is gone.
PopulateInv ==
    /\ pc = "populate" => /\ Range(children) = NamesTo(next - 1) \ gone
                          /\ gone \subseteq NamesTo(next - 1)
    /\ Range(children) \subseteq Listed
    /\ pc = "idle" /\ listed /\ ~partial => children = Expected

\* What the three properties say of a reply.
PagesInv == PagesOfDirectory /\ EOFAtEnd /\ NoFalseEntries

DirInv == DirTypes /\ FreshInv /\ PopulateInv /\ PagesInv

\* A part of a sequence without repeats has none either, and nothing else.
LEMMA PartOfSequence ==
    ASSUME NEW s \in Seq(Names), IsInjective(s),
           NEW low \in 0..Len(s), NEW high \in low..Len(s)
    PROVE  LET part == SubSeq(s, low + 1, high) IN
           /\ Len(part) = high - low /\ DOMAIN part = 1..(high - low)
           /\ IsInjective(part)
           /\ \A i \in DOMAIN part : part[i] \in Range(s)
<1> DEFINE part == SubSeq(s, low + 1, high)
<1>1. /\ part \in Seq(Names) /\ Len(part) = high - low
      /\ \A i \in 1..(high - low) : part[i] = s[low + i]
  <2>1. \A i \in (low + 1)..high : s[i] \in Names
    OBVIOUS
  <2>2. /\ part \in Seq(Names)
        /\ Len(part) = IF low + 1 <= high THEN high - (low + 1) + 1 ELSE 0
        /\ \A i \in 1..(high - (low + 1) + 1) : part[i] = s[low + 1 + i - 1]
    BY <2>1, SubSeqProperties
  <2> HIDE DEF part
  <2>3. QED BY <2>2
<1> HIDE DEF part
<1>2. DOMAIN part = 1..(high - low)
  BY <1>1
<1>3. \A i \in 1..(high - low) : low + i \in DOMAIN s
  OBVIOUS
<1>4. IsInjective(part)
  <2> SUFFICES ASSUME NEW i \in 1..(high - low), NEW j \in 1..(high - low),
                      part[i] = part[j]
               PROVE  i = j
    BY <1>2 DEF IsInjective
  <2>1. s[low + i] = s[low + j]
    BY <1>1
  <2>2. low + i = low + j
    BY <1>3, <2>1 DEF IsInjective
  <2>3. QED BY <2>2
<1>5. \A i \in DOMAIN part : part[i] \in Range(s)
  BY <1>1, <1>2, <1>3 DEF Range
<1>6. QED BY <1>1, <1>2, <1>4, <1>5 DEF part

\* The end of ReadDir takes a page of the children, all the rest, or says that
\* there are no more.
LEMMA ReturnFacts ==
    ASSUME NEW n \in Int, NEW list \in Seq(Names), IsInjective(list),
           diroff \in 0..Len(list), Return(n, list)
    PROVE  /\ pc' = "idle" /\ diroff' \in 0..Len(list)
           /\ IsInjective(reply'.names)
           /\ \A i \in DOMAIN reply'.names : reply'.names[i] \in Range(list)
           /\ reply'.err = "nil" =>
                 LET last == IF reply'.size <= 0 THEN Len(list)
                             ELSE reply'.from + Len(reply'.names) IN
                 reply'.names = SubSeq(list, reply'.from + 1, last)
           /\ reply'.err = "EOF" => reply'.from = Len(list)
           /\ reply'.err \in {"nil", "EOF"} /\ reply'.from = diroff
           /\ Len(list) = 0 => reply'.names = <<>>
<1>1. CASE n > 0 /\ diroff >= Len(list)
  <2>1. reply' = Reply(n, diroff, <<>>, "EOF") /\ diroff' = diroff /\ pc' = "idle"
    BY <1>1 DEF Return
  <2>2. diroff = Len(list)
    BY <1>1
  <2>3. QED BY <2>1, <2>2 DEF Reply, IsInjective
<1>2. CASE ~(n > 0 /\ diroff >= Len(list))
  <2> DEFINE high == IF n <= 0 \/ diroff + n >= Len(list) THEN Len(list) ELSE diroff + n
             part == SubSeq(list, diroff + 1, high)
  <2>1. /\ reply' = Reply(n, diroff, part, "nil")
        /\ diroff' = high /\ pc' = "idle"
    BY <1>2 DEF Return
  <2>2. high \in diroff..Len(list) /\ (n <= 0 => high = Len(list))
    BY <1>2
  <2> HIDE DEF high
  <2>3. /\ Len(part) = high - diroff
        /\ IsInjective(part) /\ \A i \in DOMAIN part : part[i] \in Range(list)
    BY <2>2, PartOfSequence
  <2>4. diroff + Len(part) = high
    BY <2>2, <2>3
  <2>5. n > 0 => part = SubSeq(list, diroff + 1, diroff + Len(part))
    BY <2>4
  <2>6. n <= 0 => part = SubSeq(list, diroff + 1, Len(list))
    BY <2>2
  <2>7. Len(list) = 0 => part = <<>>
    BY <2>2, SubSeqEmpty
  <2> HIDE DEF part
  <2>8. QED BY <2>1, <2>2, <2>3, <2>5, <2>6, <2>7 DEF Reply
<1>3. QED BY <1>1, <1>2

\* Sorted, the children are their names in order.
LEMMA SortedFacts ==
    ASSUME NEW list \in Seq(Names), IsInjective(list)
    PROVE  /\ Sorted(list) = InOrder(Range(list))
           /\ Sorted(list) \in Seq(Names) /\ IsInjective(Sorted(list))
           /\ Range(Sorted(list)) = Range(list) /\ Len(Sorted(list)) = Len(list)
<1>1. list \in Seq(Int)
  <2>1. Names \subseteq Int
    BY PagedDirAssumption
  <2>2. QED BY <2>1, SeqMonotonic
<1>2. /\ Range(list) \in SUBSET Int /\ IsFiniteSet(Range(list))
      /\ Cardinality(Range(list)) = Len(list)
  BY <1>1, RangeSize
<1>3. Sorted(list) = InOrder(Range(list))
  BY <1>1, SortingGivesOrder DEF Sorted
<1>4. Range(list) \subseteq Names
  BY DEF Range
<1>5. /\ InOrder(Range(list)) \in Seq(Range(list))
      /\ Len(InOrder(Range(list))) = Cardinality(Range(list))
      /\ IsInjective(InOrder(Range(list)))
      /\ Range(InOrder(Range(list))) = Range(list)
  BY <1>2, InOrderFacts
<1>6. InOrder(Range(list)) \in Seq(Names)
  BY <1>4, <1>5, SeqMonotonic
<1>7. QED BY <1>2, <1>3, <1>5, <1>6

\* The replies of a handle that has its children.
LEMMA ReturnPages ==
    ASSUME DirInv, NEW n \in Int, NEW list \in Seq(Names), IsInjective(list),
           Range(list) \subseteq Listed, ~partial => list = Expected,
           diroff \in 0..Len(list), Return(n, list), UNCHANGED <<listing, gone, partial>>
    PROVE  PagesInv'
<1>1. Expected' = Expected
  BY DEF Expected
<1>2. PagesOfDirectory' /\ EOFAtEnd'
  BY <1>1, ReturnFacts DEF PagesOfDirectory, EOFAtEnd
<1>3. NoFalseEntries'
  <2>1. /\ IsInjective(reply'.names)
        /\ \A i \in DOMAIN reply'.names : reply'.names[i] \in Listed
    BY ReturnFacts
  <2>2. QED BY <2>1 DEF NoFalseEntries, Listed
<1>4. QED BY <1>2, <1>3 DEF PagesInv

\* One that has failed has no names.
LEMMA ErrorPages ==
    ASSUME NEW n, ReturnError(n)
    PROVE  PagesInv' /\ reply'.names = <<>> /\ reply'.err = "error"
<1>1. reply' = Reply(n, diroff, <<>>, "error")
  BY DEF ReturnError
<1>2. QED
  BY <1>1 DEF PagesInv, PagesOfDirectory, EOFAtEnd, NoFalseEntries, Reply, IsInjective

\* And one that waits for its children promises nothing, or an empty directory.
LEMMA WaitingPages ==
    ASSUME reply.err \in {"none", "error"} \/ (Listed = {} /\ reply.from = 0),
           reply.names = <<>>, reply' = reply, listing' = listing
    PROVE  PagesInv'
<1>1. NoFalseEntries'
  BY DEF NoFalseEntries, IsInjective
<1>2. CASE reply.err \in {"none", "error"}
  BY <1>1, <1>2 DEF PagesInv, PagesOfDirectory, EOFAtEnd
<1>3. CASE Listed = {} /\ reply.from = 0
  <2>1. Expected' = InOrder({})
    BY <1>3 DEF Listed, Expected
  <2>2. Len(InOrder({})) = 0
    BY InOrderFacts, FS_EmptySet
  <2>3. SubSeq(InOrder({}), 1, 0) = <<>> /\ Len(<<>>) = 0
    BY SubSeqEmpty
  <2>4. EOFAtEnd'
    BY <1>3, <2>1, <2>2 DEF EOFAtEnd
  <2>5. PagesOfDirectory'
    <3>1. /\ reply'.names = <<>> /\ reply'.from + 1 = 1
          /\ reply'.from + Len(reply'.names) = 0
      BY <1>3, <2>3
    <3>2. QED BY <2>1, <2>2, <2>3, <3>1 DEF PagesOfDirectory
  <2>6. QED BY <1>1, <2>4, <2>5 DEF PagesInv
<1>4. QED BY <1>2, <1>3

\* A new handle.
LEMMA InitDir == Init => DirInv
<1> SUFFICES ASSUME Init PROVE DirInv
  OBVIOUS
<1>1. listing \in Seq(Entry)
  <2>1. listing \in UNION {[1..m -> Entry] : m \in 0..MaxListing}
    BY DEF Init, SeqOf
  <2>2. PICK m \in 0..MaxListing : listing \in [1..m -> Entry]
    BY <2>1
  <2>3. m \in Nat
    BY PagedDirAssumption
  <2>4. QED
    <3>1. \A S, k : k \in Nat => [1..k -> S] \subseteq Seq(S)
      BY SeqDef
    <3>2. QED BY <2>2, <2>3, <3>1, Zenon
<1>2. DirTypes
  <2>1. Len(listing) \in Nat
    BY <1>1
  <2>2. <<>> \in Seq(Names) /\ IsInjective(<<>>) /\ Len(<<>>) = 0
    BY DEF IsInjective
  <2>3. next \in 1..(Len(listing) + 1) /\ diroff \in 0..Len(children)
    BY <2>1, <2>2 DEF Init
  <2>4. skipsGone \in BOOLEAN /\ gone \subseteq Names /\ size \in Int
    BY DEF Init
  <2>5. /\ listed \in BOOLEAN /\ partial \in BOOLEAN /\ pc \in {"idle", "populate"}
        /\ children = <<>>
    BY DEF Init
  <2>6. QED BY <1>1, <2>2, <2>3, <2>4, <2>5 DEF DirTypes
<1>3. FreshInv
  BY DEF Init, FreshInv, Reply
<1>4. PopulateInv
  BY DEF Init, PopulateInv, Range
<1>5. PagesInv
  BY DEF Init, PagesInv, PagesOfDirectory, EOFAtEnd, NoFalseEntries, Reply, IsInjective
<1>6. QED BY <1>2, <1>3, <1>4, <1>5 DEF DirInv

\* The names the loop has been through grow by the child it is at.
LEMMA NamesGrow ==
    ASSUME DirTypes, More
    PROVE  /\ NamesTo(next) = NamesTo(next - 1) \cup {Child}
           /\ Seen(Child) <=> Child \in NamesTo(next - 1)
           /\ Child \in Listed /\ Child \in Names
           /\ next \in Nat /\ next + 1 \in 1..(Len(listing) + 1)
<1>1. next \in 1..Len(listing) /\ Len(listing) \in Nat /\ DOMAIN listing = 1..Len(listing)
  BY DEF DirTypes, More
<1>2. 1..next = 1..(next - 1) \cup {next}
  BY <1>1
<1>3. NamesTo(next) = {listing[i].name : i \in 1..(next - 1) \cup {next}}
  BY <1>2 DEF NamesTo
<1>4. NamesTo(next) = NamesTo(next - 1) \cup {Child}
  BY <1>3, Zenon DEF NamesTo, Child
<1>5. Seen(Child) <=> Child \in NamesTo(next - 1)
  BY DEF Seen, NamesTo
<1>6. Child \in Listed /\ Child \in Names
  <2>1. listing[next] \in Entry
    BY <1>1, ElementOfSeq DEF DirTypes
  <2>2. QED BY <1>1, <2>1 DEF Listed, Child, Entry
<1>7. QED BY <1>1, <1>4, <1>5, <1>6

\* Every step of the first ReadDir, and of the later ones, keeps all this.
LEMMA CachedKeepsDir ==
    ASSUME DirInv, NEW n \in Int, ReadCached(n), skipsGone' = skipsGone
    PROVE  DirInv'
<1> USE DEF DirInv
<1>1. /\ pc = "idle" /\ listed /\ Return(n, children)
      /\ UNCHANGED <<skipsGone, listing, gone, next, size, listed, partial, children>>
  BY DEF ReadCached
<1>2. pc' = "idle" /\ diroff' \in 0..Len(children)
  BY <1>1, ReturnFacts DEF DirTypes
<1>3. DirTypes'
  BY <1>1, <1>2 DEF DirTypes
<1>4. FreshInv'
  BY <1>1, <1>2 DEF FreshInv
<1>5. PopulateInv'
  BY <1>1, <1>2 DEF PopulateInv, Listed, Expected
<1>6. PagesInv'
  BY <1>1, ReturnPages DEF DirTypes, PopulateInv
<1>7. QED BY <1>3, <1>4, <1>5, <1>6

LEMMA StartKeepsDir ==
    ASSUME DirInv, NEW n \in Int, StartList(n), skipsGone' = skipsGone
    PROVE  DirInv'
<1> USE DEF DirInv
<1>1. /\ pc = "idle" /\ ~listed /\ pc' = "populate"
      /\ next' = 1 /\ size' = n /\ listed' = skipsGone
      /\ UNCHANGED <<skipsGone, listing, gone, partial, children, diroff, reply>>
  BY DEF StartList
<1>2. children = <<>> /\ gone = {}
  BY <1>1 DEF FreshInv
<1>3. DirTypes'
  BY <1>1 DEF DirTypes
<1>4. FreshInv'
  BY <1>1, <1>2 DEF FreshInv, Listed
<1>5. PopulateInv'
  BY <1>1, <1>2 DEF PopulateInv, Listed, NamesTo, Range
<1>6. PagesInv'
  BY <1>1, WaitingPages DEF FreshInv
<1>7. QED BY <1>3, <1>4, <1>5, <1>6

LEMMA ListFailsKeepsDir ==
    ASSUME DirInv, NEW n \in Int, ListFails(n), skipsGone' = skipsGone
    PROVE  DirInv'
<1> USE DEF DirInv
<1>1. /\ pc = "idle" /\ ~listed /\ ReturnError(n) /\ pc' = "idle" /\ diroff' = diroff
      /\ UNCHANGED <<skipsGone, listing, gone, next, size, listed, partial, children>>
  BY DEF ListFails, ReturnError
<1>2. PagesInv' /\ reply'.names = <<>> /\ reply'.err = "error"
  BY <1>1, ErrorPages
<1>3. DirTypes'
  BY <1>1 DEF DirTypes
<1>4. FreshInv'
  BY <1>1, <1>2 DEF FreshInv
<1>5. PopulateInv'
  BY <1>1 DEF PopulateInv, Listed
<1>6. QED BY <1>2, <1>3, <1>4, <1>5

LEMMA SeenKeepsDir ==
    ASSUME DirInv, SkipSeen, skipsGone' = skipsGone
    PROVE  DirInv'
<1> USE DEF DirInv
<1>1. /\ More /\ Seen(Child) /\ pc = "populate" /\ next' = next + 1
      /\ UNCHANGED <<skipsGone, listing, gone, pc, size, listed, partial, children,
                     diroff, reply>>
  BY DEF SkipSeen, More
<1>2. next' - 1 = next /\ NamesTo(next) = NamesTo(next - 1)
  <2>1. /\ NamesTo(next) = NamesTo(next - 1) \cup {Child}
        /\ Child \in NamesTo(next - 1) /\ next \in Nat
    BY <1>1, NamesGrow
  <2>2. QED BY <1>1, <2>1
<1>3. DirTypes'
  BY <1>1, NamesGrow DEF DirTypes
<1>4. FreshInv'
  <2>1. Listed' = Listed
    BY <1>1 DEF Listed
  <2>2. QED BY <1>1, <2>1 DEF FreshInv
<1>5. PopulateInv'
  BY <1>1, <1>2 DEF PopulateInv, Listed, NamesTo
<1>6. PagesInv'
  BY <1>1, WaitingPages DEF FreshInv
<1>7. QED BY <1>3, <1>4, <1>5, <1>6

LEMMA AddKeepsDir ==
    ASSUME DirInv, AddChild, skipsGone' = skipsGone
    PROVE  DirInv'
<1> USE DEF DirInv
<1>1. /\ More /\ ~Seen(Child) /\ pc = "populate" /\ next' = next + 1
      /\ children' = Append(children, Child) /\ listed' = TRUE
      /\ UNCHANGED <<skipsGone, listing, gone, partial, pc, size, diroff, reply>>
  BY DEF AddChild, More
<1>2. /\ next' - 1 = next /\ NamesTo(next) = NamesTo(next - 1) \cup {Child}
      /\ Child \notin NamesTo(next - 1) /\ Child \in Listed /\ Child \in Names
  BY <1>1, NamesGrow
<1>3. Child \notin Range(children) /\ Child \notin gone
  BY <1>1, <1>2 DEF PopulateInv
<1>4. /\ children' \in Seq(Names) /\ IsInjective(children')
      /\ Range(children') = Range(children) \cup {Child}
  BY <1>1, <1>2, <1>3, AppendNew DEF DirTypes
<1>5. diroff = 0
  BY <1>1 DEF FreshInv
<1>6. DirTypes'
  BY <1>1, <1>4, <1>5, NamesGrow DEF DirTypes
<1>7. FreshInv'
  <2>1. Listed' = Listed
    BY <1>1 DEF Listed
  <2>2. QED BY <1>1, <2>1 DEF FreshInv
<1>8. NamesTo(next - 1)' = NamesTo(next) /\ Listed' = Listed
  BY <1>1, <1>2 DEF NamesTo, Listed
<1>9. PopulateInv'
  <2>1. Range(children') = NamesTo(next) \ gone /\ gone \subseteq NamesTo(next)
    BY <1>1, <1>2, <1>3, <1>4 DEF PopulateInv
  <2>2. Range(children') \subseteq Listed
    BY <1>2, <1>4 DEF PopulateInv
  <2>3. QED BY <1>1, <1>8, <2>1, <2>2 DEF PopulateInv
<1>10. PagesInv'
  BY <1>1, WaitingPages DEF FreshInv
<1>11. QED BY <1>6, <1>7, <1>9, <1>10

LEMMA GoneKeepsDir ==
    ASSUME DirInv, SkipGone, skipsGone' = skipsGone
    PROVE  DirInv'
<1> USE DEF DirInv
<1>1. /\ More /\ ~Seen(Child) /\ pc = "populate" /\ next' = next + 1
      /\ skipsGone /\ gone' = gone \cup {Child}
      /\ UNCHANGED <<skipsGone, listing, pc, size, listed, partial, children,
                     diroff, reply>>
  BY DEF SkipGone, More
<1>2. /\ NamesTo(next) = NamesTo(next - 1) \cup {Child}
      /\ Child \notin NamesTo(next - 1) /\ Child \in Names /\ next \in Nat
      /\ next + 1 \in 1..(Len(listing) + 1)
  BY <1>1, NamesGrow
<1>3. DirTypes'
  BY <1>1, <1>2 DEF DirTypes
<1>4. FreshInv'
  <2>1. Listed' = Listed
    BY <1>1 DEF Listed
  <2>2. QED BY <1>1, <2>1 DEF FreshInv
<1>5. NamesTo(next - 1)' = NamesTo(next) /\ Listed' = Listed
  BY <1>1, <1>2 DEF NamesTo, Listed
<1>6. PopulateInv'
  <2>1. Range(children) = NamesTo(next) \ gone' /\ gone' \subseteq NamesTo(next)
    BY <1>1, <1>2 DEF PopulateInv
  <2>2. QED BY <1>1, <1>5, <2>1 DEF PopulateInv
<1>7. PagesInv'
  BY <1>1, WaitingPages DEF FreshInv
<1>8. QED BY <1>3, <1>4, <1>6, <1>7

LEMMA StatFailsKeepsDir ==
    ASSUME DirInv, StatFails, skipsGone' = skipsGone
    PROVE  DirInv'
<1> USE DEF DirInv
<1>1. /\ pc = "populate" /\ partial' = listed /\ ReturnError(size)
      /\ pc' = "idle" /\ diroff' = diroff
      /\ UNCHANGED <<skipsGone, listing, gone, next, size, listed, children>>
  BY DEF StatFails, More, ReturnError
<1>2. PagesInv' /\ reply'.names = <<>> /\ reply'.err = "error"
  BY <1>1, ErrorPages
<1>3. DirTypes'
  BY <1>1 DEF DirTypes
<1>4. FreshInv'
  BY <1>1, <1>2 DEF FreshInv
<1>5. PopulateInv'
  BY <1>1 DEF PopulateInv, Listed
<1>6. QED BY <1>2, <1>3, <1>4, <1>5

LEMMA PopulatedKeepsDir ==
    ASSUME DirInv, Populated, skipsGone' = skipsGone
    PROVE  DirInv'
<1> USE DEF DirInv
<1>1. /\ pc = "populate" /\ next > Len(listing)
      /\ children' = Sorted(children) /\ Return(size, Sorted(children))
      /\ UNCHANGED <<skipsGone, listing, gone, next, size, listed, partial>>
  BY DEF Populated
<1>2. /\ Sorted(children) = InOrder(Range(children))
      /\ Sorted(children) \in Seq(Names) /\ IsInjective(Sorted(children))
      /\ Range(Sorted(children)) = Range(children)
      /\ Len(Sorted(children)) = Len(children)
  BY SortedFacts DEF DirTypes
<1>3. NamesTo(next - 1) = Listed
  <2>1. Len(listing) \in Nat /\ DOMAIN listing = 1..Len(listing)
    BY DEF DirTypes
  <2>2. next - 1 = Len(listing)
    BY <1>1, <2>1 DEF DirTypes
  <2>3. QED BY <2>1, <2>2 DEF NamesTo, Listed
<1>4. Sorted(children) = Expected
  BY <1>1, <1>2, <1>3 DEF PopulateInv, Expected, Listed
<1>5. pc' = "idle" /\ diroff' \in 0..Len(Sorted(children))
  BY <1>1, <1>2, ReturnFacts DEF DirTypes
<1>6. DirTypes'
  BY <1>1, <1>2, <1>5 DEF DirTypes
<1>7. FreshInv'
  <2> SUFFICES ASSUME ~listed PROVE FreshInv'
    BY <1>1, <1>5 DEF FreshInv
  <2>1. /\ children = <<>> /\ Len(children) = 0 /\ Range(children) = {}
        /\ gone = {} /\ diroff = 0 /\ ~partial
    BY <1>1 DEF FreshInv, Range
  <2>2. Listed = {}
    BY <1>1, <1>3, <2>1 DEF PopulateInv
  <2>3. reply'.names = <<>> /\ reply'.from = 0
    BY <1>1, <1>2, <2>1, ReturnFacts DEF DirTypes
  <2>4. Sorted(children) = <<>> /\ diroff' = 0
    BY <1>2, <1>5, <2>1
  <2>5. QED BY <1>1, <1>5, <2>1, <2>2, <2>3, <2>4 DEF FreshInv, Listed
<1>8. PopulateInv'
  BY <1>1, <1>2, <1>4, <1>5 DEF PopulateInv, Listed, Expected
<1>9. PagesInv'
  BY <1>1, <1>2, <1>4, ReturnPages DEF DirTypes, PopulateInv
<1>10. QED BY <1>6, <1>7, <1>8, <1>9

LEMMA StutterKeepsDir ==
    ASSUME DirInv, UNCHANGED vars
    PROVE  DirInv'
<1> USE DEF DirInv, vars
<1>1. Listed' = Listed
  BY DEF Listed
<1>2. DirTypes' /\ FreshInv'
  BY <1>1 DEF DirTypes, FreshInv
<1>3. PopulateInv'
  BY <1>1 DEF PopulateInv, NamesTo, Expected
<1>4. PagesInv'
  BY DEF PagesInv, PagesOfDirectory, EOFAtEnd, NoFalseEntries, Expected
<1>5. QED BY <1>2, <1>3, <1>4

LEMMA NextDir == DirInv /\ [Next]_vars => DirInv'
<1> SUFFICES ASSUME DirInv, [Next]_vars PROVE DirInv'
  OBVIOUS
<1>1. CASE UNCHANGED vars
  BY <1>1, StutterKeepsDir
<1>2. ASSUME skipsGone' = skipsGone, NEW n \in PageSizes,
             ReadCached(n) \/ StartList(n) \/ ListFails(n)
      PROVE  DirInv'
  <2>1. n \in Int
    BY PagedDirAssumption
  <2>2. QED BY <1>2, <2>1, CachedKeepsDir, StartKeepsDir, ListFailsKeepsDir
<1>3. CASE /\ skipsGone' = skipsGone
           /\ SkipSeen \/ AddChild \/ SkipGone \/ StatFails \/ Populated
  BY <1>3, SeenKeepsDir, AddKeepsDir, GoneKeepsDir, StatFailsKeepsDir, PopulatedKeepsDir
<1>4. QED BY <1>1, <1>2, <1>3 DEF Next

LEMMA DirInvariant == Spec => []DirInv
  BY InitDir, NextDir, PTL DEF Spec

\* The pages of a directory are the directory, in order, for any listing with
\* repeats and nested names, any children that are gone and any failed Stat
\* before the children were complete.
THEOREM PagesAreOfDirectory == Spec => []PagesOfDirectory
<1>1. DirInv => PagesOfDirectory
  BY DEF DirInv, PagesInv
<1>2. QED BY <1>1, DirInvariant, PTL

\* io.EOF comes at the end of the directory.
THEOREM EOFIsTheEnd == Spec => []EOFAtEnd
<1>1. DirInv => EOFAtEnd
  BY DEF DirInv, PagesInv
<1>2. QED BY <1>1, DirInvariant, PTL

\* No page has a name twice or one the backend did not list, a Stat that failed
\* or not.
THEOREM EntriesAreReal == Spec => []NoFalseEntries
<1>1. DirInv => NoFalseEntries
  BY DEF DirInv, PagesInv
<1>2. QED BY <1>1, DirInvariant, PTL

\* A handle that has given a page has its children, and no step changes them.
THEOREM CursorsAreStable == Spec => CursorStable
<1>1. DirInv /\ [Next]_vars => [diroff > 0 => children' = children]_vars
  <2> SUFFICES ASSUME DirInv, Next, diroff > 0 PROVE children' = children
    OBVIOUS
  <2>1. pc = "idle" /\ listed
    BY DEF DirInv, DirTypes, FreshInv
  <2>2. QED
    BY <2>1 DEF Next, ReadCached, StartList, ListFails, SkipSeen, AddChild, SkipGone,
                StatFails, Populated, More
<1>2. QED BY <1>1, DirInvariant, PTL DEF Spec, CursorStable

-----------------------------------------------------------------------------
(* The walk through the metadata of an instance *)

\* The segments of paths; the provers do not know that the names in the code are
\* strings.
Segments ==
    STRING \cup InstanceNames \cup AccountNames
       \cup {"user-data", "dynamic", "meta-data", "instance", "project", ""}

Trail == Seq(Segments)

Refusals == Disabled \cup Audience

WalkTypes ==
    /\ service \in DOMAIN Documents /\ docs \subseteq Documents[service]
    /\ top \in Tops[service]
    /\ left \subseteq Trail /\ dir \in Trail /\ names \subseteq Segments
    /\ files \subseteq Trail /\ failed \in BOOLEAN /\ fellBack \in BOOLEAN

\* The walk goes to directories, and to none below one that is refused.
WayInv ==
    /\ \A p \in left : p # NoDir /\ (p = top \/ Known(service, p))
    /\ \A p \in left, r \in Refusals : r = p \/ ~IsPrefix(r, p)
    /\ dir # NoDir => dir \in left /\ dir # <<>> /\ (dir \in Refusals => names = {})

\* While no listing has failed a document has been found, or is on the way, or is
\* one of those that the walk leaves out; a listing has the names for it.
CoverInv ==
    /\ ~failed =>
          \A doc \in docs : IsPrefix(top, doc) =>
              doc \in files \/ LeftOut(doc) \/ \E p \in left : IsPrefix(p, doc)
    /\ dir # NoDir =>
          \A doc \in docs : IsPrefix(dir, doc) =>
              \/ Len(dir) < Len(doc) /\ doc[Len(dir) + 1] \in names
              \/ LeftOut(doc)

\* Nothing is below a file that the walk has come to.
FilesInv == \A file \in files : DocsBelow(file) = {} \/ Within(file, Unknown)

WalkInv == WalkTypes /\ WayInv /\ CoverInv /\ FilesInv

-----------------------------------------------------------------------------
(* Prefixes *)

\* A path over some segments is one over more.
LEMMA StringPaths ==
    ASSUME NEW S, NEW T, S \subseteq T, NEW p \in Seq(S)
    PROVE  p \in Seq(T)
  OBVIOUS

\* A path of one segment.
LEMMA OneSegment ==
    ASSUME NEW S, NEW s \in S
    PROVE  <<s>> \in Seq(S) /\ Len(<<s>>) = 1 /\ <<s>>[1] = s
  OBVIOUS

LEMMA PrefixMeans ==
    ASSUME NEW p \in Trail, NEW d \in Trail
    PROVE  IsPrefix(p, d) <=> Len(p) <= Len(d) /\ \A i \in 1..Len(p) : p[i] = d[i]
<1>1. Len(p) \in Nat /\ Len(d) \in Nat /\ SubSeq(p, 1, Len(p)) = p
  BY DEF Trail
<1>2. ASSUME Len(p) <= Len(d)
      PROVE  SubSeq(d, 1, Len(p)) = [i \in 1..Len(p) |-> d[i]]
  BY <1>1, <1>2 DEF Trail
<1>3. p = [i \in 1..Len(p) |-> p[i]]
  BY <1>1 DEF Trail
<1>4. ASSUME Len(p) <= Len(d), \A i \in 1..Len(p) : p[i] = d[i]
      PROVE  [i \in 1..Len(p) |-> d[i]] = [i \in 1..Len(p) |-> p[i]]
  BY <1>4
<1>5. ASSUME IsPrefix(p, d), NEW i \in 1..Len(p)
      PROVE  p[i] = d[i]
  BY <1>1, <1>2, <1>5 DEF IsPrefix
<1> QED  BY <1>1, <1>2, <1>3, <1>4, <1>5 DEF IsPrefix

LEMMA PrefixGoesOn ==
    ASSUME NEW p \in Trail, NEW q \in Trail, NEW d \in Trail,
           IsPrefix(p, q), IsPrefix(q, d)
    PROVE  IsPrefix(p, d)
  BY PrefixMeans DEF Trail

\* The path one name further down.
LEMMA ChildFacts ==
    ASSUME NEW p \in Trail, NEW name \in Segments
    PROVE  LET child == p \o <<name>> IN
           /\ child \in Trail /\ Len(child) = Len(p) + 1
           /\ child[Len(p) + 1] = name
           /\ \A i \in 1..Len(p) : child[i] = p[i]
           /\ \A r \in Trail : IsPrefix(r, child) => r = child \/ IsPrefix(r, p)
<1> DEFINE child == p \o <<name>>
<1>1. /\ child \in Trail /\ Len(child) = Len(p) + 1 /\ child[Len(p) + 1] = name
      /\ \A i \in 1..Len(p) : child[i] = p[i]
  BY DEF Trail
<1> HIDE DEF child
<1>2. ASSUME NEW r \in Trail, IsPrefix(r, child), ~IsPrefix(r, p)
      PROVE  r = child
  <2>1. Len(r) <= Len(child) /\ \A i \in 1..Len(r) : r[i] = child[i]
    BY <1>1, <1>2, PrefixMeans
  <2>2. ~(Len(r) <= Len(p))
    BY <1>1, <1>2, <2>1, PrefixMeans DEF Trail
  <2>3. Len(r) = Len(child)
    BY <1>1, <2>1, <2>2 DEF Trail
  <2> QED  BY <1>1, <2>1, <2>3, SeqEqual DEF Trail
<1> QED  BY <1>1, <1>2 DEF child

\* A document below a directory is below, or is, one of its children.
LEMMA ChildOf ==
    ASSUME NEW p \in Trail, NEW d \in Trail, IsPrefix(p, d), Len(p) < Len(d)
    PROVE  LET child == p \o <<d[Len(p) + 1]>> IN
           IsPrefix(child, d) /\ (Len(child) = Len(d) => child = d)
<1> DEFINE child == p \o <<d[Len(p) + 1]>>
<1>1. Len(p) \in Nat /\ Len(d) \in Nat /\ d[Len(p) + 1] \in Segments
  BY DEF Trail
<1>2. /\ child \in Trail /\ Len(child) = Len(p) + 1 /\ child[Len(p) + 1] = d[Len(p) + 1]
      /\ \A i \in 1..Len(p) : child[i] = p[i]
  BY <1>1, ChildFacts
<1> HIDE DEF child
<1>3. \A i \in 1..Len(p) : p[i] = d[i]
  BY PrefixMeans
<1>4. \A i \in 1..Len(child) : child[i] = d[i]
  BY <1>1, <1>2, <1>3
<1>5. Len(child) = Len(d) => child = d
  BY <1>2, <1>4, SeqEqual DEF Trail
<1>6. Len(child) <= Len(d)
  BY <1>1, <1>2
<1>7. IsPrefix(child, d)
  BY <1>2, <1>4, <1>6, PrefixMeans
<1> QED  BY <1>5, <1>7 DEF child

-----------------------------------------------------------------------------
(* What is assumed of the services *)

LEMMA ServiceFacts ==
    ASSUME WalkTypes
    PROVE  /\ docs \subseteq Trail /\ <<>> \notin docs
           /\ top \in Trail /\ top # NoDir /\ top \notin docs
           /\ Refusals \subseteq Trail /\ Unknown \subseteq Trail
           /\ \A r \in Refusals : Len(r) > 1 /\ ~Account(r)
           /\ \A r \in Refusals : r = top \/ ~IsPrefix(r, top)
           /\ \A doc \in docs : ~Known(service, doc)
<1>1. Seq(STRING) \subseteq Trail
  <2>1. STRING \subseteq Segments
    BY DEF Segments
  <2> QED  BY <2>1, StringPaths DEF Trail
<1>2. Refusals \subseteq Trail /\ \A r \in Refusals : Len(r) > 1 /\ ~Account(r)
  BY <1>1, ServiceAssumption DEF Refusals
<1>3. Unknown \subseteq Trail
  BY <1>1, ServiceAssumption
<1>4. \A doc \in docs : doc \in Trail /\ doc # <<>> /\ ~Known(service, doc) /\ doc # top
  BY <1>1, ServiceAssumption DEF WalkTypes
<1>5. top \in Trail /\ top # NoDir /\ \A r \in Refusals : r = top \/ ~IsPrefix(r, top)
  BY <1>1, ServiceAssumption DEF WalkTypes, Refusals
<1> QED  BY <1>2, <1>3, <1>4, <1>5

\* The paths of one segment.
LEMMA OneName ==
    ASSUME NEW name \in Segments
    PROVE  <<name>> \in Trail /\ Len(<<name>>) = 1 /\ <<name>>[1] = name
  BY OneSegment DEF Trail

LEMMA NoDirTrail == NoDir \in Trail /\ Len(NoDir) = 1
<1>1. "" \in Segments
  BY DEF Segments
<1> QED  BY <1>1, OneName DEF NoDir

\* What is above a document is a directory the code knows, or one that it does not.
LEMMA AboveDocument ==
    ASSUME WalkTypes, NEW doc \in docs, NEW p \in Trail,
           IsPrefix(p, doc), p # <<>>, Len(p) < Len(doc)
    PROVE  Known(service, p) \/ Within(p, Unknown) \/ Within(p, Refusals)
<1>1. doc \in Trail
  BY ServiceFacts
<1>2. Len(p) \in 1..(Len(doc) - 1)
  BY <1>1 DEF Trail
<1>3. SubSeq(doc, 1, Len(p)) = p
  <2>1. SubSeq(p, 1, Len(p)) = p
    BY DEF Trail
  <2> QED  BY <2>1 DEF IsPrefix
<1>4. Known(service, p) \/ Within(p, Unknown \cup Disabled \cup Audience)
  <2>1. service \in DOMAIN Documents /\ doc \in Documents[service]
    BY DEF WalkTypes
  <2>2. \A n \in 1..(Len(doc) - 1) :
           Known(service, SubSeq(doc, 1, n))
              \/ Within(SubSeq(doc, 1, n), Unknown \cup Disabled \cup Audience)
    BY <2>1, ServiceAssumption, Zenon
  <2> QED  BY <1>2, <1>3, <2>2
<1> QED  BY <1>4 DEF Within, Refusals

\* What is below a path that is left out is left out.
LEMMA LeftOutBelow ==
    ASSUME WalkTypes, NEW doc \in docs, NEW p \in Trail, IsPrefix(p, doc),
           Within(p, Unknown) \/ Within(p, Refusals)
    PROVE  LeftOut(doc)
<1>1. doc \in Trail /\ Unknown \subseteq Trail /\ Refusals \subseteq Trail
  BY ServiceFacts
<1>2. Within(doc, Unknown) \/ Within(doc, Refusals)
  BY <1>1, PrefixGoesOn DEF Within
<1> QED  BY <1>2 DEF LeftOut, Refusals

\* Documents go, and names are known by heart, for good.
LEMMA LeftOutStays ==
    ASSUME NEW doc, service' = service, fellBack => fellBack', LeftOut(doc)
    PROVE  LeftOut(doc)'
  BY DEF LeftOut

LEMMA FewerBelow ==
    ASSUME NEW file, docs' \subseteq docs, DocsBelow(file) = {} \/ Within(file, Unknown)
    PROVE  (DocsBelow(file) = {} \/ Within(file, Unknown))'
  BY DEF DocsBelow, Within

LEMMA CurrentFacts ==
    ASSUME left # {}
    PROVE  Current \in left
  BY DEF Current

-----------------------------------------------------------------------------
(* The invariant *)

LEMMA InitWalkInv == InitWalk => WalkInv
<1> SUFFICES ASSUME InitWalk PROVE WalkInv
  OBVIOUS
<1>1. WalkTypes
  <2>1. top \in Trail
    <3>1. top \in Seq(STRING)
      BY ServiceAssumption DEF InitWalk
    <3>2. STRING \subseteq Segments
      BY DEF Segments
    <3> QED  BY <3>1, <3>2, StringPaths DEF Trail
  <2> QED  BY <2>1, NoDirTrail DEF InitWalk, WalkTypes
<1>2. WayInv
  BY <1>1, ServiceFacts DEF InitWalk, WayInv
<1>3. CoverInv /\ FilesInv
  BY DEF InitWalk, CoverInv, FilesInv
<1> QED  BY <1>1, <1>2, <1>3 DEF WalkInv

\* A step that takes nothing from the walk's way but documents that are gone.
LEMMA VanishKeeps ==
    ASSUME WalkInv, NEW doc \in docs, Vanish(doc)
    PROVE  WalkInv'
<1> USE DEF WalkInv
<1>1. /\ docs' \subseteq docs
      /\ UNCHANGED <<service, top, left, dir, names, files, failed, fellBack>>
  BY DEF Vanish
<1>2. WalkTypes' /\ WayInv'
  BY <1>1 DEF WalkTypes, WayInv
<1>3. CoverInv'
  BY <1>1, LeftOutStays DEF CoverInv
<1>4. FilesInv'
  BY <1>1, FewerBelow DEF FilesInv
<1> QED  BY <1>2, <1>3, <1>4

\* After a listing that failed nothing is promised but what the walk is about.
LEMMA FailKeeps ==
    ASSUME WalkInv, Fail
    PROVE  WalkInv'
<1> USE DEF WalkInv
<1>1. /\ failed' = TRUE /\ left' \subseteq left /\ dir' = NoDir /\ names' = {}
      /\ UNCHANGED <<service, docs, top, files, fellBack>>
  BY DEF Fail
<1>2. WalkTypes'
  BY <1>1, NoDirTrail DEF WalkTypes
<1>3. WayInv' /\ CoverInv'
  BY <1>1 DEF WayInv, CoverInv
<1>4. FilesInv'
  BY <1>1, FewerBelow DEF FilesInv
<1> QED  BY <1>2, <1>3, <1>4

\* The root is listed without a request.
LEMMA ListRootKeeps ==
    ASSUME WalkInv, ListRoot
    PROVE  WalkInv'
<1> USE DEF WalkInv
<1> DEFINE tops == IF service = "aws" THEN {"dynamic", "meta-data"}
                   ELSE {"instance", "project"}
           found == IF service = "aws" THEN {<<"user-data">>} ELSE {}
<1>1. /\ dir = NoDir /\ <<>> \in left
      /\ left' = (left \ {<<>>}) \cup {<<t>> : t \in tops}
      /\ files' = files \cup found
      /\ UNCHANGED <<service, docs, top, dir, names, failed, fellBack>>
  BY CurrentFacts DEF ListRoot
<1>2. tops \subseteq Segments /\ \A t \in tops : t # ""
  BY DEF Segments
<1>3. \A t \in tops : Known(service, <<t>>) /\ <<t>> # NoDir
  BY DEF Known, IMDSDirectory, MetadataDirectory, NoDir
<1>4. found \subseteq Trail
  <2>1. "user-data" \in Segments
    BY DEF Segments
  <2> QED  BY <2>1, OneName
<1> HIDE DEF tops, found
<1>5. ASSUME NEW t \in tops
      PROVE  <<t>> \in Trail /\ Len(<<t>>) = 1 /\ <<t>>[1] = t
  BY <1>2, OneName
<1>6. WalkTypes'
  BY <1>1, <1>4, <1>5 DEF WalkTypes
<1>7. WayInv'
  <2>1. ASSUME NEW t \in tops, NEW r \in Refusals PROVE ~IsPrefix(r, <<t>>)
    <3>1. r \in Trail /\ Len(r) > 1 /\ <<t>> \in Trail /\ Len(<<t>>) = 1
      BY <1>5, ServiceFacts
    <3>2. ~(Len(r) <= Len(<<t>>))
      BY <3>1 DEF Trail
    <3> QED  BY <3>1, <3>2, PrefixMeans
  <2>2. \A p \in left', r \in Refusals : r = p \/ ~IsPrefix(r, p)
    BY <1>1, <2>1 DEF WayInv
  <2>3. \A p \in left' : p # NoDir /\ (p = top \/ Known(service, p))
    BY <1>1, <1>3 DEF WayInv
  <2> QED  BY <1>1, <2>2, <2>3 DEF WayInv
<1>8. ASSUME NEW doc \in docs
      PROVE  doc \in found \/ \E t \in tops : IsPrefix(<<t>>, doc)
  <2>1. doc \in Trail /\ doc # <<>>
    BY ServiceFacts
  <2>2. \/ service = "aws" /\ doc = <<"user-data">>
        \/ doc[1] \in tops
    BY ServiceAssumption DEF WalkTypes, tops
  <2>3. CASE doc[1] \in tops
    <3>1. <<doc[1]>> \in Trail /\ Len(<<doc[1]>>) = 1 /\ <<doc[1]>>[1] = doc[1]
      BY <1>5, <2>3
    <3>2. Len(<<doc[1]>>) <= Len(doc)
      BY <2>1, <3>1 DEF Trail
    <3>3. \A i \in 1..Len(<<doc[1]>>) : <<doc[1]>>[i] = doc[i]
      BY <3>1
    <3>4. IsPrefix(<<doc[1]>>, doc)
      BY <2>1, <3>1, <3>2, <3>3, PrefixMeans
    <3> QED  BY <2>3, <3>4
  <2> QED  BY <2>2, <2>3 DEF found
<1>9. CoverInv'
  <2>1. ASSUME NEW doc \in docs, ~failed, IsPrefix(top, doc)
        PROVE  doc \in files' \/ LeftOut(doc)' \/ \E p \in left' : IsPrefix(p, doc)
    BY <1>1, <1>8
  <2> QED  BY <1>1, <2>1 DEF CoverInv
<1>10. FilesInv'
  <2>1. ASSUME NEW file \in found PROVE DocsBelow(file) = {}
    <3>1. service = "aws" /\ file = <<"user-data">>
      BY <2>1 DEF found
    <3>2. file \in Trail /\ Len(file) = 1 /\ file[1] = "user-data"
      <4>1. "user-data" \in Segments
        BY DEF Segments
      <4> QED  BY <3>1, <4>1, OneName
    <3>3. ASSUME NEW doc \in docs, Len(doc) > 1, IsPrefix(file, doc) PROVE FALSE
      <4>1. doc \in Trail /\ doc[1] = "user-data" /\ doc # file
        BY <3>2, <3>3, ServiceFacts, PrefixMeans
      <4>2. doc[1] \in {"dynamic", "meta-data"}
        BY <3>1, <4>1, ServiceAssumption DEF WalkTypes
      <4> QED  BY <4>1, <4>2
    <3> QED  BY <3>2, <3>3 DEF DocsBelow
  <2> QED  BY <1>1, <2>1, FewerBelow DEF FilesInv, DocsBelow
<1> QED  BY <1>6, <1>7, <1>9, <1>10

\* A directory's names are asked for, or are those that the code knows by heart.
LEMMA TakeKeeps ==
    ASSUME WalkInv, NEW found \in SUBSET Segments, NEW fallBack \in BOOLEAN,
           dir = NoDir, left # {}, Current # <<>>, Take(found, fallBack),
           Current \in Refusals => found = {},
           \A doc \in docs : IsPrefix(Current, doc) =>
               \/ Len(Current) < Len(doc) /\ doc[Len(Current) + 1] \in found
               \/ LeftOut(doc)'
    PROVE  WalkInv'
<1> USE DEF WalkInv
<1>1. /\ dir' = Current /\ names' = found /\ fellBack' = (fellBack \/ fallBack)
      /\ UNCHANGED <<service, docs, top, left, files, failed>>
  BY DEF Take
<1>2. Current \in left
  BY CurrentFacts
<1>3. WalkTypes'
  BY <1>1, <1>2 DEF WalkTypes
<1>4. WayInv'
  BY <1>1, <1>2 DEF WayInv
<1>5. CoverInv'
  <2>1. ASSUME NEW doc \in docs, ~failed, IsPrefix(top, doc)
        PROVE  doc \in files \/ LeftOut(doc)' \/ \E p \in left : IsPrefix(p, doc)
    BY <1>1, <2>1, LeftOutStays DEF CoverInv
  <2>2. ASSUME NEW doc \in docs, IsPrefix(dir', doc)
        PROVE  \/ Len(dir') < Len(doc) /\ doc[Len(dir') + 1] \in names'
               \/ LeftOut(doc)'
    BY <1>1, <2>2
  <2> QED  BY <1>1, <2>1, <2>2 DEF CoverInv
<1>6. FilesInv'
  BY <1>1, FewerBelow DEF FilesInv
<1> QED  BY <1>3, <1>4, <1>5, <1>6

\* A document in a directory is below it: no directory is a document.
LEMMA DocumentBelow ==
    ASSUME WalkInv, NEW p \in left, NEW doc \in docs, IsPrefix(p, doc)
    PROVE  p \in Trail /\ doc \in Trail /\ Len(p) < Len(doc)
           /\ \A i \in 1..Len(p) : p[i] = doc[i]
<1>1. p \in Trail /\ doc \in Trail
  BY ServiceFacts DEF WalkInv, WalkTypes
<1>2. Len(p) <= Len(doc) /\ \A i \in 1..Len(p) : p[i] = doc[i]
  BY <1>1, PrefixMeans
<1>3. p # doc
  BY ServiceFacts DEF WalkInv, WayInv
<1>4. Len(p) # Len(doc)
  BY <1>1, <1>2, <1>3, SeqEqual DEF Trail
<1> QED  BY <1>1, <1>2, <1>4 DEF Trail

LEMMA FetchNamesKeeps ==
    ASSUME WalkInv, FetchNames
    PROVE  WalkInv'
<1> DEFINE below == {doc[Len(Current) + 1] : doc \in DocsBelow(Current)}
<1>1. dir = NoDir /\ left # {} /\ Current # <<>>
  BY DEF FetchNames
<1>2. Current \in left /\ Current \in Trail
  BY <1>1, CurrentFacts DEF WalkInv, WalkTypes
<1>3. CASE service = "gcp" /\ Account(Current)
  <2>1. Take(AccountNames, FALSE) /\ service' = service
    BY <1>3 DEF FetchNames, Take
  <2>2. Current \notin Refusals
    BY <1>3, ServiceFacts DEF WalkInv
  <2>3. Len(Current) = 3
    BY <1>3 DEF Account
  <2>4. ASSUME NEW doc \in docs, IsPrefix(Current, doc), doc[4] \notin AccountNames
        PROVE  LeftOut(doc)
    <3>1. doc \in Trail /\ Len(doc) > 3 /\ SubSeq(Current, 1, 3) = SubSeq(doc, 1, 3)
      BY <1>2, <2>3, <2>4, DocumentBelow DEF IsPrefix
    <3>2. SubSeq(Current, 1, 3) = Current
      BY <1>2, <2>3 DEF Trail
    <3> QED  BY <1>3, <2>4, <3>1, <3>2 DEF LeftOut
  <2>5. ASSUME NEW doc \in docs, IsPrefix(Current, doc)
        PROVE  \/ Len(Current) < Len(doc) /\ doc[Len(Current) + 1] \in AccountNames
               \/ LeftOut(doc)'
    <3>1. Len(Current) < Len(doc)
      BY <1>2, <2>5, DocumentBelow
    <3>2. fellBack => fellBack'
      BY <2>1 DEF Take
    <3> QED  BY <2>1, <2>3, <2>4, <2>5, <3>1, <3>2, LeftOutStays
  <2>6. AccountNames \subseteq Segments
    BY DEF Segments
  <2> QED  BY <1>1, <2>1, <2>2, <2>5, <2>6, TakeKeeps
<1>4. CASE Answer(Current) = "text" /\ Take(below, FALSE)
  <2>1. Current \notin Refusals
    BY <1>4 DEF Answer, Refusals, Refused
  <2>2. ASSUME NEW doc \in docs, IsPrefix(Current, doc)
        PROVE  Len(Current) < Len(doc) /\ doc[Len(Current) + 1] \in below
    BY <1>2, <2>2, DocumentBelow DEF DocsBelow
  <2>3. below \subseteq Segments
    <3>1. ASSUME NEW doc \in DocsBelow(Current) PROVE doc[Len(Current) + 1] \in Segments
      <4>1. doc \in Trail /\ Len(Current) \in Nat /\ Len(doc) > Len(Current)
        BY <1>2, ServiceFacts DEF WalkInv, DocsBelow, Trail
      <4> QED  BY <4>1 DEF Trail
    <3> QED  BY <3>1
  <2> HIDE DEF below
  <2> QED  BY <1>1, <1>4, <2>1, <2>2, <2>3, TakeKeeps
<1>5. CASE Refused(Current) /\ Take({}, FALSE)
  <2>1. ASSUME NEW doc \in docs, IsPrefix(Current, doc) PROVE LeftOut(doc)'
    <3>1. Within(Current, Refusals)
      <4>1. Current \in Refusals /\ IsPrefix(Current, Current)
        BY <1>2, <1>5, PrefixMeans DEF Refused, Refusals, Trail
      <4> QED  BY <4>1 DEF Within
    <3>2. LeftOut(doc)
      BY <1>2, <2>1, <3>1, LeftOutBelow DEF WalkInv
    <3> QED  BY <1>5, <3>2, LeftOutStays DEF Take
  <2> QED  BY <1>1, <1>5, <2>1, TakeKeeps
<1> QED  BY <1>3, <1>4, <1>5 DEF FetchNames

LEMMA FetchFailsKeeps ==
    ASSUME WalkInv, FetchFails
    PROVE  WalkInv'
<1>1. dir = NoDir /\ left # {} /\ Current # <<>> /\ ~Refused(Current)
  BY DEF FetchFails
<1>2. Current \in left /\ Current \in Trail
  BY <1>1, CurrentFacts DEF WalkInv, WalkTypes
<1>3. CASE service = "gcp" /\ Current = <<"instance">> /\ Take(InstanceNames, TRUE)
  <2>1. Current \notin Refusals
    BY <1>1 DEF Refused, Refusals
  <2>2. Len(Current) = 1 /\ Current[1] = "instance"
    BY <1>3
  <2>3. ASSUME NEW doc \in docs, IsPrefix(Current, doc)
        PROVE  \/ Len(Current) < Len(doc) /\ doc[Len(Current) + 1] \in InstanceNames
               \/ LeftOut(doc)'
    <3>1. Len(doc) > 1 /\ doc[1] = "instance"
      BY <1>2, <2>2, <2>3, DocumentBelow
    <3>2. service' = "gcp" /\ fellBack'
      BY <1>3 DEF Take
    <3> QED  BY <2>2, <3>1, <3>2 DEF LeftOut
  <2>4. InstanceNames \subseteq Segments
    BY DEF Segments
  <2> QED  BY <1>1, <1>3, <2>1, <2>3, <2>4, TakeKeeps
<1>4. CASE Fail
  BY <1>4, FailKeeps
<1> QED  BY <1>3, <1>4 DEF FetchFails

\* The children of a directory: the directories among them are on the way, the
\* others have been found.
LEMMA PopulateKeeps ==
    ASSUME WalkInv, PopulateChildren
    PROVE  WalkInv'
<1> USE DEF WalkInv
<1> DEFINE dirs == {child \in Children : StatOf(child) = "dir"}
           docsFound == {child \in Children : StatOf(child) = "file"}
<1>1. /\ dir # NoDir /\ left' = (left \ {dir}) \cup dirs /\ files' = files \cup docsFound
      /\ dir' = NoDir /\ names' = {}
      /\ UNCHANGED <<service, docs, top, failed, fellBack>>
  BY DEF PopulateChildren
<1>2. dir \in left /\ dir \in Trail /\ dir # <<>> /\ Len(dir) \in Nat \ {0}
  <2>1. dir \in left /\ dir \in Trail /\ dir # <<>>
    BY <1>1 DEF WayInv, WalkTypes
  <2> QED  BY <2>1 DEF Trail
<1>3. ASSUME NEW child \in Children
      PROVE  /\ child \in Trail /\ Len(child) = Len(dir) + 1
             /\ \A r \in Refusals : IsPrefix(r, child) => r = child
  <2>1. PICK name \in names : child = dir \o <<name>>
    BY DEF Children
  <2>2. name \in Segments /\ dir \notin Refusals
    BY <1>1 DEF WalkTypes, WayInv
  <2>3. /\ child \in Trail /\ Len(child) = Len(dir) + 1
        /\ \A r \in Trail : IsPrefix(r, child) => r = child \/ IsPrefix(r, dir)
    BY <1>2, <2>1, <2>2, ChildFacts
  <2> QED  BY <1>2, <2>2, <2>3, ServiceFacts DEF WayInv
<1>4. \A child \in Children : StatOf(child) = "dir" <=> Known(service, child)
  BY DEF StatOf, IsDirectory
<1>5. WalkTypes'
  BY <1>1, <1>3, NoDirTrail DEF WalkTypes
<1>6. WayInv'
  <2>1. ASSUME NEW child \in dirs PROVE child # NoDir /\ Known(service, child)
    <3>0. child \in Children /\ StatOf(child) = "dir"
      OBVIOUS
    <3>1. Len(child) = Len(dir) + 1
      BY <1>3, <3>0
    <3>2. Len(child) # 1
      BY <1>2, <3>1
    <3>3. child # NoDir
      BY <3>2, NoDirTrail, Zenon
    <3> QED  BY <1>4, <3>0, <3>3
  <2> QED  BY <1>1, <1>3, <2>1 DEF WayInv
<1>7. ASSUME NEW doc \in docs, IsPrefix(dir, doc), ~LeftOut(doc)
      PROVE  doc \in docsFound \/ \E p \in dirs : IsPrefix(p, doc)
  <2>1. doc \in Trail /\ Len(dir) < Len(doc) /\ doc[Len(dir) + 1] \in names
    BY <1>1, <1>7, ServiceFacts DEF CoverInv
  <2> DEFINE child == dir \o <<doc[Len(dir) + 1]>>
  <2>2. child \in Children
    BY <2>1 DEF Children
  <2>3. IsPrefix(child, doc) /\ (Len(child) = Len(doc) => child = doc)
    BY <1>2, <1>7, <2>1, ChildOf
  <2> HIDE DEF child
  <2>4. child \in Trail /\ Len(child) = Len(dir) + 1
    BY <1>3, <2>2
  <2>5. ~Within(child, Unknown) /\ ~Within(child, Refusals)
    BY <1>7, <2>3, <2>4, LeftOutBelow
  <2>6. CASE Known(service, child)
    BY <1>4, <2>2, <2>3, <2>6
  <2>7. CASE ~Known(service, child)
    <3>1. child # <<>>
      BY <1>2, <2>4
    <3>2. ~(Len(child) < Len(doc))
      BY <2>3, <2>4, <2>5, <2>7, <3>1, AboveDocument
    <3>3. child = doc
      BY <1>2, <2>1, <2>3, <2>4, <3>2 DEF Trail
    <3>4. child \notin Refusals
      <4>1. IsPrefix(child, child)
        BY <2>4, PrefixMeans DEF Trail
      <4> QED  BY <2>5, <4>1 DEF Within
    <3>5. Answer(child) = "text"
      BY <3>3, <3>4 DEF Answer, Refused, Refusals
    <3>6. StatOf(child) = "file"
      BY <2>7, <3>5 DEF StatOf, IsDirectory
    <3> QED  BY <2>2, <3>3, <3>6
  <2> QED  BY <2>6, <2>7
<1>8. CoverInv'
  <2>1. ASSUME NEW doc \in docs, ~failed, IsPrefix(top, doc)
        PROVE  doc \in files' \/ LeftOut(doc)' \/ \E p \in left' : IsPrefix(p, doc)
    <3>1. LeftOut(doc) => LeftOut(doc)'
      BY <1>1, LeftOutStays
    <3>2. doc \in files \/ LeftOut(doc) \/ \E p \in left : IsPrefix(p, doc)
      BY <2>1 DEF CoverInv
    <3> QED  BY <1>1, <1>7, <3>1, <3>2
  <2> QED  BY <1>1, <2>1 DEF CoverInv
<1>9. FilesInv'
  <2>1. ASSUME NEW file \in docsFound
        PROVE  DocsBelow(file) = {} \/ Within(file, Unknown)
    <3>1. file \in Trail /\ Len(file) = Len(dir) + 1 /\ file # <<>>
      BY <1>2, <1>3
    <3>2. ~Known(service, file) /\ Answer(file) = "text"
      BY <1>4, <2>1 DEF StatOf
    <3>3. file \notin Refusals
      BY <3>2 DEF Answer, Refused, Refusals
    <3>4. ~Within(file, Refusals)
      BY <1>3, <3>3 DEF Within
    <3> QED  BY <3>1, <3>2, <3>4, AboveDocument DEF DocsBelow
  <2> QED  BY <1>1, <2>1, FewerBelow DEF FilesInv
<1> QED  BY <1>5, <1>6, <1>8, <1>9

LEMMA NextWalkInv == WalkInv /\ [NextWalk]_walkVars => WalkInv'
<1> SUFFICES ASSUME WalkInv, [NextWalk]_walkVars PROVE WalkInv'
  OBVIOUS
<1>1. CASE ListRoot
  BY <1>1, ListRootKeeps
<1>2. CASE ListRootFails
  BY <1>2, FailKeeps DEF ListRootFails
<1>3. CASE FetchNames
  BY <1>3, FetchNamesKeeps
<1>4. CASE FetchFails
  BY <1>4, FetchFailsKeeps
<1>5. CASE PopulateChildren
  BY <1>5, PopulateKeeps
<1>6. CASE PopulateFails
  BY <1>6, FailKeeps DEF PopulateFails
<1>7. ASSUME NEW doc \in docs, Vanish(doc) PROVE WalkInv'
  BY <1>7, VanishKeeps
<1>8. CASE UNCHANGED walkVars
  BY <1>8 DEF walkVars, WalkInv, WalkTypes, WayInv, CoverInv, FilesInv, LeftOut,
              DocsBelow
<1> QED  BY <1>1, <1>2, <1>3, <1>4, <1>5, <1>6, <1>7, <1>8 DEF NextWalk

\* A walk that no listing failed in has come to every document but those that it
\* leaves out, and takes no directory for a file that the code should know, for any
\* documents, also if some of them go while it is under way.
THEOREM WalksAreComplete == SpecWalk => []WalkComplete
<1>1. WalkInv => WalkComplete
  BY DEF WalkInv, CoverInv, FilesInv, WalkComplete
<1> QED  BY <1>1, InitWalkInv, NextWalkInv, PTL DEF SpecWalk
=============================================================================
