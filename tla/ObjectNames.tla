------------------------------ MODULE ObjectNames ------------------------------
(***************************************************************************)
(* awssmfs, awssmpfs, blobfs and consulfs: which object of the store the   *)
(* methods of a filesystem and of its handles are about, and what they say *)
(* of it.  A store has objects, each with a key, and no directories: these *)
(* are the beginnings of keys.  Paths and keys are sequences as in         *)
(* PathOps; a key that begins with a slash begins with Blank.              *)
(***************************************************************************)
EXTENDS PathOps, FiniteSets, FiniteSetsExt

CONSTANTS
    Keys,        \* the keys a store may have
    MaxKeys,     \* bound on their number
    Dirs,        \* the directories that URLs name
    MaxDepth,    \* bound on the segments of a root
    ObjectCalls, \* the names that Open, Sub, ReadDir and ReadFile are given
    Visible,     \* for a segment that begins with a dot, the segment without it
    Before,      \* pairs of segments: the first begins the second, which a listing
    After        \* has before (after) what is below the first

\* fs.ValidPath lets no other names through.  Objects with other keys than these
\* have no name.
ASSUME ObjectAssumption ==
    /\ \A name \in ObjectCalls : name = Dot \/ IsPlain(name)
    /\ \A dir \in Dirs : IsPlain(dir)
    /\ \A key \in Keys :
          /\ key \in Seq(STRING) /\ key \notin {<<>>, Empty, Slash}
          /\ DOMAIN key \ NamesAt(key) \subseteq {1, Len(key)}
          /\ \A i \in DOMAIN key : key[i] # "."

Kinds == {"sm", "smp", "blob", "key"}  \* awssmfs, awssmpfs, blobfs, consulfs

VARIABLES
    kind,   \* the filesystem
    store,  \* the keys of its store
    root,   \* f.root; f.base.Path in consulfs
    base,   \* history: what the root stands for
    file,   \* the handle that was opened, one of a behaviour: its root, its name
            \* and what it was opened for
    said    \* what the last call said

objectVars == <<kind, store, root, base, file, said>>

NoFile == [root |-> <<>>, name |-> <<>>, at |-> <<>>, dot |-> FALSE, dotted |-> FALSE]

NoReply == [op |-> "none", at |-> <<>>, dotted |-> FALSE, is |-> "none", entries |-> {}]

-----------------------------------------------------------------------------
(* What the store has at a place: a key, or the beginning of keys *)

\* A store has keys with and without a slash at first only in awssmfs; keys with
\* one at their end are left to consulfs.
KeysOf(k) ==
    {key \in Keys : /\ k = "key" \/ Last(key) # Blank
                    /\ CASE k = "sm"  -> TRUE
                         [] k = "smp" -> key[1] = Blank
                         [] OTHER     -> key[1] # Blank}

Roots(k) ==
    LET relative == {dir \o Empty : dir \in Dirs} IN
    CASE k = "sm"   -> {Slash, Empty} \cup {Empty \o dir : dir \in Dirs} \cup relative
      [] k = "blob" -> {Empty} \cup Dirs \cup relative
      [] OTHER      -> {Slash} \cup {Empty \o dir : dir \in relative}

\* The keys that consulfs has keep the slash at their end, and it leaves out
\* the one at the beginning.
Place(k, p) == IF Rooted(p) /\ k # "key" THEN Empty \o Kept(p) ELSE Kept(p)

Where(name) == IF name = Dot THEN base ELSE base \o name

\* The root of keys without a slash is not above those with one.
KeysBelow(at) == {key \in store : /\ Len(key) > Len(at) /\ IsPrefix(at, key)
                                  /\ at = <<>> => key[1] # Blank}

\* The root of consulfs is what is below it, an object of its name or not.
Truth(at) == IF at \in store /\ ~(kind = "key" /\ at = base) THEN "file"
             ELSE IF KeysBelow(at) # {} THEN "dir" ELSE "not exist"

InitObjects ==
    /\ kind \in Kinds
    /\ store \in UNION {kSubset(n, KeysOf(kind)) : n \in 0..MaxKeys}
    /\ root \in Roots(kind)
    /\ base = Place(kind, root)
    /\ file = NoFile /\ said = NoReply

-----------------------------------------------------------------------------
(* Opening *)

\* Mutant of TrimDot: a dot is left alone.
TrimNothing(p) == p

\* strings.TrimPrefix(p, ".")
TrimDot(p) ==
    IF p = Dot THEN Empty
    ELSE IF p[1] \in DOMAIN Visible THEN <<Visible[p[1]]>> \o Tail(p) ELSE p

\* internal.SubURL: the reference replaces what follows the last slash.
Resolve(url, name) == IF name = Dot THEN url ELSE Front(url) \o name

\* What Open makes of a name.
Handle(name) ==
    LET dir == IF kind = "key" THEN Resolve(root, name)
               ELSE TrimDot(Join(root, Dir(name)))
        last == IF kind = "key" THEN name ELSE TrimDot(Base(name)) IN
    [root |-> dir, name |-> last, at |-> Where(name),
     dot |-> name = Dot /\ kind # "key",  \* f.fi is preset to a directory
     dotted |-> /\ kind # "key"
                /\ \/ Last(name) \in DOMAIN Visible
                   \/ Join(root, Dir(name))[1] \in DOMAIN Visible]

\* What a handle asks its store for.
Address(h) == IF kind = "key" THEN Tail(h.root) ELSE Join(h.root, h.name)

\* The beginning of the keys that a handle lists; consulfs has "/" for "", which
\* its client shortens.
ListPrefix(h) ==
    LET at == Address(h) IN
    CASE kind = "sm" ->
           IF h.name = Dot /\ h.root \in {Empty, Slash} THEN h.root ELSE at \o Empty
      [] kind = "smp" ->
           IF h.name \in {Dot, Empty} /\ h.root = Slash THEN h.root ELSE at \o Empty
      [] OTHER -> IF Last(at) = Blank THEN at ELSE at \o Empty

\* "we need to list everything that doesn't start with /"
Listed(prefix) ==
    {key \in store : IF prefix = Empty THEN key[1] # Blank ELSE HasPrefix(key, prefix)}

-----------------------------------------------------------------------------
(* What the methods say *)

\* blobFindDir: the first entry of a listing whose prefix has no slash at its end
\* may be of a longer name.
Found(at) ==
    LET same   == {Last(at)}
        before == {pair[2] : pair \in {p \in Before : p[1] = Last(at)}}
        after  == {pair[2] : pair \in {p \in After : p[1] = Last(at)}}
        With(segs) == {key \in store : /\ IsPrefix(Front(at), key)
                                       /\ Len(key) >= Len(at)
                                       /\ key[Len(at)] \in segs}
        first == IF With(before) # {} THEN With(before)
                 ELSE IF With(same) # {} THEN With(same) ELSE With(after) IN
    IF first = {} THEN "not exist"
    ELSE IF \E key \in first : Len(key) = Len(at) THEN "error" ELSE "dir"

\* Stat of a handle that has no info: the object, or else what is below it.
InfoOf(h) ==
    LET at == Address(h) IN
    IF at \in store THEN "file"
    ELSE IF kind = "blob" THEN Found(at)
    ELSE IF Listed(IF Last(at) = Blank THEN at ELSE at \o Empty) # {} THEN "dir"
    ELSE "not exist"

StatAnswer(h) == IF h.dot THEN "dir" ELSE InfoOf(h)

Content(at) == IF at \in store THEN "content" ELSE "not exist"

\* A key without the prefix that it was listed for.
Rest(key, prefix) ==
    IF prefix = Empty THEN key ELSE SubSeq(key, Len(prefix), Len(key))

DirEntry(name, dir) == [name |-> name, dir |-> dir]

\* awssmfs and awssmpfs: a name that is listed as an object and as the beginning
\* of others is what comes first; the Stat of an object is the child's.
ChildEntries(h, prefix, keys) ==
    LET names  == {Rest(key, prefix)[1] : key \in keys}
        nested == {Rest(key, prefix)[1] : key \in {k \in keys : Len(Rest(k, prefix)) > 1}}
        plain  == {Rest(key, prefix)[1] : key \in {k \in keys : Len(Rest(k, prefix)) = 1}}
        Child(name) == [NoFile EXCEPT !.root = Join(h.root, h.name), !.name = <<name>>] IN
    {{DirEntry(name, name \in asDir \/ InfoOf(Child(name)) = "dir") : name \in names} :
        asDir \in {chosen \in SUBSET nested :
                     /\ nested \ plain \subseteq chosen
                     /\ \A name \in names \ chosen : InfoOf(Child(name)) # "not exist"}}

\* blobfs and consulfs list what is below a name as an entry of its own.  A key
\* that ends with a slash is one below itself: consulfs calls it by its name.
DelimitedEntries(prefix, keys) ==
    {LET rest == Rest(key, prefix) IN
     IF rest = Empty THEN DirEntry(Last(Front(prefix)), TRUE)
     ELSE DirEntry(rest[1], Len(rest) > 1) : key \in keys}

\* ReadDir(-1) of a new handle: what it may list.
Listings(h) ==
    LET prefix == ListPrefix(h)
        keys   == Listed(prefix) IN
    IF kind \in {"sm", "smp"} THEN ChildEntries(h, prefix, keys)
    ELSE {DelimitedEntries(prefix, keys)}

Replied(op, at, dotted, is) ==
    [op |-> op, at |-> at, dotted |-> dotted, is |-> is, entries |-> {}]

ListFile(h) ==
    \/ /\ Listed(ListPrefix(h)) = {} /\ kind # "blob"
       /\ said' = Replied("ReadDir", h.at, h.dotted, "not exist")
    \/ /\ Listed(ListPrefix(h)) # {} \/ kind = "blob"
       /\ \E entries \in Listings(h) :
             said' = [Replied("ReadDir", h.at, h.dotted, "listing")
                       EXCEPT !.entries = entries]
    \/ /\ Listed(ListPrefix(h)) # {} /\ Listings(h) = {}
       /\ said' = Replied("ReadDir", h.at, h.dotted, "error")

-----------------------------------------------------------------------------
(* Calls *)

Sub(name) ==
    /\ kind # "key" /\ name # Dot
    /\ file = NoFile
    /\ Len(root) + Len(name) <= MaxDepth
    /\ root' = Join(root, name) /\ base' = Where(name)
    /\ said' = NoReply
    /\ UNCHANGED <<kind, store, file>>

\* Only blobfs looks whether there is such an object.
Open(name) ==
    LET h  == Handle(name)
        is == StatAnswer(h) IN
    /\ file = NoFile
    /\ IF kind # "blob" THEN file' = h /\ said' = NoReply
       ELSE /\ file' = IF is \in {"file", "dir"} THEN h ELSE NoFile
            /\ said' = Replied("Stat", h.at, h.dotted, is)
    /\ UNCHANGED <<kind, store, root, base>>

Say(answer) == said' = answer /\ UNCHANGED <<kind, store, root, base, file>>

FileStat == file # NoFile /\ Say(Replied("Stat", file.at, file.dotted, StatAnswer(file)))

FileRead ==
    /\ file # NoFile
    /\ Say(Replied("Read", file.at, file.dotted, Content(Address(file))))

FileReadDir ==
    /\ file # NoFile
    /\ ListFile(file)
    /\ UNCHANGED <<kind, store, root, base, file>>

\* The ReadDir of a filesystem, where it has one of its own.
ReadDirFS(name) ==
    /\ kind \in {"sm", "smp"}
    /\ ListFile([NoFile EXCEPT !.root = root, !.name = name, !.at = Where(name)])
    /\ UNCHANGED <<kind, store, root, base, file>>

\* Mutant of ReadFileAddress: the root of the URL, not of the Sub.
ReadFileAddressHere(name) == name

ReadFileAddress(name) ==
    IF kind = "key" THEN Tail(Resolve(root, name)) ELSE Join(root, name)

\* consulfs does not look whether there is a pair.
ReadFile(name) ==
    LET is == Content(ReadFileAddress(name)) IN
    Say(Replied("ReadFile", Where(name), FALSE,
               IF kind = "key" /\ is # "content" THEN "nil dereference" ELSE is))

NextObjects ==
    \/ \E name \in ObjectCalls :
          Sub(name) \/ Open(name) \/ ReadDirFS(name) \/ ReadFile(name)
    \/ FileStat \/ FileRead \/ FileReadDir

SpecObjects == InitObjects /\ [][NextObjects]_objectVars

-----------------------------------------------------------------------------
(* Properties *)

\* consulfs finds a key with a slash at its end below that key.
Marked(at) == at \o Empty \in store

\* blobfs finds what is below a longer name.
Neighbours(at) ==
    kind = "blob" /\ at # <<>> /\
    \E pair \in Before \cup After :
        /\ pair[1] = Last(at)
        /\ \E key \in store : Len(key) >= Len(at) /\ key[Len(at)] = pair[2]

\* The methods of a filesystem, of those derived from it and of their handles
\* are about the object whose key is the root of the URL, the names of the Subs
\* and the name that they are given, and say the same of it ("slightly more
\* performant than calling Open and then reading", awssmfs/awssm.go:258).  The
\* handles of names with a dot at the beginning are of another object;
\* StatIsTrue has the other exceptions.
ObjectsAgree ==
    LET truth == Truth(said.at) IN
    /\ said.op = "Stat" /\ ~said.dotted /\ ~Marked(said.at) /\ ~Neighbours(said.at) =>
          said.is = truth \/ (said.is = "dir" /\ file.dot)
    /\ said.op = "Read" /\ ~said.dotted /\ ~Marked(said.at) =>
          (said.is = "content" <=> truth = "file")
    /\ said.op = "ReadFile" =>
          /\ Marked(said.at) \/ (said.is = "content" <=> truth = "file")
          /\ said.is = "nil dereference" => kind = "key"

\* What a directory contains: the next segment of the keys below it.
NextNames(at) == {key[Len(at) + 1] : key \in KeysBelow(at)}

Lists(at) ==
    IF said.is = "listing"
    THEN /\ {entry.name : entry \in said.entries} = NextNames(at)
         /\ \A entry \in said.entries :
               IF entry.dir THEN KeysBelow(at \o <<entry.name>>) # {}
               ELSE at \o <<entry.name>> \in store
    ELSE said.is = "not exist" /\ KeysBelow(at) = {}

AtRoot(at) == at \in {<<>>, Empty}

\* A directory lists what is directly below it, all of it, and as what it is; it
\* does not exist if there is nothing.  Not so the handle of the root of
\* awssmfs (RootListed), and consulfs lists a directory in itself if a key of
\* the directory's name ends with a slash.
ObjectsListed ==
    (said.op = "ReadDir" /\ ~said.dotted /\ ~Marked(said.at)) =>
        Lists(said.at) \/ (kind = "sm" /\ AtRoot(said.at) /\ file.dot)

\* "when listing "." at the root (or opaque root), avoid returning "//""
\* (awssmfs/awssm.go:422): the root lists what is below it.
RootListed ==
    (said.op = "ReadDir" /\ kind = "sm" /\ AtRoot(said.at)) => Lists(said.at)

\* "find only a single entry, if a dir with that name exists"
\* (blobfs/blob.go:359): Open says of a name that it is a directory if and only
\* if there is something below it.
StatIsTrue ==
    (said.op = "Stat" /\ kind = "blob" /\ ~said.dotted /\ ~file.dot) =>
        (said.is = "dir" <=> Truth(said.at) = "dir")
=============================================================================
