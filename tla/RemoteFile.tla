------------------------------ MODULE RemoteFile ------------------------------
(***************************************************************************)
(* A handle of awssmfs, awssmpfs, consulfs, awsimdsfs or gcpmetafs: Read   *)
(* or Stat, whichever comes first, gets the object of the handle's name,   *)
(* which fills in both f.fi and f.body.  A name without an object may be a *)
(* directory: that is what a second request is for, or what the metadata   *)
(* filesystems know of the name.  The object may be made, replaced and     *)
(* deleted at any time, and so may what is below its name.                 *)
(***************************************************************************)
EXTENDS Integers, ObjectVersions

Dir == -1  \* the FileInfo of a directory

\* "secret": awssmfs, awssmpfs; "key": consulfs
Kinds == {"secret", "key", "imds", "gcpmeta"}

VARIABLES
    kind,    \* the filesystem
    dot,     \* the handle of ".", which Open makes a directory but in consulfs
    known,   \* a name that is known for a directory; the root, in consulfs
    object, latest, below,  \* remote: the object, its last version, what is below
    fi, body, closed,       \* the handle
    stage,   \* "list": Stat is before its second request
    shown,   \* history: the versions that Read and Stat have shown
    absent   \* history: has there been a moment without the object?

given  == <<kind, dot, known>>
remote == <<object, latest, below, absent>>
handle == <<fi, body, closed>>
remoteVars == <<given, remote, handle, stage, shown>>

\* The kinds whose Stat asks for what is below a name without an object.
Lists == kind \in {"secret", "key"}

InitRemote ==
    /\ kind \in Kinds /\ dot \in BOOLEAN
    /\ known \in IF kind = "secret" THEN {FALSE} ELSE BOOLEAN
    /\ kind = "key" => ~dot
    /\ object \in {Nil, 1} /\ latest = 1 /\ below \in BOOLEAN
    /\ fi = IF dot THEN Dir ELSE Nil
    /\ body = Nil /\ closed = FALSE
    /\ stage = "idle" /\ shown = {} /\ absent = (object = Nil)

-----------------------------------------------------------------------------
(* The remote *)

Put ==
    /\ latest < MaxVersion
    /\ latest' = latest + 1 /\ object' = latest'
    /\ UNCHANGED <<given, below, handle, stage, shown, absent>>

Delete ==
    /\ object # Nil
    /\ object' = Nil /\ absent' = TRUE
    /\ UNCHANGED <<given, latest, below, handle, stage, shown>>

PutBelow ==
    /\ below' = ~below
    /\ UNCHANGED <<given, object, latest, absent, handle, stage, shown>>

-----------------------------------------------------------------------------
(* The handle *)

\* Mutant of Fill: who asks for the info does not get the content.
FillAsked(method) ==
    /\ fi' = object
    /\ body' = IF method = "stat" THEN body ELSE object

\* getSecret, getParameter, get and getValue, once they have the object.
Fill(method) == fi' = object /\ body' = object

\* The object is not asked for if the name is known for a directory; the root of
\* consulfs has a key that Consul does not accept.
Asks == ~known

\* Read gets the object if it has no content yet, also where f.fi says that this
\* is a directory, and Stat if it has no info.
NeedsObject(method) ==
    /\ stage = "idle"
    /\ IF method = "read" THEN body = Nil ELSE fi = Nil

Got(method) ==
    /\ NeedsObject(method) /\ Asks /\ object # Nil
    /\ Fill(method)
    /\ shown' = shown \cup {object}
    /\ UNCHANGED <<given, remote, closed, stage>>

\* The content is at hand.
ReadBody ==
    /\ stage = "idle" /\ body # Nil
    /\ shown' = shown \cup {body}
    /\ UNCHANGED <<given, remote, handle, stage>>

StatCached ==
    /\ stage = "idle" /\ fi # Nil
    /\ shown' = shown \cup ({fi} \ {Dir})
    /\ UNCHANGED <<given, remote, handle, stage>>

\* The metadata filesystems know of a directory without a request; its Read is
\* an error.
KnownDirectory(method) ==
    /\ NeedsObject(method) /\ known /\ kind # "key"
    /\ fi' = Dir
    /\ UNCHANGED <<given, remote, body, closed, stage, shown>>

\* No such object: Stat goes on to what is below, where there is such a request.
NotFound(method) ==
    /\ NeedsObject(method) /\ Asks /\ object = Nil
    /\ stage' = IF method = "stat" /\ Lists THEN "list" ELSE "idle"
    /\ UNCHANGED <<given, remote, handle, shown>>

\* The root of consulfs is listed at once.
StatRoot ==
    /\ NeedsObject("stat") /\ known /\ kind = "key"
    /\ stage' = "list"
    /\ UNCHANGED <<given, remote, handle, shown>>

\* Mutant of Failed: any error makes Stat go on to what is below.
FailedIsNotFound(method) ==
    /\ NeedsObject(method)
    /\ stage' = IF method = "stat" /\ Lists THEN "list" ELSE "idle"
    /\ UNCHANGED <<given, remote, handle, shown>>

\* Any other error is the caller's.
Failed(method) == NeedsObject(method) /\ UNCHANGED remoteVars

\* The copy of a value fails in awsimdsfs, which has assigned f.fi by then.
CopyFailed(method) ==
    /\ NeedsObject(method) /\ Asks /\ kind = "imds" /\ object # Nil
    /\ fi' = Nil
    /\ UNCHANGED <<given, remote, body, closed, stage, shown>>

\* What is below makes it a directory; nothing, and it does not exist.
Listed ==
    /\ stage = "list" /\ stage' = "idle"
    /\ fi' = IF below THEN Dir ELSE fi
    /\ UNCHANGED <<given, remote, body, closed, shown>>

ListFailed ==
    /\ stage = "list" /\ stage' = "idle"
    /\ UNCHANGED <<given, remote, handle, shown>>

\* consulfs notes it, for the error of a second Close; no Read or Stat asks.
CloseObject ==
    /\ stage = "idle"
    /\ closed' = (closed \/ kind = "key")
    /\ UNCHANGED <<given, remote, fi, body, stage, shown>>

NextRemote ==
    \/ Put \/ Delete \/ PutBelow
    \/ \E method \in {"read", "stat"} :
          \/ Got(method) \/ KnownDirectory(method) \/ NotFound(method)
          \/ Failed(method) \/ CopyFailed(method)
    \/ ReadBody \/ StatCached \/ StatRoot \/ Listed \/ ListFailed \/ CloseObject

SpecRemote == InitRemote /\ [][NextRemote]_remoteVars

-----------------------------------------------------------------------------
(* Properties *)

\* All that a handle ever shows of an object, as info and as content, is of one
\* version, in whatever order Read and Stat are called, fail and are called
\* again while the object is replaced: the size is the size of the content
\* ("populates body and fi", awssmfs/awssm.go:384).
OneVersion == shown \subseteq {body}

\* Stat takes a name for a directory, or goes to see whether it is one, only if
\* there was a moment since the handle was opened when it had no object: another
\* error, of one that exists, is not a reason (awssmfs/awssm.go:324).
DirectoryIsReal == (fi = Dir \/ stage = "list") /\ ~dot /\ ~known => absent
=============================================================================
