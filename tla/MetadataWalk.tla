----------------------------- MODULE MetadataWalk -----------------------------
(***************************************************************************)
(* awsimdsfs and gcpmetafs: a walk through the metadata of an instance, as *)
(* fs.WalkDir does it with ReadDir, while documents come to an end.  The   *)
(* service answers a GET of a directory with a list of names, which looks  *)
(* like a document, so the code knows by heart which paths are directories.*)
(* A path is the sequence of its segments.                                 *)
(***************************************************************************)
EXTENDS Naturals, Sequences, SequencesExt, FiniteSets

CONSTANTS
    Documents,  \* the documents of each service, at first
    Passing,    \* the documents that may be gone at any time
    Tops,       \* the paths that a walk may begin at
    Numbers,    \* the segments that are numbers
    Disabled,   \* paths that the service refuses: its guest attributes are disabled
    Audience,   \* paths that it refuses because the request names no audience
    Unknown     \* directories of the services that the code does not know

VARIABLES
    service,   \* "aws" or "gcp"
    docs,      \* the documents that there are
    top,       \* where the walk began
    left,      \* the directories that it has yet to list
    dir,       \* the one that it lists, if any
    names,     \* the names that the service has given for it
    files,     \* the files that it has come to
    failed,    \* whether a listing failed
    fellBack   \* whether the names of instance are those that the code knows

walkVars == <<service, docs, top, left, dir, names, files, failed, fellBack>>

NoDir == <<"">>

InitWalk ==
    /\ service \in DOMAIN Documents
    /\ docs = Documents[service]
    /\ top \in Tops[service]
    /\ left = {top} /\ dir = NoDir /\ names = {}
    /\ files = {} /\ failed = FALSE /\ fellBack = FALSE

-----------------------------------------------------------------------------
(* What the code knows *)

Under(path, segments) == {path \o <<s>> : s \in segments}

\* isIMDSDirectory.  What it takes for the directories of the network interfaces
\* does not begin with "meta-data".
IMDSDirectory(path) ==
    \/ path \in {<<"meta-data">>, <<"dynamic">>}
          \cup Under(<<"meta-data">>,
                 {"autoscaling", "block-device-mapping", "events", "iam",
                  "identity-credentials", "metrics", "network", "placement",
                  "public-keys", "services", "spot", "tags"})
          \cup Under(<<"meta-data", "events">>, {"maintenance", "recommendations"})
          \cup {<<"meta-data", "iam", "security-credentials">>,
                <<"meta-data", "identity-credentials", "ec2">>,
                <<"meta-data", "identity-credentials", "ec2", "security-credentials">>,
                <<"meta-data", "network", "interfaces">>,
                <<"meta-data", "network", "interfaces", "macs">>,
                <<"meta-data", "public-keys", "0">>}
          \cup Under(<<"dynamic">>, {"fws", "instance-identity"})
    \/ Len(path) = 4 /\ Front(path) = <<"network", "interfaces", "macs">>
    \/ /\ Len(path) = 5 /\ SubSeq(path, 1, 3) = <<"network", "interfaces", "macs">>
       /\ Last(path) = "ipv4-associations"

Account(path) ==
    Len(path) = 3 /\ Front(path) = <<"instance", "service-accounts">>

\* isMetadataDirectory
MetadataDirectory(path) ==
    \/ path \in {<<>>, <<"instance">>, <<"project">>, <<"project", "attributes">>}
          \cup Under(<<"instance">>,
                 {"attributes", "disks", "network-interfaces", "service-accounts",
                  "tags", "scheduling", "licenses"})
          \cup Under(<<"instance", "disks">>, Numbers)
          \cup Under(<<"instance", "network-interfaces">>, Numbers)
    \/ \E n \in Numbers :
          LET interface == <<"instance", "network-interfaces", n>> IN
          path \in Under(interface, {"access-configs", "forwarded-ips"})
                      \cup Under(interface \o <<"access-configs">>, Numbers)
    \/ Account(path)

Known(s, path) == IF s = "aws" THEN IMDSDirectory(path) ELSE MetadataDirectory(path)

\* Mutant of IsDirectory: the case of a path is missing.
IsDirectoryButOne(path) ==
    /\ path # <<"meta-data", "iam", "security-credentials">>
    /\ Known(service, path)

IsDirectory(path) == Known(service, path)

InstanceNames ==
    {"id", "name", "hostname", "zone", "machine-type", "description", "tags",
     "scheduling", "network-interfaces", "disks", "licenses", "cpu-platform",
     "maintenance-event", "service-accounts", "attributes", "image", "preempted"}

AccountNames == {"aliases", "email", "scopes"}

-----------------------------------------------------------------------------
(* The service *)

Within(path, tops) == \E t \in tops : IsPrefix(t, path)

\* What the services document: which documents there are at the root, that the
\* directories above a document are those that the code knows, or Unknown, or
\* refused, that a directory is not a document, and which of them are refused.
ASSUME ServiceAssumption ==
    /\ \A s \in DOMAIN Documents :
          /\ Tops[s] \subseteq Seq(STRING) \ {NoDir}
          /\ \A doc \in Documents[s] :
                /\ doc \in Seq(STRING) /\ doc # <<>> /\ ~Known(s, doc) /\ doc \notin Tops[s]
                /\ \/ s = "aws" /\ doc = <<"user-data">>
                   \/ doc[1] \in (IF s = "aws" THEN {"dynamic", "meta-data"}
                                  ELSE {"instance", "project"})
                /\ \A n \in 1..(Len(doc) - 1) :
                      LET above == SubSeq(doc, 1, n) IN
                      Known(s, above) \/ Within(above, Unknown \cup Disabled \cup Audience)
          /\ \A r \in Tops[s], refused \in Disabled \cup Audience :
                refused = r \/ ~IsPrefix(refused, r)
    /\ \A refused \in Disabled \cup Audience :
          refused \in Seq(STRING) /\ Len(refused) > 1 /\ ~Account(refused)
    /\ Unknown \subseteq Seq(STRING) \ {<<>>}

DocsBelow(path) == {doc \in docs : Len(doc) > Len(path) /\ IsPrefix(path, doc)}

Refused(path) == path \in Disabled \cup Audience

Answer(path) ==
    CASE path \in Disabled -> "disabled"
      [] path \in Audience -> "no audience"
      [] ~Refused(path) /\ (path \in docs \/ DocsBelow(path) # {}) -> "text"
      [] OTHER -> "not exist"

\* A document may be there no longer, or has not been there all the time.
Vanish(doc) ==
    /\ doc \in Passing
    /\ docs' = docs \ {doc}
    /\ UNCHANGED <<service, top, left, dir, names, files, failed, fellBack>>

-----------------------------------------------------------------------------
(* The walk *)

\* The order is of no consequence.
Current == CHOOSE path \in left : TRUE

Fail ==
    /\ failed' = TRUE
    /\ left' = left \ {Current} /\ dir' = NoDir /\ names' = {}
    /\ UNCHANGED <<service, docs, top, files, fellBack>>

\* listRoot: the names are not asked for.  awsimdsfs gets the user data, and has no
\* root without.
ListRoot ==
    /\ dir = NoDir /\ left # {} /\ Current = <<>>
    /\ IF service = "aws"
       THEN /\ Answer(<<"user-data">>) = "text"
            /\ files' = files \cup {<<"user-data">>}
            /\ left' = (left \ {<<>>}) \cup {<<"dynamic">>, <<"meta-data">>}
       ELSE /\ left' = (left \ {<<>>}) \cup {<<"instance">>, <<"project">>}
            /\ UNCHANGED files
    /\ UNCHANGED <<service, docs, top, dir, names, failed, fellBack>>

ListRootFails ==
    /\ dir = NoDir /\ left # {} /\ Current = <<>>
    /\ service = "aws"
    /\ Fail

Take(found, fallBack) ==
    /\ dir' = Current /\ names' = found
    /\ fellBack' = (fellBack \/ fallBack)
    /\ UNCHANGED <<service, docs, top, left, files, failed>>

\* listMetadata, listDynamic, fetchDirectoryListing, listServiceAccount: the names
\* that are in a directory.
FetchNames ==
    /\ dir = NoDir /\ left # {} /\ Current # <<>>
    /\ IF service = "gcp" /\ Account(Current) THEN Take(AccountNames, FALSE)
       ELSE \/ /\ Answer(Current) = "text"
               /\ Take({doc[Len(Current) + 1] : doc \in DocsBelow(Current)}, FALSE)
            \/ Refused(Current) /\ Take({}, FALSE)

\* The request fails, or there is no such directory: listInstance has names by
\* heart.
FetchFails ==
    /\ dir = NoDir /\ left # {} /\ Current # <<>>
    /\ ~(service = "gcp" /\ Account(Current)) /\ ~Refused(Current)
    /\ IF service = "gcp" /\ Current = <<"instance">> THEN Take(InstanceNames, TRUE)
       ELSE Fail

StatOf(path) ==
    IF IsDirectory(path) THEN "dir"
    ELSE CASE Answer(path) = "text"        -> "file"
           [] Answer(path) = "no audience" -> "error"
           [] OTHER                        -> "not exist"

Children == {dir \o <<name>> : name \in names}

\* populateChildren: awsimdsfs has no listing if a child is gone since its name was
\* given, gcpmetafs leaves the child out.
PopulateChildren ==
    /\ dir # NoDir
    /\ \A child \in Children : StatOf(child) # "error"
    /\ service = "aws" => \A child \in Children : StatOf(child) # "not exist"
    /\ left' = (left \ {dir}) \cup {child \in Children : StatOf(child) = "dir"}
    /\ files' = files \cup {child \in Children : StatOf(child) = "file"}
    /\ dir' = NoDir /\ names' = {}
    /\ UNCHANGED <<service, docs, top, failed, fellBack>>

\* The Stat of a child fails: only of one that has to be asked for.
PopulateFails ==
    /\ dir # NoDir
    /\ \E child \in Children : ~IsDirectory(child)
    /\ Fail

NextWalk ==
    \/ ListRoot \/ ListRootFails
    \/ FetchNames \/ FetchFails
    \/ PopulateChildren \/ PopulateFails
    \/ \E doc \in docs : Vanish(doc)

SpecWalk == InitWalk /\ [][NextWalk]_walkVars

-----------------------------------------------------------------------------
(* Properties *)

\* gcpmetafs says of a service account what it knows by heart, and of the instance
\* too if the service does not answer.
LeftOut(doc) ==
    \/ Within(doc, Unknown) \/ Within(doc, Disabled \cup Audience)
    \/ /\ service = "gcp"
       /\ \/ Len(doc) > 3 /\ Account(SubSeq(doc, 1, 3)) /\ doc[4] \notin AccountNames
          \/ fellBack /\ Len(doc) > 1 /\ doc[1] = "instance" /\ doc[2] \notin InstanceNames

\* A walk that no listing failed in has come to each document that is there, and
\* takes nothing for a file that is a directory: "we can just hard-code that list"
\* (awsimdsfs/paths.go:13).  Not so in the directories that the list lacks: these
\* are files, and what is below them is not found.
WalkComplete ==
    (left = {} /\ ~failed) =>
        /\ \A doc \in docs : IsPrefix(top, doc) => doc \in files \/ LeftOut(doc)
        /\ \A file \in files : DocsBelow(file) = {} \/ Within(file, Unknown)
=============================================================================
