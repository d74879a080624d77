------------------------------ MODULE SecretNames ------------------------------
(***************************************************************************)
(* gcpsmfs: which secret of which project the methods of a filesystem and  *)
(* of its handles are about, and what they say of it.  The project is that *)
(* of the URL, and names are secrets; or it has none, and names are full   *)
(* ones.  A name is the sequence of its segments.                          *)
(***************************************************************************)
EXTENDS Naturals, Sequences

CONSTANTS
    Projects,   \* projects of the service
    SecretIds,  \* what their secrets may be called
    SecretCalls,\* the names that Open, ReadDir and ReadFile are given
    Undotted    \* for a segment that begins with a dot, the segment without it

NoProject == ""
Invalid   == [project |-> NoProject, name |-> "invalid"]

VARIABLES
    project,  \* f.project
    secrets,  \* those that have a latest version: project and name
    opened,   \* the handle that was opened, and the name it was opened with
    answer    \* what the last call said, and the name it was about

secretVars == <<project, secrets, opened, answer>>

NoHandle == [called |-> <<>>, project |-> NoProject, name |-> "invalid"]
NoAnswer == [op |-> "none", called |-> <<>>, is |-> "none", entries |-> {}]

InitSecrets ==
    /\ project \in Projects \cup {NoProject}
    /\ secrets \in SUBSET [project : Projects, name : SecretIds]
    /\ opened = NoHandle /\ answer = NoAnswer

-----------------------------------------------------------------------------
TrimDot(s) == IF s \in DOMAIN Undotted THEN Undotted[s] ELSE s

\* A full name, or that of a project, which is a directory.
FullName(name) ==
    IF Len(name) = 2 /\ name[1] = "projects" THEN [project |-> name[2], name |-> "."]
    ELSE IF Len(name) = 4 /\ name[1] = "projects" /\ name[3] = "secrets"
         THEN [project |-> name[2], name |-> TrimDot(name[4])]
    ELSE Invalid

\* getProjectAndFileName
Resolved(name) ==
    IF project = NoProject THEN FullName(name)
    ELSE IF Len(name) > 1 THEN Invalid
    ELSE [project |-> project, name |-> name[1]]

Content(h) ==
    IF h.name = "." THEN "is a directory"
    ELSE IF [project |-> h.project, name |-> h.name] \in secrets THEN "content"
    ELSE "not exist"

Kind(h) ==
    IF h.name = "." THEN "dir"
    ELSE IF Content(h) = "content" THEN "file" ELSE "not exist"

SecretsOf(p) == {s.name : s \in {s \in secrets : s.project = p}}

Say(op, called, is, entries) ==
    /\ answer' = [op |-> op, called |-> called, is |-> is, entries |-> entries]
    /\ UNCHANGED <<project, secrets>>

List(p, called) ==
    IF p \in Projects THEN Say("ReadDir", called, "listing", SecretsOf(p))
    ELSE Say("ReadDir", called, "not exist", {})

\* Nothing is asked of the service.
Open(name) ==
    LET h == Resolved(name) IN
    /\ opened = NoHandle
    /\ IF h = Invalid
       THEN Say("Open", name, "invalid", {}) /\ UNCHANGED opened
       ELSE /\ opened' = [called |-> name, project |-> h.project, name |-> h.name]
            /\ Say("Open", name, "opened", {})

Stat == /\ opened # NoHandle
        /\ Say("Stat", opened.called, Kind(opened), {}) /\ UNCHANGED opened

Read == /\ opened # NoHandle
        /\ Say("Read", opened.called, Content(opened), {}) /\ UNCHANGED opened

\* The handle of a secret lists its project too.
ReadDir == /\ opened # NoHandle
           /\ List(opened.project, opened.called) /\ UNCHANGED opened

\* The root is the project of the URL, if there is one.
ReadDirFS(name) ==
    LET dir == IF name = <<".">> THEN [project |-> project, name |-> "."]
               ELSE Resolved(name) IN
    /\ CASE dir = Invalid -> Say("ReadDir", name, "invalid", {})
         [] dir # Invalid /\ dir.name # "." -> Say("ReadDir", name, "not exist", {})
         [] dir.name = "." /\ dir.project = NoProject -> Say("ReadDir", name, "no project", {})
         [] OTHER -> List(dir.project, name)
    /\ UNCHANGED opened

ReadFile(name) ==
    LET h == Resolved(name) IN
    /\ Say("ReadFile", name, IF h = Invalid THEN "invalid" ELSE Content(h), {})
    /\ UNCHANGED opened

NextSecrets ==
    \/ \E name \in SecretCalls : Open(name) \/ ReadDirFS(name) \/ ReadFile(name)
    \/ Stat \/ Read \/ ReadDir

SpecSecrets == InitSecrets /\ [][NextSecrets]_secretVars

-----------------------------------------------------------------------------
(* Properties *)

\* The secret that a name stands for, "relative to this base URL", whose
\* root is the service or one of its projects (gcpsmfs/doc.go:9).
Absolute(name) ==
    IF project = NoProject \/ name = <<>> THEN name
    ELSE <<"projects", project>> \o
            (IF name = <<".">> THEN <<>> ELSE <<"secrets">> \o name)

IsSecret(name) ==
    \E s \in secrets : Absolute(name) = <<"projects", s.project, "secrets", s.name>>

IsProject(name) == Len(Absolute(name)) = 2 /\ Absolute(name)[1] = "projects"

\* All methods say the same of a name: it is the secret that it is relative to
\* the URL, the directory of a project, or nothing.  A full name whose last part
\* begins with a dot is taken for the secret without it.
SecretsAgree ==
    LET is == answer.is
        called == answer.called IN
    (Len(called) = 4 => called[4] \notin DOMAIN Undotted) =>
        /\ answer.op \in {"Read", "ReadFile"} => (is = "content" <=> IsSecret(called))
        /\ answer.op = "Stat" =>
              (is = "file" <=> IsSecret(called)) /\ (is = "dir" <=> IsProject(called))
        /\ answer.op = "Open" =>
              (IsSecret(called) \/ IsProject(called) => is = "opened")

\* A listing has the secrets of its project and no other, and a project that
\* exists has one.  The handle of a secret lists the secret's project.
ProjectListed ==
    answer.op = "ReadDir" =>
        LET called == answer.called IN
        /\ answer.is = "listing" =>
              \E p \in Projects :
                  /\ answer.entries = SecretsOf(p)
                  /\ \/ Absolute(called) = <<"projects", p>>
                     \/ called = opened.called /\ opened.name # "." /\ p = opened.project
        /\ IsProject(called) /\ Absolute(called)[2] \in Projects => answer.is = "listing"
=============================================================================
