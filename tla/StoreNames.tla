------------------------------ MODULE StoreNames ------------------------------
(***************************************************************************)
(* The names of all filesystems whose stores have objects and no           *)
(* directories: ObjectNames, and for gcpsmfs SecretNames.                  *)
(***************************************************************************)
EXTENDS ObjectNames

CONSTANTS Projects, SecretIds, SecretCalls, Undotted

VARIABLES project, secrets, opened, answer

Secrets == INSTANCE SecretNames

secretVars == <<project, secrets, opened, answer>>

\* Names are valid paths, and so are the identifiers of the service.
ASSUME SecretAssumption ==
    /\ \A name \in SecretCalls : name = Dot \/ IsPlain(name)
    /\ Secrets!NoProject \notin Projects /\ "." \notin SecretIds
    /\ \A s \in DOMAIN Undotted : Undotted[s] \notin {Blank, "."}

SpecStores == SpecObjects /\ Secrets!SpecSecrets

-----------------------------------------------------------------------------
(* Properties *)

\* The methods of a filesystem and of its handles are about one object, and say
\* the same of it (ObjectsAgree; for gcpsmfs SecretsAgree).
AnswersAgree == ObjectsAgree /\ Secrets!SecretsAgree

\* A directory lists what is directly below it (ObjectsListed; for gcpsmfs
\* ProjectListed).
DirectoryListed == ObjectsListed /\ Secrets!ProjectListed
=============================================================================
