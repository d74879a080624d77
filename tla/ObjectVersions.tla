---------------------------- MODULE ObjectVersions ----------------------------
(***************************************************************************)
(* The versions of a remote object that is replaced while handles are open *)
(* on it.                                                                  *)
(***************************************************************************)
EXTENDS Naturals

CONSTANT MaxVersion  \* bound: how often the object is replaced, plus one

ASSUME VersionAssumption == MaxVersion \in Nat \ {0}

Versions == 1..MaxVersion

\* Instead of a version: no object, nothing loaded, a field that is nil.
Nil == 0
=============================================================================
