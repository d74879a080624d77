------------------------------- MODULE PathOps -------------------------------
(***************************************************************************)
(* Go's package path, for the paths that filesystems put together.  A path *)
(* is the sequence of what stands between its slashes: "/a/b" is           *)
(* <<"", "a", "b">>, "a/" is <<"a", "">>, "/" is <<"", "">> and "" is      *)
(* <<"">>.  There is no "..": ValidPath refuses it in names.               *)
(***************************************************************************)
EXTENDS Naturals, Sequences, SequencesExt, NameOrder

\* What stands before a slash at the beginning, and after one at the end.
Blank == ""

Empty == <<Blank>>
Dot   == <<".">>
Slash == <<Blank, Blank>>

Rooted(p) == Len(p) > 1 /\ p[1] = Blank

\* The segments of a path that are names, in their order.
NamesAt(p) == {i \in DOMAIN p : p[i] \notin {Blank, "."}}
Kept(p) == [i \in 1..Cardinality(NamesAt(p)) |-> p[InOrder(NamesAt(p))[i]]]

\* path.Clean
Clean(p) ==
    IF Rooted(p) THEN IF Kept(p) = <<>> THEN Slash ELSE Empty \o Kept(p)
    ELSE IF Kept(p) = <<>> THEN Dot ELSE Kept(p)

\* path.Join leaves out empty elements, and is empty if it has no other.
Join(p, q) ==
    CASE p = Empty /\ q = Empty -> Empty
      [] p = Empty /\ q # Empty -> Clean(q)
      [] p # Empty /\ q = Empty -> Clean(p)
      [] OTHER                  -> Clean(p \o q)

\* A path of names: it is relative and clean, and not a dot.
IsPlain(p) == p \in Seq(STRING) /\ p # <<>> /\ NamesAt(p) = DOMAIN p

\* path.Base and path.Dir of a name that is valid.
Base(name) == <<Last(name)>>
Dir(name)  == IF Len(name) = 1 THEN Dot ELSE Front(name)

\* strings.HasPrefix of a prefix that ends with a slash.
HasPrefix(p, prefix) ==
    Len(p) >= Len(prefix) /\ IsPrefix(Front(prefix), p)
=============================================================================
