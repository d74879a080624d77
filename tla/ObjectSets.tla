------------------------------ MODULE ObjectSets ------------------------------
(* The objects and the names that ObjectNames is checked with: keys that begin *)
(* with others, hidden ones, keys with a slash at either end; and the names    *)
(* that SecretNames is checked with, good and bad.                             *)
EXTENDS PathOps

BareKeys == {<<"a">>, <<"a-">>, <<"ab">>, <<".a">>, <<"a", "a">>, <<"a-", "a">>,
             <<"ab", "a">>, <<"a", "a", "a">>, <<"a", "">>, <<"a", "a", "">>}
ObjectKeys == BareKeys \cup {Empty \o key : key \in BareKeys}

URLDirs == {<<"a">>}

CallNames == {Dot, <<"a">>, <<".a">>, <<"a", "a">>}

NoDots == [s \in {".a"} |-> "a"]

\* '-' sorts before '/', 'b' after it.
SortsBefore == {<<"a", "a-">>}
SortsAfter  == {<<"a", "ab">>}

WithoutDots == [s \in {".s"} |-> "s"]

SecretPathsGiven ==
    {Dot, <<"s">>, <<".s">>, <<"p">>, <<"p", "s">>, <<"projects">>}
        \cup {<<"projects", p>> : p \in {"p", "gone"}}
        \cup {<<"projects", "p", "secrets">>}
        \cup {<<"projects", p, "secrets", s>> : p \in {"p", "q"}, s \in {"s", ".s"}}
=============================================================================
