---------------------------- MODULE MCVaultMounts ----------------------------
(* Instances of VaultMounts for TLC: nested mounts, mounts whose names begin  *)
(* alike, malformed ones, and mounts of auth methods.                         *)
EXTENDS VaultMounts

Mount(group, name, kv2, bad) ==
    [group |-> group, name |-> name, kv2 |-> kv2, bad |-> bad]

MountNames == {<<"k">>, <<"kv">>, <<"k", "v">>, <<"kv", "v">>}

SecretMounts ==
    {Mount("secret", name, kv2, FALSE) : name \in MountNames, kv2 \in BOOLEAN}
        \cup {Mount("secret", name, FALSE, TRUE) : name \in MountNames}

AuthMounts ==
    {Mount("auth", <<"token">>, FALSE, FALSE), Mount("auth", <<"k">>, FALSE, FALSE)}

Segments == {"k", "kv", "v"}
SecretPaths == BoundedSeq(Segments, 3) \ {<<>>}
AuthPaths == {<<"auth">> \o tail : tail \in BoundedSeq({"token", "k"}, 2) \ {<<>>}}

BytePrefix == {<<"k", "kv">>}
AllPaths == SecretPaths \cup AuthPaths
AllMounts == SecretMounts \cup AuthMounts
=============================================================================
