----------------------------- MODULE MetadataSets -----------------------------
(* The metadata that MetadataWalk is checked with: a document in each kind of  *)
(* directory that the services document.                                       *)
EXTENDS Sequences

MetadataDocuments ==
    [aws |-> {<<"user-data">>,
              <<"dynamic", "fws", "instance-monitoring">>,
              <<"dynamic", "instance-identity", "document">>,
              <<"meta-data", "ami-id">>,
              <<"meta-data", "spot", "termination-time">>,
              <<"meta-data", "events", "maintenance", "scheduled">>,
              <<"meta-data", "iam", "info">>,
              <<"meta-data", "iam", "security-credentials", "role">>,
              <<"meta-data", "network", "interfaces", "macs", "mac",
                "ipv4-associations", "ip">>,
              <<"meta-data", "public-keys", "0", "openssh-key">>,
              <<"meta-data", "tags", "instance", "Name">>},
     gcp |-> {<<"instance", "id">>,
              <<"instance", "disks", "0", "mode">>,
              <<"instance", "attributes", "shell">>,
              <<"instance", "guest-attributes", "space", "key">>,
              <<"instance", "network-interfaces", "0", "ip">>,
              <<"instance", "network-interfaces", "0", "access-configs", "0", "type">>,
              <<"instance", "service-accounts", "default", "email">>,
              <<"instance", "service-accounts", "default", "aliases">>,
              <<"instance", "service-accounts", "default", "scopes">>,
              <<"instance", "service-accounts", "default", "identity">>,
              <<"project", "project-id">>,
              <<"project", "attributes", "ssh-keys">>}]

PassingDocuments ==
    {<<"user-data">>, <<"meta-data", "spot", "termination-time">>,
     <<"meta-data", "events", "maintenance", "scheduled">>,
     <<"instance", "attributes", "shell">>, <<"project", "attributes", "ssh-keys">>}

WalkRoots ==
    [aws |-> {<<>>, <<"meta-data">>, <<"meta-data", "network">>},
     gcp |-> {<<>>, <<"instance">>, <<"instance", "guest-attributes">>}]

GuestAttributes == {<<"instance", "guest-attributes">>}

IdentityTokens == {<<"instance", "service-accounts", "default", "identity">>}

\* isIMDSDirectory lacks them.
UnknownDirectories ==
    {<<"meta-data", "network", "interfaces", "macs", "mac">>,
     <<"meta-data", "tags", "instance">>}
=============================================================================
