----------------------------- MODULE ConsulClient -----------------------------
(***************************************************************************)
(* consulfs: filesystems that are derived from one another and the API     *)
(* client that each makes in its first Open.  Derived filesystems share    *)
(* what is behind a pointer: the configuration, which initClient writes    *)
(* to, and the client, whose headers WithHeader adds to.                   *)
(***************************************************************************)
EXTENDS Integers, Sequences, FiniteSets

CONSTANTS
    Openers,            \* goroutines
    ConsulFilesystems,  \* values of consulFS, made or derived one after the other
    Configs,            \* api.Config values that callers have
    Hosts,              \* hosts in base URLs
    Tokens,             \* tokens given to WithToken
    Headers,            \* headers given to WithHeader
    MaxClients,         \* bound on the clients
    None                \* nil, or the empty string

\* The fields of a filesystem, and a file: nil is neither.
ConsulFS ==
    [host : Hosts \cup {None}, config : Configs \cup {None}, token : Tokens \cup {None},
     header : Headers \cup {None}, client : Nat \cup {None}]

ConsulFile == [fs : ConsulFilesystems, client : Nat]

ASSUME ConsulAssumption ==
    None \notin Nat /\ None \notin ConsulFS /\ None \notin ConsulFile

VARIABLES
    consulfs,      \* the fields of each filesystem; None before it is made
    configs,       \* the address and the token of each configuration
    clients,       \* the address, the token and the headers of each client made
    opening, cur,  \* initClient: where each goroutine is, and in which filesystem
    scratch,       \* the address and token of its own configuration, without a
                   \* given one
    file           \* the last file that each goroutine has opened

consulVars == <<consulfs, configs, clients, opening, cur, scratch, file>>

Made == {f \in ConsulFilesystems : consulfs[f] # None}

InitConsul ==
    /\ consulfs = [f \in ConsulFilesystems |-> None]
    /\ configs = [c \in Configs |-> [addr |-> None, token |-> None]]
    /\ clients = <<>>
    /\ opening = [p \in Openers |-> "idle"]
    /\ cur = [p \in Openers |-> None]
    /\ scratch = [p \in Openers |-> [addr |-> None, token |-> None]]
    /\ file = [p \in Openers |-> None]

-----------------------------------------------------------------------------
(* Making and deriving filesystems *)

\* New
NewConsul(f, host) ==
    /\ f \notin Made
    /\ consulfs' = [consulfs EXCEPT ![f] =
         [host |-> host, config |-> None, token |-> None, header |-> None,
          client |-> None]]
    /\ UNCHANGED <<configs, clients, opening, cur, scratch, file>>

\* fsys := *f, with some fields changed.
DeriveAs(f, copy) ==
    /\ f \notin Made
    /\ consulfs' = [consulfs EXCEPT ![f] = copy]
    /\ UNCHANGED <<configs, opening, cur, scratch, file>>

\* WithQueryOptions, WithContext: the client is kept.
WithQueryOptions(f, g) == DeriveAs(f, consulfs[g]) /\ UNCHANGED clients

\* Mutant of WithToken: the client of the old token is kept.
WithTokenOnly(f, g, token) ==
    /\ DeriveAs(f, [consulfs[g] EXCEPT !.token = token])
    /\ UNCHANGED clients

WithToken(f, g, token) ==
    /\ DeriveAs(f, [consulfs[g] EXCEPT !.token = token, !.client = None])
    /\ UNCHANGED clients

WithConfig(f, g, config) ==
    /\ DeriveAs(f, [consulfs[g] EXCEPT !.config = config, !.client = None])
    /\ UNCHANGED clients

\* WithHeader adds to the client that the two now share.
WithHeader(f, g, header) ==
    /\ DeriveAs(f, [consulfs[g] EXCEPT !.header = header])
    /\ IF consulfs[g].client = None THEN UNCHANGED clients
       ELSE clients' = [clients EXCEPT ![consulfs[g].client].headers = @ \cup {header}]

DeriveConsul ==
    \E f \in ConsulFilesystems, g \in Made :
        \/ WithQueryOptions(f, g)
        \/ \E token \in Tokens : WithToken(f, g, token)
        \/ \E config \in Configs : WithConfig(f, g, config)
        \/ \E header \in Headers : WithHeader(f, g, header)

-----------------------------------------------------------------------------
(* Open *)

Goto(p, label) == opening' = [opening EXCEPT ![p] = label]

\* Callers do not open two filesystems at once that share a configuration
\* of theirs: initClient writes to it.
Exclusive(f) ==
    consulfs[f].config # None =>
        \A q \in Openers :
            opening[q] # "idle" => consulfs[cur[q]].config # consulfs[f].config

\* initClient finds a client, or starts to make one.
OpenConsul(p, f) ==
    /\ opening[p] = "idle" /\ Exclusive(f)
    /\ Goto(p, IF consulfs[f].client # None THEN "open" ELSE "configure")
    /\ cur' = [cur EXCEPT ![p] = f]
    /\ scratch' = [scratch EXCEPT ![p] = [addr |-> None, token |-> None]]
    /\ UNCHANGED <<consulfs, configs, clients, file>>

\* What initClient makes of a configuration.
Configured(config, f) ==
    [addr  |-> IF consulfs[f].host # None THEN consulfs[f].host ELSE config.addr,
     token |-> IF consulfs[f].token # None THEN consulfs[f].token ELSE config.token]

\* The address and the token are written to the configuration, the one that was
\* given if there is one.
WriteConfig(p) ==
    LET f == cur[p]
        given == consulfs[f].config IN
    /\ opening[p] = "configure"
    /\ IF given = None
       THEN /\ scratch' = [scratch EXCEPT ![p] = Configured(scratch[p], f)]
            /\ UNCHANGED configs
       ELSE /\ configs' = [configs EXCEPT ![given] = Configured(configs[given], f)]
            /\ UNCHANGED scratch
    /\ Goto(p, "create")
    /\ UNCHANGED <<consulfs, clients, cur, file>>

\* api.NewClient copies the configuration; then the headers, and f.client = c.
MakeClient(p) ==
    LET f      == cur[p]
        given  == consulfs[f].config
        config == IF given = None THEN scratch[p] ELSE configs[given]
        header == consulfs[f].header IN
    /\ opening[p] = "create" /\ Len(clients) < MaxClients
    /\ clients' = Append(clients,
         [addr |-> config.addr, token |-> config.token,
          headers |-> IF header = None THEN {} ELSE {header}])
    /\ consulfs' = [consulfs EXCEPT ![f].client = Len(clients')]
    /\ Goto(p, "open")
    /\ UNCHANGED <<configs, cur, scratch, file>>

\* The file gets f.client, which another goroutine may have replaced.
OpenFile(p) ==
    /\ opening[p] = "open"
    /\ file' = [file EXCEPT ![p] = [fs |-> cur[p], client |-> consulfs[cur[p]].client]]
    /\ Goto(p, "idle")
    /\ UNCHANGED <<consulfs, configs, clients, cur, scratch>>

NextConsul ==
    \/ \E f \in ConsulFilesystems, host \in Hosts \cup {None} : NewConsul(f, host)
    \/ DeriveConsul
    \/ \E p \in Openers :
          \/ \E f \in Made : OpenConsul(p, f)
          \/ WriteConfig(p) \/ MakeClient(p) \/ OpenFile(p)

SpecConsul == InitConsul /\ [][NextConsul]_consulVars

-----------------------------------------------------------------------------
(* Properties *)

\* An open file's requests go to the host of its filesystem's URL, with its
\* token and its header, wherever in its derivation these were given and
\* whatever was opened or derived in between (consulfs/extensions.go:21).  A
\* filesystem without a host or a token of its own has no such promise: it uses
\* what another one has written to a configuration they share.
RequestsAsConfigured ==
    \A p \in Openers : file[p] # None =>
        LET f == consulfs[file[p].fs]
            c == clients[file[p].client] IN
        /\ f.host # None => c.addr = f.host
        /\ f.token # None => c.token = f.token
        /\ f.header # None => f.header \in c.headers
=============================================================================
