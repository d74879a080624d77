------------------------------ MODULE MCHandles ------------------------------
(***************************************************************************)
(* Handles that load what they show in their first Read or Stat, for TLC:  *)
(* two of gcpsmfs (GcpCache), or one of RemoteFile, of HttpFile or of the  *)
(* wrapper of TraceFS.                                                     *)
(***************************************************************************)
EXTENDS GcpCache, RemoteFile, HttpFile, TraceFS, TLC

CONSTANTS h1, h2

VARIABLE which  \* whose handles are used

TwoHandles == {h1, h2}
HandleSymmetry == Permutations(Handles)

\* The handles that are not used are those of one filesystem.
HandlesInit ==
    /\ which \in {"gcp", "remote", "http", "trace"}
    /\ Init /\ InitRemote /\ InitHttp /\ InitTrace
    /\ which # "gcp" => cacheOn = {} /\ serial
    /\ which # "remote" => kind = "secret" /\ ~dot /\ object = Nil /\ ~below
    /\ which # "trace" => can = {}

HandlesNext ==
    /\ UNCHANGED which
    /\ \/ which = "gcp" /\ Next /\ UNCHANGED <<remoteVars, httpVars, traceVars>>
       \/ which = "remote" /\ NextRemote /\ UNCHANGED <<vars, httpVars, traceVars>>
       \/ which = "http" /\ NextHttp /\ UNCHANGED <<vars, remoteVars, traceVars>>
       \/ which = "trace" /\ NextTrace /\ UNCHANGED <<vars, remoteVars, httpVars>>

HandlesSpec ==
    HandlesInit /\ [][HandlesNext]_<<which, vars, remoteVars, httpVars, traceVars>>
=============================================================================
