------------------------------ MODULE MCFirstUse ------------------------------
(***************************************************************************)
(* What the first use of a filesystem makes, and derived filesystems share,*)
(* for TLC: the clone of gitfs, the client of consulfs, the clients of the *)
(* cloud services, the headers of httpfs and vaultfs, the token of vaultfs;*)
(* one of them per behaviour.                                              *)
(***************************************************************************)
EXTENDS GitFS, LazyClient, ConsulClient, HttpHeaders, MCVaultAuth, TLC

VARIABLE which  \* the one that is used

gitVars == vars

AutoOrToken == {"auto", "token"}

\* The ones that are not used stay in one of their initial states; in gitfs
\* which branch is the default one at first makes no difference.
GitAtRest    == /\ serial /\ scheme = "git" /\ wanted = HEAD /\ auth["made"] = "auto"
LazyAtRest   == service = "gcpsm" /\ envRegion
HeaderAtRest == provider = "httpfs" /\ \A m \in DOMAIN maps : maps[m] = {}
AuthAtRest   == method = Composite /\ clientToken = NoToken

FirstUseInit ==
    /\ which \in {"git", "consul", "lazy", "headers", "auth"}
    /\ Init /\ default = CHOOSE b \in Branches : TRUE
    /\ which # "git" => GitAtRest
    /\ InitConsul
    /\ InitLazy /\ (which # "lazy" => LazyAtRest)
    /\ InitHeaders /\ (which # "headers" => HeaderAtRest)
    /\ AuthInit /\ (which # "auth" => AuthAtRest)

GitStep ==
    /\ which = "git" /\ Next
    /\ UNCHANGED <<consulVars, lazyVars, headerVars, authVars>>
ConsulStep ==
    /\ which = "consul" /\ NextConsul
    /\ UNCHANGED <<gitVars, lazyVars, headerVars, authVars>>
LazyStep ==
    /\ which = "lazy" /\ NextLazy
    /\ UNCHANGED <<gitVars, consulVars, headerVars, authVars>>
HeaderStep ==
    /\ which = "headers" /\ NextHeaders
    /\ UNCHANGED <<gitVars, consulVars, lazyVars, authVars>>
AuthStep ==
    /\ which = "auth" /\ AuthNext
    /\ UNCHANGED <<gitVars, consulVars, lazyVars, headerVars>>

FirstUseNext ==
    UNCHANGED which /\ (GitStep \/ ConsulStep \/ LazyStep \/ HeaderStep \/ AuthStep)

FirstUseSpec ==
    FirstUseInit
    /\ [][FirstUseNext]_<<which, gitVars, consulVars, lazyVars, headerVars, authVars>>

ProcSymmetry == Permutations(Procs)
=============================================================================
