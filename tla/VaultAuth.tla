------------------------------ MODULE VaultAuth ------------------------------
(***************************************************************************)
(* The auth methods that try others in turn: vaultauth.CompositeAuthMethod *)
(* (and vaultauth.EnvAuthMethod, which is one) and the deprecated          *)
(* vaultfs.EnvAuthMethod behind wrappedAuth.  One goroutine opens handles, *)
(* reads through them and closes them; a login happens when the client has *)
(* no token, a logout when the last handle is closed.                      *)
(***************************************************************************)
EXTENDS Naturals, Sequences

CONSTANTS
    Methods,     \* the auth methods a program may use: of the "composite" or
                 \* the "legacy" kind, with the chain of those they try in turn
    MaxOpen,     \* bound: handles open at once
    InitTokens,  \* what api.NewClient may find in $VAULT_TOKEN
    MaxToken     \* bound: the last token the server can issue

NoToken   == 0
UserToken == 1   \* what the token method finds; logins issue 2..MaxToken
NoMethod  == 0   \* a nil chosen

ASSUME MethodsAssumption ==
    \A m \in Methods :
        /\ m.kind \in {"composite", "legacy"}
        /\ m.chain \in Seq({"nil", "token", "login"})
        /\ m.kind = "legacy" => \A i \in DOMAIN m.chain : m.chain[i] # "nil"

ASSUME BoundAssumption ==
    /\ MaxOpen \in Nat /\ MaxToken \in Nat /\ MaxToken >= UserToken
    /\ InitTokens \subseteq {NoToken, UserToken}

VARIABLES
    method,       \* the auth method of the filesystem
    open,         \* handles that are open
    pc,           \* where the goroutine is
    chosen,       \* the method that logged in, for the life of the auth method
    trying,       \* Login: the method to try next
    secret,       \* the token in the secret that Login returns
    clientToken,  \* the api.Client's token
    live,         \* server: the tokens it accepts
    issued,       \* server: the last token issued
    lost          \* tokens whose login reply or revocation the network lost

loginVars  == <<chosen, trying, secret>>
serverVars == <<live, issued, lost>>
authVars == <<method, open, pc, loginVars, clientToken, serverVars>>

AuthTokens == NoToken..MaxToken
Tried  == method.chain
Legacy == method.kind = "legacy"

AuthTypeOK ==
    /\ method \in Methods
    /\ open \in 0..MaxOpen
    /\ pc \in {"idle", "login", "try", "reread", "set", "logout", "clear",
               "nil dereference"}
    /\ chosen \in {NoMethod} \cup DOMAIN Tried
    /\ trying \in 1..(Len(Tried) + 1)
    /\ secret \in AuthTokens /\ clientToken \in AuthTokens
    /\ live \subseteq AuthTokens /\ issued \in AuthTokens /\ lost \subseteq AuthTokens

AuthInit ==
    /\ method \in Methods
    /\ open = 0 /\ pc = "idle"
    /\ chosen = NoMethod /\ trying = 1 /\ secret = NoToken
    /\ clientToken \in InitTokens
    /\ live = {UserToken} /\ issued = UserToken /\ lost = {}

-----------------------------------------------------------------------------
\* newVaultFile
OpenHandle ==
    /\ pc = "idle" /\ open < MaxOpen
    /\ open' = open + 1
    /\ UNCHANGED <<pc, loginVars, clientToken, serverVars>>

\* getMountInfo of a handle that has none cached, the client having no token.
Use ==
    /\ pc = "idle" /\ open > 0 /\ clientToken = NoToken
    /\ pc' = "login"
    /\ UNCHANGED <<open, loginVars, clientToken, serverVars>>

\* Login: with a chosen method there is nothing to try.  The composite method
\* then returns a nil secret, which getMountInfo dereferences; wrappedAuth
\* makes a secret of whatever token the client has.
Login ==
    /\ pc = "login"
    /\ pc' = IF chosen = NoMethod THEN "try"
             ELSE IF Legacy THEN "reread" ELSE "nil dereference"
    /\ trying' = 1
    /\ UNCHANGED <<open, chosen, secret, clientToken, serverVars>>

Issue ==
    /\ issued < MaxToken
    /\ issued' = issued + 1
    /\ live' = live \cup {issued + 1}

\* Mutant of AfterSuccess: the loop goes on to the next method.
AfterSuccessWithoutBreak ==
    /\ pc' = "try"
    /\ trying' = trying + 1

\* The break that ends the loop.
AfterSuccess ==
    /\ pc' = IF Legacy THEN "reread" ELSE "set"
    /\ UNCHANGED trying

\* The method tried logs in.  A legacy one puts its token into the client.
TrySucceeds ==
    /\ pc = "try" /\ trying <= Len(Tried) /\ Tried[trying] # "nil"
    /\ chosen' = trying
    /\ IF Tried[trying] = "login"
       THEN Issue /\ UNCHANGED lost
       ELSE UNCHANGED serverVars
    /\ LET token == IF Tried[trying] = "login" THEN issued + 1 ELSE UserToken IN
       IF Legacy
       THEN clientToken' = token /\ UNCHANGED secret
       ELSE secret' = token /\ UNCHANGED clientToken
    /\ AfterSuccess
    /\ UNCHANGED open

\* It does not, or it is nil: the next one is tried.
TryFails ==
    /\ pc = "try" /\ trying <= Len(Tried)
    /\ \/ UNCHANGED serverVars
       \/ Tried[trying] = "login" /\ Issue /\ lost' = lost \cup {issued + 1}
    /\ trying' = trying + 1
    /\ UNCHANGED <<open, pc, chosen, secret, clientToken>>

\* No method is left: an error, unless one was chosen.
NoneLeft ==
    /\ pc = "try" /\ trying > Len(Tried)
    /\ pc' = IF chosen = NoMethod THEN "idle"
             ELSE IF Legacy THEN "reread" ELSE "set"
    /\ UNCHANGED <<open, loginVars, clientToken, serverVars>>

\* wrappedAuth.Login: client.Token()
RereadToken ==
    /\ pc = "reread"
    /\ secret' = clientToken
    /\ pc' = "set"
    /\ UNCHANGED <<open, chosen, trying, clientToken, serverVars>>

SetToken ==
    /\ pc = "set"
    /\ clientToken' = secret
    /\ secret' = NoToken
    /\ pc' = "idle"
    /\ UNCHANGED <<open, chosen, trying, serverVars>>

-----------------------------------------------------------------------------
\* Close of an open handle; a closed one says fs.ErrClosed.
CloseHandle ==
    /\ pc = "idle" /\ open > 0
    /\ open' = open - 1
    /\ pc' = IF open = 1 THEN "logout" ELSE "idle"
    /\ UNCHANGED <<loginVars, clientToken, serverVars>>

\* Mutant of KeepsToken: Logout does not ask its method for a Logout.
NeverKeepsToken == FALSE

\* compositeAuthMethod.Logout leaves an unmanaged token alone.  vaultfs finds
\* no Logout on a wrappedAuth, whatever method is behind it.
KeepsToken == ~Legacy /\ Tried[chosen] = "token"

\* Logout by the last Close.  chosen stays as it is: the reset in the Logout of
\* the deprecated method is behind the wrappedAuth that hides it.
Logout ==
    /\ pc = "logout"
    /\ IF ~Legacy /\ chosen = NoMethod
       THEN pc' = "idle" /\ UNCHANGED <<live, lost>>
       ELSE /\ pc' = "clear"
            /\ IF KeepsToken
               THEN UNCHANGED <<live, lost>>
               ELSE \/ live' = live \ {clientToken} /\ UNCHANGED lost
                    \/ lost' = lost \cup {clientToken} /\ UNCHANGED live
    /\ UNCHANGED <<open, loginVars, clientToken, issued>>

ClearToken ==
    /\ pc = "clear"
    /\ clientToken' = NoToken
    /\ pc' = "idle"
    /\ UNCHANGED <<open, loginVars, serverVars>>

AuthNext ==
    /\ UNCHANGED method
    /\ \/ OpenHandle \/ Use \/ CloseHandle
       \/ Login \/ TrySucceeds \/ TryFails \/ NoneLeft \/ RereadToken \/ SetToken
       \/ Logout \/ ClearToken

AuthSpec == AuthInit /\ [][AuthNext]_authVars

-----------------------------------------------------------------------------
(* Properties *)

\* A Login leaves no live token behind but the one that it gives the client,
\* and a logout none but those whose revocation the network lost.
NoTokenLeak == live \ ({UserToken} \cup lost) \subseteq {clientToken, secret}

\* Behind the composite method the user's own token is never revoked, whichever
\* of its methods was chosen.  (wrappedAuth does not keep it.)
UserTokenKept == ~Legacy => UserToken \in live

\* A Login without an error gives the client a token, the first time and after
\* every logout ("will try each of the given methods in order, until one
\* succeeds", vaultauth/auth.go:64).
LoginYieldsToken == pc # "nil dereference" /\ (pc = "set" => secret # NoToken)

=============================================================================
