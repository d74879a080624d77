---------------------------- MODULE VaultAuthProofs ----------------------------
(***************************************************************************)
(* Proofs about VaultAuth, for any chains of methods, any number of        *)
(* handles and any number of tokens; and about what a path of Vault stands *)
(* for (VaultMounts), for any mounts, nested in any way and visited in any *)
(* order, and any path.                                                    *)
(***************************************************************************)
EXTENDS VaultAuth, VaultMounts, SequenceTheorems, TLAPS

\* The types, and that the methods of a chain are those that there are.
TypeInv ==
    /\ AuthTypeOK
    /\ Tried \in Seq({"nil", "token", "login"})
    /\ method.kind \in {"composite", "legacy"}
    /\ Legacy => \A i \in DOMAIN Tried : Tried[i] # "nil"
    /\ chosen # NoMethod => Tried[chosen] # "nil"

\* What the server accepts it has issued.
IssuedInv == UserToken <= issued /\ live \subseteq UserToken..issued

\* Where the goroutine may have a token that the client has not, and the other
\* way round.
LoginInv ==
    /\ pc \in {"login", "try"} => clientToken = NoToken
    /\ pc = "try" => chosen = NoMethod
    /\ pc # "set" => secret = NoToken
    /\ pc = "set" => clientToken = IF Legacy THEN secret ELSE NoToken
    /\ pc = "reread" => Legacy
    /\ pc = "clear" => clientToken \notin live \ ({UserToken} \cup lost)

\* Behind the composite method the client has a token of the method chosen.
ChosenInv ==
    ~Legacy /\ chosen # NoMethod =>
        /\ Tried[chosen] = "token" => {clientToken, secret} \subseteq {NoToken, UserToken}
        /\ Tried[chosen] = "login" => UserToken \notin {clientToken, secret}

IInv == TypeInv /\ IssuedInv /\ LoginInv /\ ChosenInv /\ NoTokenLeak /\ UserTokenKept

\* No token, and the user's, are two of the tokens there may be.
LEMMA TokenFacts ==
    /\ NoToken \in AuthTokens /\ UserToken \in AuthTokens
    /\ NoToken # UserToken
    /\ 0 \in 0..MaxOpen
  BY BoundAssumption DEF AuthTokens, NoToken, UserToken

\* What the assumption says of the chain of a filesystem.
LEMMA ChainFacts ==
    ASSUME NEW m \in Methods
    PROVE  /\ m.chain \in Seq({"nil", "token", "login"})
           /\ m.kind \in {"composite", "legacy"}
           /\ m.kind = "legacy" => \A i \in DOMAIN m.chain : m.chain[i] # "nil"
  BY MethodsAssumption

\* The chain is a sequence, the first of whose methods has the number 1.
LEMMA TriedFacts ==
    ASSUME Tried \in Seq({"nil", "token", "login"})
    PROVE  /\ Len(Tried) \in Nat /\ DOMAIN Tried = 1..Len(Tried)
           /\ NoMethod \notin DOMAIN Tried
           /\ \A i \in DOMAIN Tried : Tried[i] \in {"nil", "token", "login"}
  BY DEF NoMethod

\* A filesystem keeps its method.
LEMMA SameMethod ==
    ASSUME [AuthNext]_authVars
    PROVE  method' = method /\ Tried' = Tried /\ Legacy' = Legacy
<1>1. method' = method
  BY DEF AuthNext, authVars
<1> QED  BY <1>1 DEF Tried, Legacy

\* A token that the server issues is a new one.
LEMMA IssueFacts ==
    ASSUME TypeInv, Issue
    PROVE  /\ live' = live \cup {issued + 1}
           /\ issued + 1 \in AuthTokens /\ issued' \in AuthTokens
           /\ live' \subseteq AuthTokens
           /\ IssuedInv => IssuedInv' /\ issued + 1 \notin {NoToken, UserToken}
<1>1. issued \in 0..MaxToken /\ MaxToken \in Nat /\ issued < MaxToken
  BY BoundAssumption DEF TypeInv, AuthTypeOK, AuthTokens, NoToken, Issue
<1>2. live' = live \cup {issued + 1} /\ issued' = issued + 1
  BY DEF Issue
<1>3. issued + 1 \in AuthTokens
  BY <1>1 DEF AuthTokens, NoToken
<1>4. live' \subseteq AuthTokens
  BY <1>2, <1>3 DEF TypeInv, AuthTypeOK
<1>5. ASSUME IssuedInv PROVE IssuedInv' /\ issued + 1 \notin {NoToken, UserToken}
  BY <1>1, <1>2, <1>5 DEF IssuedInv, NoToken, UserToken
<1> QED  BY <1>2, <1>3, <1>4, <1>5

-----------------------------------------------------------------------------
\* Every variable keeps its type at the first state ...
LEMMA InitTypes == AuthInit => TypeInv
<1> SUFFICES ASSUME AuthInit PROVE TypeInv
  OBVIOUS
<1>1. /\ Tried \in Seq({"nil", "token", "login"})
      /\ method.kind \in {"composite", "legacy"}
      /\ Legacy => \A i \in DOMAIN Tried : Tried[i] # "nil"
  BY ChainFacts DEF AuthInit, Tried, Legacy
<1>2. 1 \in 1..(Len(Tried) + 1)
  BY <1>1, TriedFacts
<1>3. clientToken \in AuthTokens
  BY TokenFacts, BoundAssumption DEF AuthInit
<1>4. AuthTypeOK
  BY <1>1, <1>2, <1>3, TokenFacts DEF AuthInit, AuthTypeOK
<1> QED  BY <1>1, <1>4 DEF TypeInv, AuthInit

\* What a step has to keep of the types.
LEMMA KeepsTypes ==
    ASSUME TypeInv, method' = method, Tried' = Tried, Legacy' = Legacy,
           open' \in 0..MaxOpen,
           pc' \in {"idle", "login", "try", "reread", "set", "logout", "clear",
                    "nil dereference"},
           chosen' = chosen \/ (chosen' \in DOMAIN Tried /\ Tried[chosen'] # "nil"),
           trying' \in 1..(Len(Tried) + 1),
           secret' \in AuthTokens, clientToken' \in AuthTokens,
           live' \subseteq AuthTokens, issued' \in AuthTokens, lost' \subseteq AuthTokens
    PROVE  TypeInv'
<1>1. chosen' \in {NoMethod} \cup DOMAIN Tried
  BY DEF TypeInv, AuthTypeOK
<1>2. chosen' # NoMethod => Tried[chosen'] # "nil"
  BY DEF TypeInv
<1>3. AuthTypeOK'
  BY <1>1 DEF AuthTypeOK, TypeInv, AuthTokens
<1> QED  BY <1>2, <1>3 DEF TypeInv

\* ... and in every step.
LEMMA NextTypes == TypeInv /\ [AuthNext]_authVars => TypeInv'
<1> SUFFICES ASSUME TypeInv, [AuthNext]_authVars PROVE TypeInv'
  OBVIOUS
<1>a. /\ method' = method /\ Tried' = Tried /\ Legacy' = Legacy
      /\ Len(Tried) \in Nat /\ DOMAIN Tried = 1..Len(Tried)
  BY SameMethod, TriedFacts DEF TypeInv
<1>b. /\ open \in 0..MaxOpen /\ trying \in 1..(Len(Tried) + 1)
      /\ secret \in AuthTokens /\ clientToken \in AuthTokens
      /\ live \subseteq AuthTokens /\ issued \in AuthTokens /\ lost \subseteq AuthTokens
      /\ pc \in {"idle", "login", "try", "reread", "set", "logout", "clear",
                 "nil dereference"}
  BY DEF TypeInv, AuthTypeOK
<1>1. CASE UNCHANGED authVars
  BY <1>1, <1>a, <1>b, KeepsTypes DEF authVars, loginVars, serverVars
<1>2. CASE OpenHandle
  <2>1. open' \in 0..MaxOpen
    BY <1>2, <1>b, BoundAssumption DEF OpenHandle
  <2> QED  BY <1>2, <1>a, <1>b, <2>1, KeepsTypes DEF OpenHandle, loginVars, serverVars
<1>3. CASE Use
  BY <1>3, <1>a, <1>b, KeepsTypes DEF Use, loginVars, serverVars
<1>4. CASE CloseHandle
  <2>1. open' \in 0..MaxOpen
    BY <1>4, <1>b, BoundAssumption DEF CloseHandle
  <2> QED  BY <1>4, <1>a, <1>b, <2>1, KeepsTypes DEF CloseHandle, loginVars, serverVars
<1>5. CASE Login
  <2>1. trying' \in 1..(Len(Tried) + 1)
    <3>1. trying' = 1
      BY <1>5 DEF Login
    <3> QED  BY <1>a, <3>1
  <2>2. pc' \in {"try", "reread", "nil dereference"}
    BY <1>5 DEF Login
  <2> QED  BY <1>5, <1>a, <1>b, <2>1, <2>2, KeepsTypes DEF Login, serverVars
<1>6. CASE TrySucceeds
  <2>1. trying \in DOMAIN Tried /\ Tried[trying] # "nil"
    BY <1>6, <1>a, <1>b DEF TrySucceeds
  <2>2. chosen' = trying /\ trying' = trying /\ open' = open /\ pc' \in {"reread", "set"}
    BY <1>6 DEF TrySucceeds, AfterSuccess
  <2>3. /\ clientToken' \in AuthTokens /\ secret' \in AuthTokens
        /\ live' \subseteq AuthTokens /\ issued' \in AuthTokens /\ lost' \subseteq AuthTokens
    <3>1. CASE Tried[trying] = "login"
      BY <1>6, <1>b, <3>1, IssueFacts DEF TrySucceeds
    <3>2. CASE Tried[trying] # "login"
      BY <1>6, <1>b, <3>2, TokenFacts DEF TrySucceeds, serverVars
    <3> QED  BY <3>1, <3>2
  <2> QED  BY <1>a, <1>b, <2>1, <2>2, <2>3, KeepsTypes
<1>7. CASE TryFails
  <2>1. trying' \in 1..(Len(Tried) + 1)
    BY <1>7, <1>a, <1>b DEF TryFails
  <2>2. live' \subseteq AuthTokens /\ issued' \in AuthTokens /\ lost' \subseteq AuthTokens
    BY <1>7, <1>b, IssueFacts DEF TryFails, serverVars
  <2> QED  BY <1>7, <1>a, <1>b, <2>1, <2>2, KeepsTypes DEF TryFails
<1>8. CASE NoneLeft
  <2>1. pc' \in {"idle", "reread", "set"}
    BY <1>8 DEF NoneLeft
  <2> QED  BY <1>8, <1>a, <1>b, <2>1, KeepsTypes DEF NoneLeft, loginVars, serverVars
<1>9. CASE RereadToken
  BY <1>9, <1>a, <1>b, KeepsTypes DEF RereadToken, serverVars
<1>10. CASE SetToken
  BY <1>10, <1>a, <1>b, TokenFacts, KeepsTypes DEF SetToken, serverVars
<1>11. CASE Logout
  <2>1. pc' \in {"idle", "clear"} /\ live' \subseteq AuthTokens /\ lost' \subseteq AuthTokens
    BY <1>11, <1>b DEF Logout
  <2> QED  BY <1>11, <1>a, <1>b, <2>1, KeepsTypes DEF Logout, loginVars
<1>12. CASE ClearToken
  BY <1>12, <1>a, <1>b, TokenFacts, KeepsTypes DEF ClearToken, loginVars, serverVars
<1> QED  BY <1>1, <1>2, <1>3, <1>4, <1>5, <1>6, <1>7, <1>8, <1>9, <1>10, <1>11, <1>12
         DEF AuthNext

\* The type invariant of VaultAuth: every variable keeps its type, whatever the
\* chain of methods that Login tries.
THEOREM TypeCorrect == AuthSpec => []AuthTypeOK
<1>1. TypeInv => AuthTypeOK
  BY DEF TypeInv
<1> QED  BY InitTypes, NextTypes, <1>1, PTL DEF AuthSpec

-----------------------------------------------------------------------------
\* The first state has no token to lose but the one the client began with.
LEMMA InitInv == AuthInit => IInv
<1> SUFFICES ASSUME AuthInit PROVE IInv
  OBVIOUS
<1>1. IssuedInv
  BY DEF AuthInit, IssuedInv, UserToken
<1>2. LoginInv /\ ChosenInv
  BY DEF AuthInit, LoginInv, ChosenInv
<1>3. NoTokenLeak /\ UserTokenKept
  BY DEF AuthInit, NoTokenLeak, UserTokenKept
<1> QED  BY InitTypes, <1>1, <1>2, <1>3 DEF IInv

\* Tried in turn, a method that succeeds is the only one that did: its token is
\* in the client or in the secret, and the loop ends.
LEMMA TrySucceedsInv ==
    ASSUME IInv, TypeInv', TrySucceeds, Tried' = Tried, Legacy' = Legacy
    PROVE  IInv'
<1>1. /\ pc = "try" /\ clientToken = NoToken /\ secret = NoToken
      /\ chosen' = trying /\ pc' = IF Legacy THEN "reread" ELSE "set"
  BY DEF IInv, LoginInv, TrySucceeds, AfterSuccess
<1>2. trying \in DOMAIN Tried /\ Tried[trying] \in {"token", "login"} /\ trying # NoMethod
  <2>1. trying \in 1..(Len(Tried) + 1) /\ Tried \in Seq({"nil", "token", "login"})
    BY DEF IInv, TypeInv, AuthTypeOK
  <2>2. trying <= Len(Tried) /\ Tried[trying] # "nil"
    BY DEF TrySucceeds
  <2>3. trying \in DOMAIN Tried
    BY <2>1, <2>2, TriedFacts
  <2> QED  BY <2>1, <2>2, <2>3, TriedFacts
<1>3. CASE Tried[trying] = "login"
  <2>1. /\ Issue /\ lost' = lost
        /\ IF Legacy THEN clientToken' = issued + 1 /\ secret' = secret
                     ELSE secret' = issued + 1 /\ clientToken' = clientToken
    BY <1>3 DEF TrySucceeds
  <2>2. /\ live' = live \cup {issued + 1} /\ IssuedInv'
        /\ issued + 1 \notin {NoToken, UserToken}
    BY <2>1, IssueFacts DEF IInv
  <2>3. LoginInv'
    BY <1>1, <2>1 DEF LoginInv
  <2>4. ChosenInv'
    BY <1>1, <1>3, <2>1, <2>2, TokenFacts DEF ChosenInv
  <2>5. NoTokenLeak' /\ UserTokenKept'
    BY <1>1, <2>1, <2>2 DEF IInv, NoTokenLeak, UserTokenKept
  <2> QED  BY <2>2, <2>3, <2>4, <2>5 DEF IInv
<1>4. CASE Tried[trying] = "token"
  <2>1. /\ live' = live /\ issued' = issued /\ lost' = lost
        /\ IF Legacy THEN clientToken' = UserToken /\ secret' = secret
                     ELSE secret' = UserToken /\ clientToken' = clientToken
    BY <1>4 DEF TrySucceeds, serverVars
  <2>2. LoginInv'
    BY <1>1, <2>1 DEF LoginInv
  <2>3. ChosenInv'
    BY <1>1, <1>4, <2>1 DEF ChosenInv
  <2>4. IssuedInv' /\ NoTokenLeak' /\ UserTokenKept'
    BY <1>1, <2>1 DEF IInv, IssuedInv, NoTokenLeak, UserTokenKept
  <2> QED  BY <2>2, <2>3, <2>4 DEF IInv
<1> QED  BY <1>2, <1>3, <1>4

\* A logout revokes the client's token or loses its revocation, and spares a token
\* that the chosen method keeps, which is the user's.
LEMMA LogoutInv ==
    ASSUME IInv, TypeInv', Logout, Tried' = Tried, Legacy' = Legacy
    PROVE  IInv'
<1>1. /\ chosen' = chosen /\ secret' = secret /\ clientToken' = clientToken
      /\ issued' = issued /\ pc = "logout" /\ secret = NoToken
  BY DEF Logout, loginVars, IInv, LoginInv
<1>2. live' \subseteq live /\ live \ live' \subseteq {clientToken} /\ lost \subseteq lost'
  BY DEF Logout
<1>3. /\ pc' \in {"idle", "clear"}
      /\ pc' = "clear" => clientToken \notin live' \ ({UserToken} \cup lost')
  <2>1. CASE KeepsToken /\ ~Legacy /\ chosen # NoMethod
    <3>1. clientToken \in {NoToken, UserToken}
      BY <2>1 DEF KeepsToken, IInv, ChosenInv
    <3>2. NoToken \notin live'
      BY <1>2 DEF IInv, IssuedInv, NoToken, UserToken
    <3> QED  BY <3>1, <3>2 DEF Logout
  <2>2. CASE ~KeepsToken \/ Legacy \/ chosen = NoMethod
    BY <2>2 DEF Logout, KeepsToken
  <2> QED  BY <2>1, <2>2
<1>4. LoginInv'
  BY <1>1, <1>3 DEF LoginInv
<1>5. ChosenInv'
  BY <1>1 DEF IInv, ChosenInv
<1>6. IssuedInv' /\ NoTokenLeak'
  BY <1>1, <1>2 DEF IInv, IssuedInv, NoTokenLeak
<1>7. UserTokenKept'
  <2> SUFFICES ASSUME ~Legacy PROVE UserToken \in live'
    BY DEF UserTokenKept
  <2>1. UserToken \in live
    BY DEF IInv, UserTokenKept
  <2>2. CASE live' = live
    BY <2>1, <2>2
  <2>3. CASE live' # live
    <3>1. chosen # NoMethod /\ ~KeepsToken
      BY <2>3 DEF Logout
    <3>2. Tried[chosen] = "login"
      BY <3>1, TriedFacts DEF KeepsToken, IInv, TypeInv, AuthTypeOK
    <3>3. clientToken # UserToken
      BY <3>1, <3>2 DEF IInv, ChosenInv
    <3> QED  BY <1>2, <2>1, <3>3
  <2> QED  BY <2>2, <2>3
<1> QED  BY <1>4, <1>5, <1>6, <1>7 DEF IInv

\* No step leaves a live token behind or revokes the user's.
LEMMA NextInv == IInv /\ [AuthNext]_authVars => IInv'
<1> SUFFICES ASSUME IInv, [AuthNext]_authVars PROVE IInv'
  OBVIOUS
<1>a. TypeInv' /\ Tried' = Tried /\ Legacy' = Legacy
  BY NextTypes, SameMethod DEF IInv
<1>1. CASE TrySucceeds
  BY <1>a, <1>1, TrySucceedsInv
<1>2. CASE Logout
  BY <1>a, <1>2, LogoutInv
<1>3. CASE TryFails
  <2>1. pc = "try" /\ UNCHANGED <<pc, chosen, secret, clientToken>>
    BY <1>3 DEF TryFails
  <2>2. LoginInv' /\ ChosenInv'
    BY <1>a, <2>1 DEF IInv, LoginInv, ChosenInv
  <2>3. \/ live' = live /\ issued' = issued /\ lost' = lost
        \/ /\ live' = live \cup {issued + 1} /\ lost' = lost \cup {issued + 1}
           /\ IssuedInv'
    BY <1>3, IssueFacts DEF TryFails, serverVars, IInv
  <2>4. IssuedInv' /\ NoTokenLeak' /\ UserTokenKept'
    BY <1>a, <2>1, <2>3 DEF IInv, IssuedInv, NoTokenLeak, UserTokenKept
  <2> QED  BY <1>a, <2>2, <2>4 DEF IInv
<1>4. ASSUME UNCHANGED <<chosen, secret, clientToken, live, issued, lost>>, LoginInv'
      PROVE  IInv'
  BY <1>a, <1>4 DEF IInv, IssuedInv, ChosenInv, NoTokenLeak, UserTokenKept
<1>5. CASE UNCHANGED authVars
  <2>1. LoginInv'
    BY <1>a, <1>5 DEF authVars, loginVars, serverVars, IInv, LoginInv
  <2> QED  BY <1>4, <1>5, <2>1 DEF authVars, loginVars, serverVars
<1>6. CASE OpenHandle \/ CloseHandle
  <2>1. LoginInv'
    BY <1>a, <1>6 DEF OpenHandle, CloseHandle, loginVars, IInv, LoginInv
  <2> QED  BY <1>4, <1>6, <2>1 DEF OpenHandle, CloseHandle, loginVars, serverVars
<1>7. CASE Use
  <2>1. LoginInv'
    BY <1>a, <1>7 DEF Use, loginVars, IInv, LoginInv
  <2> QED  BY <1>4, <1>7, <2>1 DEF Use, loginVars, serverVars
<1>8. CASE Login
  <2>1. LoginInv'
    BY <1>a, <1>8 DEF Login, IInv, LoginInv
  <2> QED  BY <1>4, <1>8, <2>1 DEF Login, serverVars
<1>9. CASE NoneLeft
  <2>1. pc' = "idle" /\ secret' = secret /\ secret = NoToken
    BY <1>9 DEF NoneLeft, loginVars, IInv, LoginInv
  <2>2. LoginInv'
    BY <2>1 DEF LoginInv
  <2> QED  BY <1>4, <1>9, <2>2 DEF NoneLeft, loginVars, serverVars
<1>10. CASE RereadToken
  <2>1. /\ Legacy /\ secret = NoToken /\ pc' = "set" /\ secret' = clientToken
        /\ UNCHANGED <<chosen, clientToken, live, issued, lost>>
    BY <1>10 DEF RereadToken, serverVars, IInv, LoginInv
  <2>2. LoginInv'
    BY <1>a, <2>1 DEF LoginInv
  <2>3. ChosenInv'
    BY <1>a, <2>1 DEF ChosenInv
  <2>4. NoToken \notin live
    BY DEF IInv, IssuedInv, NoToken, UserToken
  <2>5. IssuedInv' /\ NoTokenLeak' /\ UserTokenKept'
    BY <1>a, <2>1, <2>4 DEF IInv, IssuedInv, NoTokenLeak, UserTokenKept
  <2> QED  BY <1>a, <2>2, <2>3, <2>5 DEF IInv
<1>11. CASE SetToken
  <2>1. /\ pc' = "idle" /\ secret' = NoToken /\ clientToken' = secret
        /\ clientToken \in {NoToken, secret}
        /\ UNCHANGED <<chosen, live, issued, lost>>
    BY <1>11 DEF SetToken, serverVars, IInv, LoginInv
  <2>2. LoginInv' /\ ChosenInv'
    BY <1>a, <2>1, TokenFacts DEF IInv, LoginInv, ChosenInv
  <2>3. NoToken \notin live
    BY DEF IInv, IssuedInv, NoToken, UserToken
  <2>4. IssuedInv' /\ NoTokenLeak' /\ UserTokenKept'
    BY <1>a, <2>1, <2>3 DEF IInv, IssuedInv, NoTokenLeak, UserTokenKept
  <2> QED  BY <1>a, <2>2, <2>4 DEF IInv
<1>12. CASE ClearToken
  <2>1. /\ pc' = "idle" /\ secret' = secret /\ secret = NoToken /\ clientToken' = NoToken
        /\ clientToken \notin live \ ({UserToken} \cup lost)
        /\ UNCHANGED <<chosen, live, issued, lost>>
    BY <1>12 DEF ClearToken, loginVars, serverVars, IInv, LoginInv
  <2>2. LoginInv' /\ ChosenInv'
    BY <1>a, <2>1, TokenFacts DEF LoginInv, ChosenInv
  <2>3. IssuedInv' /\ NoTokenLeak' /\ UserTokenKept'
    BY <1>a, <2>1 DEF IInv, IssuedInv, NoTokenLeak, UserTokenKept
  <2> QED  BY <1>a, <2>2, <2>3 DEF IInv
<1> QED  BY <1>1, <1>2, <1>3, <1>5, <1>6, <1>7, <1>8, <1>9, <1>10, <1>11, <1>12 DEF AuthNext

\* A Login leaves no live token behind but the one that it gives the client, and a
\* logout none but those whose revocation the network lost (vault.go:643, 405).
THEOREM LoginLeaksNoToken == AuthSpec => []NoTokenLeak
<1>1. IInv => NoTokenLeak
  BY DEF IInv
<1> QED  BY InitInv, NextInv, <1>1, PTL DEF AuthSpec

\* Behind the composite method the user's own token is never revoked, whichever
\* methods it tries (vaultauth/auth.go).
THEOREM CompositeKeepsUserToken == AuthSpec => []UserTokenKept
<1>1. IInv => UserTokenKept
  BY DEF IInv
<1> QED  BY InitInv, NextInv, <1>1, PTL DEF AuthSpec

-----------------------------------------------------------------------------
(* The mount of a path *)

\* The types, and that the best match is a match that is not malformed.
MountTypes ==
    /\ path \in Paths
    /\ mounts \subseteq Mounts /\ todo \subseteq mounts
    /\ best \in mounts \cup {NoMount}
    /\ best # NoMount => Matches(best) /\ ~best.bad
    /\ stage \in {"visit", "found", "error", "sent"}

\* Of the mounts visited, the best match is the longest, and there is one as soon
\* as a mount matches.
VisitInv ==
    stage # "error" =>
        \A m \in mounts \ todo : Matches(m) =>
            /\ ~m.bad /\ best # NoMount
            /\ Len(MountPath(m)) <= Len(MountPath(best))

\* The loop ends when all have been visited, with a match or with an error.
EndInv ==
    /\ stage \in {"found", "sent"} => todo = {} /\ best # NoMount
    /\ stage = "error" =>
          (\A m \in mounts : ~Matches(m)) \/ (\E m \in mounts : Matches(m) /\ m.bad)

MountInv == MountTypes /\ VisitInv /\ EndInv

-----------------------------------------------------------------------------
\* The segments of paths; that "auth" is a string the provers do not know.
Strings == STRING \cup {"auth"}

\* A path over some segments is one over more.
LEMMA StringPaths ==
    ASSUME NEW S, NEW T, S \subseteq T, NEW p \in Seq(S)
    PROVE  p \in Seq(T)
  OBVIOUS

\* A path of one segment.
LEMMA OneSegment ==
    ASSUME NEW S, NEW s \in S
    PROVE  <<s>> \in Seq(S) /\ Len(<<s>>) = 1 /\ <<s>>[1] = s
  OBVIOUS

\* The path of a mount is a sequence that is not empty.
LEMMA MountFacts ==
    ASSUME NEW m \in Mounts
    PROVE  /\ MountPath(m) \in Seq(Strings)
           /\ Len(MountPath(m)) \in Nat \ {0}
           /\ m # NoMount
<1>1. m.group \in Groups /\ m.name \in Seq(STRING) /\ m.name # <<>>
  BY MountsAssumption
<1>a. m.name \in Seq(Strings)
  BY <1>1, StringPaths DEF Strings
<1>2. m # NoMount
  BY <1>1 DEF Groups, NoMount
<1>3. Len(m.name) \in Nat \ {0}
  BY <1>1
<1>4. CASE m.group = "auth"
  <2>1. MountPath(m) = <<"auth">> \o m.name
    BY <1>4 DEF MountPath
  <2> DEFINE auth == <<"auth">>
  <2>2. auth \in Seq(Strings) /\ Len(auth) = 1
    BY OneSegment DEF Strings
  <2> HIDE DEF auth
  <2>3. auth \o m.name \in Seq(Strings) /\ Len(auth \o m.name) = Len(auth) + Len(m.name)
    BY <1>a, <2>2, ConcatProperties
  <2>4. MountPath(m) = auth \o m.name
    BY <2>1 DEF auth
  <2> QED  BY <1>2, <1>3, <2>2, <2>3, <2>4
<1>5. CASE m.group # "auth"
  BY <1>a, <1>2, <1>3, <1>5 DEF MountPath
<1> QED  BY <1>4, <1>5

\* A mount matches if the path lies in it, and is no longer than the path then.
LEMMA MatchFacts ==
    ASSUME NEW m \in Mounts, path \in Paths
    PROVE  Matches(m) <=> \E n \in 1..Len(path) : MountPath(m) = SubSeq(path, 1, n)
<1> DEFINE mp == MountPath(m)
<1>1. path \in Seq(STRING) /\ mp \in Seq(Strings) /\ Len(mp) \in Nat \ {0}
  BY MountFacts, MountsAssumption
<1> HIDE DEF mp
<1>2. SubSeq(mp, 1, Len(mp)) = mp
  BY <1>1
<1>3. ASSUME Matches(m) PROVE \E n \in 1..Len(path) : mp = SubSeq(path, 1, n)
  <2>1. Len(mp) <= Len(path) /\ mp = SubSeq(path, 1, Len(mp))
    BY <1>2, <1>3 DEF Matches, IsPrefix, mp
  <2>2. Len(mp) \in 1..Len(path)
    BY <1>1, <2>1
  <2> QED  BY <2>1, <2>2
<1>4. ASSUME NEW n \in 1..Len(path), mp = SubSeq(path, 1, n)
      PROVE  Matches(m)
  <2>1. Len(mp) = n
    BY <1>1, <1>4
  <2>2. IsPrefix(mp, path)
    BY <1>2, <1>4, <2>1, <1>1 DEF IsPrefix
  <2> QED  BY <2>2 DEF Matches, mp
<1> QED  BY <1>3, <1>4 DEF mp

\* Before the loop there is no match.
LEMMA InitMountInv == MountInit => MountInv
<1> SUFFICES ASSUME MountInit PROVE MountInv
  OBVIOUS
<1>1. mounts \subseteq Mounts
  BY DEF MountInit, kSubset
<1>2. MountTypes
  BY <1>1 DEF MountTypes, MountInit
<1>3. VisitInv /\ EndInv
  BY DEF VisitInv, EndInv, MountInit
<1> QED  BY <1>2, <1>3 DEF MountInv

\* One round of the loop.
LEMMA VisitKeeps ==
    ASSUME MountInv, NEW m \in Mounts, Visit(m)
    PROVE  MountInv'
<1>1. /\ m \in todo /\ todo' = todo \ {m} /\ stage = "visit"
      /\ path' = path /\ mounts' = mounts
      /\ m \in mounts /\ mounts \subseteq Mounts /\ path \in Paths
      /\ \A k : Matches(k)' <=> Matches(k)
  BY DEF Visit, MountInv, MountTypes, Matches, MountPath
<1>2. \A k \in mounts : k # NoMount
  BY <1>1, MountFacts
<1>3. \A k \in mounts : Len(MountPath(k)) \in Nat
  BY <1>1, MountFacts
<1>4. CASE ~Matches(m)
  <2>1. best' = best /\ stage' = stage
    BY <1>4 DEF Visit
  <2> QED  BY <1>1, <1>4, <2>1 DEF MountInv, MountTypes, VisitInv, EndInv
<1>5. CASE Matches(m) /\ m.bad
  <2>1. best' = best /\ stage' = "error"
    BY <1>5 DEF Visit
  <2> QED  BY <1>1, <1>5, <2>1 DEF MountInv, MountTypes, VisitInv, EndInv
<1>6. CASE Matches(m) /\ ~m.bad
  <2>1. best' = (IF Longer(m) THEN m ELSE best) /\ stage' = stage
    BY <1>6 DEF Visit
  <2>2. best' # NoMount /\ best' \in mounts /\ Matches(best') /\ ~best'.bad
    BY <1>1, <1>2, <1>6, <2>1 DEF MountInv, MountTypes, Longer
  <2>3. /\ Len(MountPath(m)) <= Len(MountPath(best'))
        /\ best # NoMount => Len(MountPath(best)) <= Len(MountPath(best'))
    BY <1>1, <1>3, <2>1 DEF MountInv, MountTypes, Longer
  <2>4. VisitInv'
    <3> SUFFICES ASSUME NEW k \in mounts \ todo', Matches(k)
                 PROVE  ~k.bad /\ Len(MountPath(k)) <= Len(MountPath(best'))
      BY <1>1, <2>2 DEF VisitInv, MountPath
    <3>1. CASE k = m
      BY <1>6, <2>3, <3>1
    <3>2. CASE k # m
      <4>1. ~k.bad /\ best # NoMount /\ Len(MountPath(k)) <= Len(MountPath(best))
        BY <1>1, <3>2 DEF MountInv, VisitInv
      <4>2. best \in mounts
        BY <4>1 DEF MountInv, MountTypes
      <4> QED  BY <1>3, <2>2, <2>3, <4>1, <4>2
    <3> QED  BY <3>1, <3>2
  <2>5. MountTypes' /\ EndInv'
    BY <1>1, <2>1, <2>2 DEF MountInv, MountTypes, EndInv
  <2> QED  BY <2>4, <2>5 DEF MountInv
<1> QED  BY <1>4, <1>5, <1>6

\* No step changes what has been found.
LEMMA NextMountInv == MountInv /\ [MountNext]_mountVars => MountInv'
<1> SUFFICES ASSUME MountInv, [MountNext]_mountVars PROVE MountInv'
  OBVIOUS
<1>1. CASE UNCHANGED mountVars
  BY <1>1 DEF mountVars, MountInv, MountTypes, VisitInv, EndInv, Matches, MountPath
<1>2. ASSUME NEW m \in Mounts, Visit(m) PROVE MountInv'
  BY <1>2, VisitKeeps
<1>3. CASE Visited
  <2>1. /\ todo = {} /\ stage = "visit"
        /\ stage' = IF best = NoMount THEN "error" ELSE "found"
        /\ UNCHANGED <<path, mounts, todo, best>>
        /\ \A k : Matches(k)' <=> Matches(k)
    BY <1>3 DEF Visited, Matches, MountPath
  <2> QED  BY <2>1 DEF MountInv, MountTypes, VisitInv, EndInv, MountPath
<1>4. CASE Read \/ List \/ Again
  <2>1. /\ stage \in {"found", "sent"} /\ stage' \in {"found", "sent"}
        /\ UNCHANGED <<path, mounts, todo, best>>
        /\ \A k : Matches(k)' <=> Matches(k)
    BY <1>4 DEF Read, List, Again, Send, Matches, MountPath
  <2> QED  BY <2>1 DEF MountInv, MountTypes, VisitInv, EndInv, MountPath
<1>5. CASE Retry
  <2>1. /\ stage' = "visit" /\ todo' = mounts /\ best' = NoMount
        /\ UNCHANGED <<path, mounts>>
    BY <1>5 DEF Retry
  <2> QED  BY <2>1 DEF MountInv, MountTypes, VisitInv, EndInv
<1> QED  BY <1>1, <1>2, <1>3, <1>4, <1>5 DEF MountNext

\* The invariant says what the property does.
LEMMA InnermostFollows == MountInv => InnermostMount
<1> SUFFICES ASSUME MountInv PROVE InnermostMount
  OBVIOUS
<1>1. Above = {m \in mounts : Matches(m)}
  <2>1. \A m \in mounts : Matches(m) <=> \E n \in 1..Len(path) : MountPath(m) = SubSeq(path, 1, n)
    BY MatchFacts DEF MountInv, MountTypes
  <2> QED  BY <2>1 DEF Above
<1>2. CASE stage \in {"found", "sent"}
  <2>1. todo = {} /\ best \in mounts /\ Matches(best)
    BY <1>2 DEF MountInv, MountTypes, EndInv
  <2>2. \A m \in mounts : Matches(m) => ~m.bad /\ Len(MountPath(m)) <= Len(MountPath(best))
    BY <1>2, <2>1 DEF MountInv, VisitInv
  <2> QED  BY <1>1, <1>2, <2>1, <2>2 DEF InnermostMount
<1>3. CASE stage = "error"
  BY <1>1, <1>3 DEF MountInv, EndInv, InnermostMount
<1>4. CASE stage = "visit"
  BY <1>4 DEF InnermostMount
<1> QED  BY <1>2, <1>3, <1>4 DEF MountInv, MountTypes

\* The mount found for a path does not depend on the order in which the map gives
\* the mounts (vault.go:731): it is the innermost one, and there is an error only
\* if the path has none, or one that is malformed.
THEOREM MountIsInnermost == MountSpec => []InnermostMount
  BY InitMountInv, NextMountInv, InnermostFollows, PTL DEF MountSpec

-----------------------------------------------------------------------------
(* Requests *)

\* What was sent is what Read and List make of the mount.
SentInv ==
    IF stage = "sent"
    THEN \/ request = [method |-> "GET", path |-> ReadPath]
         \/ request = [method |-> "LIST", path |-> ListPath]
    ELSE request = NoRequest

RequestInv == MountInv /\ SentInv

\* The path is that of its mount and the rest.
LEMMA PathOfMount ==
    ASSUME NEW m \in Mounts, path \in Paths, Matches(m)
    PROVE  path = MountPath(m) \o SecretPath(m)
<1>1. path \in Seq(STRING) /\ Len(path) \in Nat /\ Len(MountPath(m)) \in Nat \ {0}
  BY MountFacts, MountsAssumption
<1> DEFINE n == Len(MountPath(m))
<1>2. n <= Len(path) /\ SubSeq(MountPath(m), 1, n) = SubSeq(path, 1, n)
  BY DEF Matches, IsPrefix
<1>3. SubSeq(MountPath(m), 1, n) = MountPath(m)
  BY MountFacts, SubSeqFull
<1>4. SubSeq(path, 1, n) \o SubSeq(path, n + 1, Len(path)) = SubSeq(path, 1, Len(path))
  <2>1. n \in 1-1..Len(path) /\ Len(path) \in n..Len(path) /\ 1 \in 1..(Len(path) + 1)
    BY <1>1, <1>2
  <2> HIDE DEF n
  <2> QED  BY <1>1, <2>1, ConcatAdjacentSubSeq
<1>5. SubSeq(path, 1, Len(path)) = path
  BY <1>1, SubSeqFull
<1> QED  BY <1>2, <1>3, <1>4, <1>5 DEF SecretPath

\* The first state has sent nothing, and a request is of one of the two kinds.
LEMMA RequestInit == MountInit => RequestInv
  BY InitMountInv DEF RequestInv, SentInv, MountInit

\* A step keeps it.
LEMMA RequestNext == RequestInv /\ [MountNext]_mountVars => RequestInv'
<1> SUFFICES ASSUME RequestInv, [MountNext]_mountVars PROVE SentInv'
  BY NextMountInv DEF RequestInv
<1>a. ASSUME UNCHANGED <<path, slash, best>>
      PROVE  ReadPath' = ReadPath /\ ListPath' = ListPath
  BY <1>a DEF ReadPath, ListPath, SecretPath, MountPath
<1>1. CASE UNCHANGED mountVars
  BY <1>1, <1>a DEF mountVars, RequestInv, SentInv
<1>2. ASSUME NEW m \in Mounts, Visit(m) PROVE SentInv'
  <2>1. request' = request /\ stage = "visit" /\ stage' # "sent"
    BY <1>2 DEF Visit
  <2>2. request = NoRequest
    BY <2>1 DEF RequestInv, SentInv
  <2> QED  BY <2>1, <2>2 DEF SentInv
<1>3. CASE Visited \/ Retry
  <2>1. request' = request /\ stage \in {"visit", "error"} /\ stage' # "sent"
    BY <1>3 DEF Visited, Retry
  <2>2. request = NoRequest
    BY <2>1 DEF RequestInv, SentInv
  <2> QED  BY <2>1, <2>2 DEF SentInv
<1>4. CASE Read \/ List
  <2>1. UNCHANGED <<path, slash, best>>
    BY <1>4 DEF Read, List, Send
  <2>2. /\ stage' = "sent"
        /\ \/ request' = [method |-> "GET", path |-> ReadPath]
           \/ request' = [method |-> "LIST", path |-> ListPath]
    BY <1>4 DEF Read, List, Send
  <2> QED  BY <1>a, <2>1, <2>2 DEF SentInv
<1>5. CASE Again
  BY <1>5 DEF Again, SentInv
<1> QED  BY <1>1, <1>2, <1>3, <1>4, <1>5 DEF MountNext

\* A request with the path of the mount and the rest addresses the file.
LEMMA RequestFollows == RequestInv => SecretRequestAddressesFile
<1> SUFFICES ASSUME RequestInv, stage = "sent",
                    request.method = "GET" \/ best.group = "secret"
             PROVE  RequestAddressesFile
  BY DEF SecretRequestAddressesFile, RequestAddressesFile
<1>1. best \in Mounts /\ path = MountPath(best) \o SecretPath(best)
  <2>1. best \in mounts /\ mounts \subseteq Mounts /\ path \in Paths /\ Matches(best)
    BY DEF RequestInv, MountInv, MountTypes, EndInv
  <2> QED  BY <2>1, PathOfMount
<1>2. best.kv2 => best.group = "secret"
  BY <1>1, MountsAssumption
<1>3. best.group = "secret" => MountPath(best) = best.name
  BY DEF MountPath
<1>4. CASE request = [method |-> "GET", path |-> ReadPath]
  <2>1. request.method = "GET" /\ request.path = ReadPath
    BY <1>4
  <2> QED  BY <1>2, <1>3, <2>1 DEF ReadPath, RequestAddressesFile, ApiSegment
<1>5. CASE request = [method |-> "LIST", path |-> ListPath]
  <2>1. request.method = "LIST" /\ request.path = ListPath /\ best.group = "secret"
    BY <1>5
  <2>2. CASE best.kv2
    BY <1>3, <2>1, <2>2 DEF ListPath, RequestAddressesFile, ApiSegment
  <2>3. CASE ~best.kv2
    <3>1. best.name \o <<>> = best.name
      BY <1>1, MountsAssumption, ConcatEmptySeq
    <3> QED  BY <1>1, <1>3, <2>1, <2>3, <3>1 DEF ListPath, RequestAddressesFile
  <2> QED  BY <2>2, <2>3
<1> QED  BY <1>4, <1>5 DEF RequestInv, SentInv

\* Every GET, and in the mounts of secrets every LIST, goes to the path of the
\* file: literally or with the API's segment after the path of the mount
\* (vault.go:517).
THEOREM RequestsAddressFiles == MountSpec => []SecretRequestAddressesFile
  BY RequestInit, RequestNext, RequestFollows, PTL DEF MountSpec
=============================================================================
