---------------------------- MODULE GcpListProofs ----------------------------
(***************************************************************************)
(* Proofs about GcpList, for any project, any limit of goroutines and any  *)
(* order of answers, errors and cancellations.                             *)
(***************************************************************************)
EXTENDS GcpList, NameOrderProofs, SequenceTheorems

States == {"none", "running"} \cup Outcomes
Heard  == {"none"} \cup Errors

\* The types the proofs need: everything but the contents of the directory.
TypeInv ==
    /\ pc \in {"idle", "drain", "fetch"}
    /\ names \in Seq(Secrets)
    /\ spawned \in 0..Len(names)
    /\ rpc \in [Secrets -> [Parts -> States]]
    /\ inner \in [Secrets -> Heard]
    /\ ended \subseteq Secrets
    /\ outer \in Heard
    /\ reply \in {"none"} \cup Outcomes

\* What an errgroup makes of one more error is an error it has heard of.
LEMMA FirstErrorType ==
    ASSUME NEW old \in Heard, NEW new \in Outcomes
    PROVE  FirstError(old, new) \in Heard
BY DEF FirstError, Heard, Errors, Outcomes

\* The start of a listing.
LEMMA InitTypes == Init => TypeInv
BY DEF Init, TypeInv, NoRequests, States, Heard, Errors, Outcomes, Answers

\* Every step keeps the types.
LEMMA NextTypes == TypeInv /\ [Next]_vars => TypeInv'
<1> SUFFICES ASSUME TypeInv, [Next]_vars PROVE TypeInv'
  OBVIOUS
<1> USE DEF TypeInv, groupVars
<1>1. CASE ReadDir
  BY <1>1 DEF ReadDir, NoRequests, States, Heard
<1>2. CASE ReadCached
  BY <1>2 DEF ReadCached, Outcomes, Answers
<1>3. ASSUME NEW s \in Secrets, NextSecret(s) PROVE TypeInv'
  BY <1>3 DEF NextSecret
<1>4. ASSUME NEW err \in Answers \ {"ok"}, IteratorFails(err) PROVE TypeInv'
  BY <1>4 DEF IteratorFails, Outcomes
<1>5. CASE IteratorDone
  BY <1>5 DEF IteratorDone
<1>6. CASE Spawn
  <2>1. names[spawned + 1] \in Secrets /\ spawned + 1 \in 0..Len(names)
    BY <1>6 DEF Spawn
  <2>2. [part \in Parts |-> "running"] \in [Parts -> States]
    BY DEF States
  <2>3. QED BY <1>6, <2>1, <2>2 DEF Spawn
<1>7. ASSUME NEW s \in Secrets, NEW part \in Parts, NEW outcome \in Outcomes,
             Request(s, part, outcome)
      PROVE  TypeInv'
  <2>1. rpc' \in [Secrets -> [Parts -> States]]
    BY <1>7 DEF Request, States
  <2>2. inner' \in [Secrets -> Heard]
    BY <1>7, FirstErrorType DEF Request
  <2>3. QED BY <1>7, <2>1, <2>2 DEF Request
<1>8. ASSUME NEW s \in Secrets, Return(s) PROVE TypeInv'
  <2>1. outer' \in Heard
    BY <1>8, FirstErrorType DEF Return, Heard, Errors
  <2>2. QED BY <1>8, <2>1 DEF Return
<1>9. CASE Wait
  BY <1>9 DEF Wait, Publish, Outcomes, Answers, Heard, Errors
<1>10. CASE UNCHANGED vars
  BY <1>10 DEF vars
<1>11. QED
  BY <1>1, <1>2, <1>3, <1>4, <1>5, <1>6, <1>7, <1>8, <1>9, <1>10
     DEF Next, Progress

-----------------------------------------------------------------------------
(* The cause of an error *)

\* A canceled request and the error that canceled it are found together.
LEMMA CauseNext ==
    ASSUME TypeInv, ErrorIsTheCause, [Next]_vars PROVE ErrorIsTheCause'
<1> USE DEF TypeInv, ErrorIsTheCause, groupVars
<1>1. CASE ReadDir
  BY <1>1 DEF ReadDir
<1>2. CASE ReadCached \/ IteratorDone \/ Spawn
  BY <1>2 DEF ReadCached, IteratorDone, Spawn
<1>3. ASSUME NEW s \in Secrets, NextSecret(s) PROVE ErrorIsTheCause'
  BY <1>3 DEF NextSecret
<1>4. ASSUME NEW err \in Answers \ {"ok"}, IteratorFails(err)
      PROVE  ErrorIsTheCause'
  BY <1>4 DEF IteratorFails, Answers
<1>5. ASSUME NEW s \in Secrets, NEW part \in Parts, NEW outcome \in Outcomes,
             Request(s, part, outcome)
      PROVE  ErrorIsTheCause'
  BY <1>5 DEF Request, FirstError, ContextDone
<1>6. ASSUME NEW s \in Secrets, Return(s) PROVE ErrorIsTheCause'
  BY <1>6 DEF Return, FirstError, SecretGone
<1>7. CASE Wait
  BY <1>7 DEF Wait, Publish
<1>8. CASE UNCHANGED vars
  BY <1>8 DEF vars
<1>9. QED
  BY <1>1, <1>2, <1>3, <1>4, <1>5, <1>6, <1>7, <1>8 DEF Next, Progress

\* The listing reports an error that the server gave, never the cancellation
\* that this error set off in the other goroutines (list, gcpsm.go:663), for
\* any number of secrets and goroutines.
THEOREM ErrorsAreCauses == Spec => []ErrorIsTheCause
<1>1. Init => TypeInv /\ ErrorIsTheCause
  BY InitTypes DEF Init, ErrorIsTheCause
<1>2. TypeInv /\ ErrorIsTheCause /\ [Next]_vars => TypeInv' /\ ErrorIsTheCause'
  BY NextTypes, CauseNext
<1>3. QED BY <1>1, <1>2, PTL DEF Spec

-----------------------------------------------------------------------------
(* The limit *)

\* The goroutines that run belong to secrets of the project.
LEMMA ActiveFinite == TypeInv => Active \subseteq Secrets /\ IsFiniteSet(Active)
<1> SUFFICES ASSUME TypeInv PROVE Active \subseteq Secrets
  BY ListAssumption, FS_Subset
<1>1. \A i \in 1..spawned : names[i] \in Secrets
  BY DEF TypeInv
<1>2. QED BY <1>1 DEF Active

\* Fewer goroutines do not exceed a limit that more of them kept.
LEMMA FewerActive ==
    ASSUME TypeInv, AtMostLimit, TypeInv', Active' \subseteq Active
    PROVE  AtMostLimit'
<1>1. Cardinality(Active') <= Cardinality(Active)
  BY ActiveFinite, FS_Subset
<1>2. Cardinality(Active') \in Nat /\ Cardinality(Active) \in Nat
  BY ActiveFinite, FS_Subset, FS_CardinalityType
<1>3. QED BY <1>1, <1>2, ListAssumption DEF AtMostLimit

\* g.Go adds one goroutine, when there is a slot for it; no other step any.
LEMMA LimitNext ==
    ASSUME TypeInv, AtMostLimit, [Next]_vars PROVE AtMostLimit'
<1>0. TypeInv'
  BY NextTypes
<1>1. CASE ReadDir
  <2>1. Active' = {}
    BY <1>1 DEF ReadDir, Active
  <2>2. QED BY <1>0, <2>1, FewerActive
<1>2. ASSUME NEW s \in Secrets, NextSecret(s) PROVE AtMostLimit'
  <2>1. \A i \in 1..spawned : names'[i] = names[i]
    BY <1>2 DEF NextSecret, TypeInv
  <2>2. Active' = Active
    BY <1>2, <2>1 DEF NextSecret, Active, groupVars
  <2>3. QED BY <2>2 DEF AtMostLimit
<1>3. CASE Spawn
  <2> DEFINE new == names[spawned + 1]
  <2>1. Active' \subseteq Active \cup {new}
    <3>1. spawned' = spawned + 1 /\ names' = names /\ ended' = ended
      BY <1>3 DEF Spawn
    <3>2. \A i \in 1..(spawned + 1) : i \in 1..spawned \/ i = spawned + 1
      BY DEF TypeInv
    <3>3. Active' = {names[i] : i \in 1..(spawned + 1)} \ ended
      BY <3>1 DEF Active
    <3>4. QED BY <3>2, <3>3 DEF Active
  <2>0. IsFiniteSet(Active) /\ Cardinality(Active) \in Nat
    BY ActiveFinite, FS_CardinalityType
  <2>2. /\ IsFiniteSet(Active \cup {new})
        /\ Cardinality(Active \cup {new}) <= Cardinality(Active) + 1
    BY <2>0, FS_AddElement
  <2>3. /\ Cardinality(Active') <= Cardinality(Active \cup {new})
        /\ Cardinality(Active') \in Nat
        /\ Cardinality(Active \cup {new}) \in Nat
    BY <2>1, <2>2, FS_Subset, FS_CardinalityType
  <2>4. Cardinality(Active) < Limit
    BY <1>3 DEF Spawn, SlotFree
  <2>5. QED BY <2>0, <2>2, <2>3, <2>4, ListAssumption DEF AtMostLimit
<1>4. ASSUME NEW s \in Secrets, Return(s) PROVE AtMostLimit'
  <2>1. Active' \subseteq Active
    BY <1>4 DEF Return, Active
  <2>2. QED BY <1>0, <2>1, FewerActive
<1>5. ASSUME UNCHANGED <<names, spawned, ended>> PROVE AtMostLimit'
  BY <1>5 DEF AtMostLimit, Active
<1>6. QED
  BY <1>1, <1>2, <1>3, <1>4, <1>5
     DEF Next, Progress, ReadCached, IteratorFails, IteratorDone, Request,
         Wait, vars, groupVars

\* At most maxConcurrency secrets are fetched at a time (gcpsm.go:71), whatever
\* it is and however many secrets the project has.
THEOREM LimitIsKept == Spec => []AtMostLimit
<1>1. Init => TypeInv /\ AtMostLimit
  <2>1. Init => Active = {}
    BY DEF Init, Active
  <2>2. QED
    BY <2>1, InitTypes, FS_EmptySet, ListAssumption DEF AtMostLimit
<1>2. TypeInv /\ AtMostLimit /\ [Next]_vars => TypeInv' /\ AtMostLimit'
  BY NextTypes, LimitNext
<1>3. QED BY <1>1, <1>2, PTL DEF Spec

-----------------------------------------------------------------------------
(* No part of a directory *)

\* While a listing runs the handle has no children.
NoneYet == pc # "idle" => children = <<>>

\* The children of a listing that fails stay none (list returns before it
\* assigns f.children, gcpsm.go:686), however far its goroutines have come.
THEOREM NothingIsPartial == Spec => NothingPartial
<1> USE DEF groupVars
<1>1. Init => NoneYet
  BY DEF Init, NoneYet
<1>2. NoneYet /\ [Next]_vars => NoneYet'
  <2> SUFFICES ASSUME NoneYet, [Next]_vars PROVE NoneYet'
    OBVIOUS
  <2>1. CASE ReadDir \/ ReadCached
    BY <2>1 DEF ReadDir, ReadCached, NoneYet
  <2>2. CASE Progress
    BY <2>2 DEF Progress, IteratorFails, IteratorDone, Spawn, Wait, NextSecret,
                Return, Request, NoneYet
  <2>3. CASE UNCHANGED vars
    BY <2>3 DEF vars, NoneYet
  <2>4. QED BY <2>1, <2>2, <2>3 DEF Next
<1>3. NoneYet /\ [Next]_vars =>
         [(pc # "idle" /\ pc' = "idle" /\ reply' # "ok") => children' = <<>>]_vars
  <2> SUFFICES ASSUME NoneYet, Next, pc # "idle", pc' = "idle", reply' # "ok"
               PROVE  children' = <<>>
    OBVIOUS
  <2>1. CASE ReadDir \/ ReadCached
    BY <2>1 DEF ReadDir, ReadCached
  <2>2. CASE Progress
    BY <2>2 DEF Progress, IteratorFails, IteratorDone, Spawn, Wait, Publish,
                NextSecret, Return, Request, NoneYet
  <2>3. QED BY <2>1, <2>2 DEF Next
<1>4. QED BY <1>1, <1>2, <1>3, PTL DEF Spec, NothingPartial

-----------------------------------------------------------------------------
(* The whole directory *)

\* The secrets that have been given a goroutine.
Started == {names[i] : i \in 1..spawned}

\* What a goroutine has heard of its requests: without an error, nothing but
\* answers; with one, a request that ended with it.
HeardInv ==
    \A s \in Secrets :
        /\ inner[s] = "none" => \A part \in Parts : rpc[s][part] \in {"none", "running", "ok"}
        /\ inner[s] # "none" => \E part \in Parts : rpc[s][part] = inner[s]

\* The entries are the secrets whose goroutine has returned without an error; a
\* goroutine that has returned has the end of both its requests, and while the
\* listing has no error all that the others lost is gone.
EntriesInv ==
    /\ IsInjective(names)
    /\ entries \in Seq(Secrets) /\ IsInjective(entries)
    /\ Range(entries) = {s \in ended : inner[s] = "none"}
    /\ ended \subseteq Started
    /\ \A s \in Secrets \ Started, part \in Parts : rpc[s][part] = "none"
    /\ \A s \in ended, part \in Parts : rpc[s][part] \in Outcomes
    /\ outer = "none" => \A s \in ended : inner[s] \in {"none", "gone"}

\* Between the end of one listing and the goroutines of the next nothing runs.
QuietInv ==
    pc # "fetch" => /\ Active = {}
                    /\ \A s \in Secrets, part \in Parts : rpc[s][part] # "running"

\* What ListingComplete says of the children.
Complete ==
    /\ children = InOrder({s \in Names : Exists(s)})
    /\ \A s \in Names : Exists(s) \/ \E part \in Parts : rpc[s][part] = "gone"

\* Children are the whole directory, and stay it.
ChildrenInv ==
    /\ children # <<>> => pc = "idle"
    /\ pc = "idle" /\ (reply = "ok" \/ children # <<>>) => Complete

\* The first error of a group is one of its own.
LEMMA FirstErrorFacts ==
    ASSUME NEW old \in Heard, NEW new \in Outcomes
    PROVE  /\ old # "none" => FirstError(old, new) = old
           /\ old = "none" /\ new = "ok" => FirstError(old, new) = "none"
           /\ old = "none" /\ new # "ok" => FirstError(old, new) = new
  BY DEF FirstError

\* Nothing has been heard at first ...
LEMMA InitHeard == Init => HeardInv /\ EntriesInv /\ QuietInv /\ ChildrenInv
<1> SUFFICES ASSUME Init PROVE HeardInv /\ EntriesInv /\ QuietInv /\ ChildrenInv
  OBVIOUS
<1>1. HeardInv
  BY DEF Init, HeardInv, NoRequests
<1>2. EntriesInv
  BY DEF Init, EntriesInv, NoRequests, Started, IsInjective, Range
<1>3. ChildrenInv
  BY DEF Init, ChildrenInv
<1>4. QuietInv
  BY DEF Init, QuietInv, NoRequests, Active
<1>5. QED BY <1>1, <1>2, <1>3, <1>4

\* ... and each goroutine hears the end of its own requests.
LEMMA NextHeard == TypeInv /\ HeardInv /\ EntriesInv /\ [Next]_vars => HeardInv'
<1> SUFFICES ASSUME TypeInv, HeardInv, EntriesInv, [Next]_vars PROVE HeardInv'
  OBVIOUS
<1> USE DEF TypeInv, HeardInv, groupVars
<1>1. CASE ReadDir
  BY <1>1 DEF ReadDir, NoRequests
<1>2. CASE Spawn
  <2> DEFINE new == names[spawned + 1]
  <2>1. new \in Secrets /\ rpc' = [rpc EXCEPT ![new] = [part \in Parts |-> "running"]]
        /\ inner' = inner
    BY <1>2 DEF Spawn
  <2>2. new \notin Started
    <3>1. \A i \in 1..spawned : i # spawned + 1 /\ i \in DOMAIN names
      BY DEF TypeInv
    <3>2. spawned + 1 \in DOMAIN names
      BY <1>2 DEF Spawn
    <3>3. QED BY <3>1, <3>2 DEF Started, EntriesInv, IsInjective
  <2>3. \A part \in Parts : rpc[new][part] = "none"
    BY <2>1, <2>2 DEF EntriesInv
  <2>4. inner[new] = "none"
    BY <2>1, <2>3
  <2>5. QED BY <2>1, <2>4
<1>3. ASSUME NEW s \in Secrets, NEW part \in Parts, NEW outcome \in Outcomes,
             Request(s, part, outcome)
      PROVE  HeardInv'
  <2>1. /\ rpc' = [rpc EXCEPT ![s][part] = outcome]
        /\ inner' = [inner EXCEPT ![s] = FirstError(inner[s], outcome)]
        /\ rpc[s][part] = "running"
    BY <1>3 DEF Request
  <2>2. \A other \in Secrets : other # s => rpc'[other] = rpc[other]
                                          /\ inner'[other] = inner[other]
    BY <2>1
  <2>3. CASE inner[s] # "none"
    <3>1. inner'[s] = inner[s]
      BY <2>1, <2>3, FirstErrorFacts
    <3>2. PICK q \in Parts : rpc[s][q] = inner[s]
      BY <2>3
    <3>3. q # part
      BY <2>1, <3>2 DEF Heard, Errors, Outcomes, Answers
    <3>4. rpc'[s][q] = inner'[s]
      BY <2>1, <3>1, <3>2, <3>3
    <3>5. QED BY <2>2, <2>3, <3>1, <3>4
  <2>4. CASE inner[s] = "none" /\ outcome = "ok"
    <3>1. inner'[s] = "none"
      BY <2>1, <2>4, FirstErrorFacts
    <3>2. \A q \in Parts : rpc'[s][q] \in {"none", "running", "ok"}
      BY <2>1, <2>4
    <3>3. QED BY <2>2, <3>1, <3>2
  <2>5. CASE inner[s] = "none" /\ outcome # "ok"
    <3>1. inner'[s] = outcome
      BY <2>1, <2>5, FirstErrorFacts
    <3>2. rpc'[s][part] = outcome
      BY <2>1
    <3>3. outcome # "none"
      BY DEF Outcomes, Answers
    <3>4. QED BY <2>2, <3>1, <3>2, <3>3
  <2>6. QED BY <2>3, <2>4, <2>5
<1>4. ASSUME UNCHANGED <<rpc, inner>> PROVE HeardInv'
  BY <1>4
<1>5. QED
  BY <1>1, <1>2, <1>3, <1>4
     DEF Next, Progress, ReadCached, NextSecret, IteratorFails, IteratorDone,
         Return, Wait, vars

\* A goroutine that returns has its entry, or its error, which is the listing's
\* unless the secret is gone.
LEMMA NextEntries ==
    TypeInv /\ HeardInv /\ EntriesInv /\ [Next]_vars => EntriesInv'
<1> SUFFICES ASSUME TypeInv, HeardInv, EntriesInv, [Next]_vars PROVE EntriesInv'
  OBVIOUS
<1> USE DEF TypeInv, groupVars
<1>1. CASE ReadDir
  BY <1>1 DEF ReadDir, EntriesInv, NoRequests, Started, IsInjective, Range
<1>2. ASSUME NEW s \in Secrets, NextSecret(s) PROVE EntriesInv'
  <2>1. s \notin Range(names)
    BY <1>2 DEF NextSecret, Names, Range
  <2>2. IsInjective(names')
    BY <1>2, <2>1, AppendNew DEF NextSecret, EntriesInv
  <2>3. \A i \in 1..spawned : names'[i] = names[i]
    BY <1>2 DEF NextSecret
  <2>4. Started' = Started
    BY <1>2, <2>3 DEF NextSecret, Started
  <2>5. UNCHANGED groupVars
    BY <1>2 DEF NextSecret
  <2>6. QED BY <2>2, <2>4, <2>5 DEF EntriesInv
<1>3. CASE Spawn
  <2> DEFINE new == names[spawned + 1]
  <2>1. /\ rpc' = [rpc EXCEPT ![new] = [part \in Parts |-> "running"]]
        /\ UNCHANGED <<names, inner, ended, outer, entries>>
        /\ spawned' = spawned + 1 /\ spawned + 1 \in 1..Len(names)
    BY <1>3 DEF Spawn
  <2>2. Started' = Started \cup {new}
    <3>1. 1..(spawned + 1) = 1..spawned \cup {spawned + 1}
      OBVIOUS
    <3>2. Started' = {names[i] : i \in 1..(spawned + 1)}
      BY <2>1 DEF Started
    <3>3. Started' = {names[i] : i \in 1..spawned \cup {spawned + 1}}
      BY <3>1, <3>2
    <3>4. QED BY <3>3, Zenon DEF Started
  <2>3. new \notin Started
    <3>1. \A i \in 1..spawned : i # spawned + 1 /\ i \in DOMAIN names
      OBVIOUS
    <3>2. spawned + 1 \in DOMAIN names
      BY <2>1
    <3>3. QED BY <3>1, <3>2 DEF Started, EntriesInv, IsInjective
  <2>4. \A s \in Secrets : s # new => rpc'[s] = rpc[s]
    BY <2>1
  <2>5. new \notin ended
    BY <2>3 DEF EntriesInv
  <2>6. \A s \in ended : s \in Secrets /\ rpc'[s] = rpc[s]
    BY <2>4, <2>5
  <2>7. QED BY <2>1, <2>2, <2>4, <2>6 DEF EntriesInv
<1>4. ASSUME NEW s \in Secrets, NEW part \in Parts, NEW outcome \in Outcomes,
             Request(s, part, outcome)
      PROVE  EntriesInv'
  <2>1. /\ rpc' = [rpc EXCEPT ![s][part] = outcome]
        /\ inner' = [inner EXCEPT ![s] = FirstError(inner[s], outcome)]
        /\ rpc[s][part] = "running"
        /\ UNCHANGED <<names, spawned, ended, outer, entries>>
    BY <1>4 DEF Request
  <2>2. s \notin ended
    BY <2>1 DEF EntriesInv, Outcomes, Answers
  <2>3. s \in Started
    BY <2>1 DEF EntriesInv
  <2>4. \A other \in Secrets : other # s => rpc'[other] = rpc[other]
                                          /\ inner'[other] = inner[other]
    BY <2>1
  <2>5. Started' = Started
    BY <2>1 DEF Started
  <2>6. {x \in ended' : inner'[x] = "none"} = {x \in ended : inner[x] = "none"}
    BY <2>1, <2>2, <2>4
  <2>7. QED BY <2>1, <2>2, <2>3, <2>4, <2>5, <2>6 DEF EntriesInv
<1>5. ASSUME NEW s \in Secrets, Return(s) PROVE EntriesInv'
  <2>1. /\ s \in Started /\ s \notin ended
        /\ \A part \in Parts : rpc[s][part] \in Outcomes
        /\ ended' = ended \cup {s}
        /\ UNCHANGED <<names, spawned, rpc, inner>>
    BY <1>5 DEF Return, Active, Started
  <2>2. Started' = Started
    BY <2>1 DEF Started
  <2>3. CASE inner[s] = "none"
    <3>1. entries' = Append(entries, s) /\ outer' = outer
      BY <1>5, <2>3 DEF Return
    <3>2. s \notin Range(entries)
      BY <2>1 DEF EntriesInv
    <3>3. /\ entries' \in Seq(Secrets) /\ IsInjective(entries')
          /\ Range(entries') = Range(entries) \cup {s}
      BY <3>1, <3>2, AppendNew DEF EntriesInv
    <3>4. Range(entries') = {x \in ended' : inner'[x] = "none"}
      BY <2>1, <2>3, <3>3 DEF EntriesInv
    <3>5. QED BY <2>1, <2>2, <2>3, <3>1, <3>3, <3>4 DEF EntriesInv
  <2>4. CASE inner[s] # "none"
    <3>1. /\ entries' = entries
          /\ outer' = IF SecretGone(inner[s]) THEN outer
                      ELSE FirstError(outer, inner[s])
      BY <1>5, <2>4 DEF Return
    <3>2. inner[s] \in Outcomes /\ inner[s] # "ok"
      BY <2>4 DEF Heard, Errors
    <3>3. outer' = "none" => outer = "none" /\ inner[s] = "gone"
      BY <2>4, <3>1, <3>2, FirstErrorFacts DEF SecretGone
    <3>4. {x \in ended' : inner'[x] = "none"} = {x \in ended : inner[x] = "none"}
      BY <2>1, <2>4
    <3>5. QED BY <2>1, <2>2, <3>1, <3>3, <3>4 DEF EntriesInv
  <2>5. QED BY <2>3, <2>4
<1>6. ASSUME UNCHANGED <<names, spawned, groupVars>> PROVE EntriesInv'
  BY <1>6 DEF EntriesInv, Started
<1>7. QED
  BY <1>1, <1>2, <1>3, <1>4, <1>5, <1>6
     DEF Next, Progress, ReadCached, IteratorFails, IteratorDone, Wait, vars

\* At the end of a listing without an error its entries are the directory.
LEMMA WaitCompletes ==
    ASSUME TypeInv, HeardInv, EntriesInv, Wait, outer = "none"
    PROVE  Complete'
<1> USE DEF TypeInv
<1>1. /\ spawned = Len(names) /\ Active = {}
      /\ children' = SortByName(entries)
      /\ UNCHANGED <<names, rpc>>
  BY DEF Wait, Publish, groupVars
<1>2. ended = Names /\ Names \subseteq Secrets
  <2>1. Started = Names
    BY <1>1 DEF Started, Names
  <2>2. Names \subseteq Secrets
    BY DEF Names
  <2>3. QED BY <1>1, <2>1, <2>2 DEF EntriesInv, Active, Started
<1>3. ASSUME NEW s \in Names PROVE Exists(s) <=> inner[s] = "none"
  <2>1. \A part \in Parts : rpc[s][part] \in Outcomes
    BY <1>2 DEF EntriesInv
  <2>2. inner[s] = "none" => \A part \in Parts : rpc[s][part] = "ok"
    BY <1>2, <2>1 DEF HeardInv, Outcomes, Answers
  <2>3. inner[s] # "none" => \E part \in Parts : rpc[s][part] # "ok"
    BY <1>2 DEF HeardInv, Heard, Errors
  <2>4. QED BY <2>2, <2>3 DEF Exists
<1>4. {s \in Names : Exists(s)} = Range(entries)
  BY <1>2, <1>3 DEF EntriesInv
<1>5. entries \in Seq(Int) /\ IsInjective(entries)
  <2>1. entries \in Seq(Secrets) /\ IsInjective(entries)
    BY DEF EntriesInv
  <2>2. Secrets \subseteq Int
    BY ListAssumption
  <2>3. QED BY <2>1, <2>2, SeqMonotonic
<1>6. children' = InOrder({s \in Names : Exists(s)})
  BY <1>1, <1>4, <1>5, SortingGivesOrder
<1>7. \A s \in Names : Exists(s) \/ \E part \in Parts : rpc[s][part] = "gone"
  BY <1>2, <1>3 DEF EntriesInv, HeardInv
<1>8. QED BY <1>1, <1>6, <1>7 DEF Complete, Names, Exists

\* A listing ends when its goroutines have, and so have their requests.
LEMMA NextQuiet ==
    TypeInv /\ EntriesInv /\ QuietInv /\ [Next]_vars => QuietInv'
<1> SUFFICES ASSUME TypeInv, EntriesInv, QuietInv, [Next]_vars PROVE QuietInv'
  OBVIOUS
<1> USE DEF TypeInv, QuietInv, groupVars
<1>1. CASE ReadDir
  BY <1>1 DEF ReadDir, NoRequests, Active
<1>2. ASSUME NEW s \in Secrets, NextSecret(s) PROVE QuietInv'
  <2>1. \A i \in 1..spawned : names'[i] = names[i]
    BY <1>2 DEF NextSecret
  <2>2. Active' = Active
    BY <1>2, <2>1 DEF NextSecret, Active
  <2>3. QED BY <1>2, <2>2 DEF NextSecret
<1>3. CASE Wait
  <2>1. /\ Active = {} /\ UNCHANGED <<names, spawned, rpc, ended>>
    BY <1>3 DEF Wait
  <2>2. Started \subseteq ended
    BY <2>1 DEF Active, Started
  <2>3. \A s \in Secrets, part \in Parts : rpc[s][part] # "running"
    BY <2>2 DEF EntriesInv, Outcomes, Answers
  <2>4. QED BY <2>1, <2>3 DEF Active
<1>4. ASSUME pc = "fetch", pc' = "fetch" PROVE QuietInv'
  BY <1>4
<1>5. ASSUME pc' # "fetch" => pc # "fetch", UNCHANGED <<names, spawned, rpc, ended>>
      PROVE  QuietInv'
  BY <1>5 DEF Active
<1>6. ASSUME NEW s \in Secrets,
             \/ Return(s)
             \/ \E part \in Parts, outcome \in Outcomes : Request(s, part, outcome)
      PROVE  QuietInv'
  <2>1. pc = "fetch" /\ pc' = pc
    BY <1>6 DEF Return, Request
  <2>2. QED BY <1>4, <2>1
<1>7. CASE Spawn
  BY <1>4, <1>7 DEF Spawn
<1>8. QED
  BY <1>1, <1>2, <1>3, <1>5, <1>6, <1>7
     DEF Next, Progress, ReadCached, IteratorFails, IteratorDone, vars

\* The children are assigned at that end only.
LEMMA NextChildren ==
    /\ TypeInv /\ HeardInv /\ EntriesInv /\ QuietInv /\ ChildrenInv
    /\ [Next]_vars
    => ChildrenInv'
<1> SUFFICES ASSUME TypeInv, HeardInv, EntriesInv, QuietInv, ChildrenInv, [Next]_vars
             PROVE  ChildrenInv'
  OBVIOUS
<1> USE DEF ChildrenInv, groupVars
<1>1. CASE ReadDir
  BY <1>1 DEF ReadDir
<1>2. CASE ReadCached
  BY <1>2 DEF ReadCached, Complete, Names, Exists
<1>3. ASSUME NEW err \in Answers \ {"ok"}, IteratorFails(err) PROVE ChildrenInv'
  BY <1>3 DEF IteratorFails
<1>4. CASE Wait
  <2>1. CASE outer = "none"
    BY <1>4, <2>1, WaitCompletes DEF Wait
  <2>2. CASE outer # "none"
    <3>1. children' = children /\ reply' = outer /\ pc = "fetch"
      BY <1>4, <2>2 DEF Wait, Publish
    <3>2. outer # "ok"
      BY DEF TypeInv, Heard, Errors
    <3>3. QED BY <3>1, <3>2
  <2>3. QED BY <2>1, <2>2
<1>5. ASSUME pc # "idle", pc' # "idle", children' = children PROVE ChildrenInv'
  BY <1>5
<1>6. ASSUME NEW s \in Secrets,
             \/ Return(s)
             \/ \E part \in Parts, outcome \in Outcomes : Request(s, part, outcome)
      PROVE  ChildrenInv'
  <2>1. pc = "fetch"
    BY <1>6 DEF Return, Request, QuietInv, TypeInv
  <2>2. QED BY <1>5, <1>6, <2>1 DEF Return, Request
<1>7. ASSUME NEW s \in Secrets, NextSecret(s) PROVE ChildrenInv'
  BY <1>5, <1>7 DEF NextSecret
<1>8. CASE UNCHANGED vars
  BY <1>8 DEF vars, Complete, Names, Exists
<1>9. CASE IteratorDone \/ Spawn
  BY <1>5, <1>9 DEF IteratorDone, Spawn
<1>10. QED
  BY <1>1, <1>2, <1>3, <1>4, <1>6, <1>7, <1>8, <1>9 DEF Next, Progress

\* A listing without an error has every secret that exists, each once and in
\* order, and leaves out none that was not gone, for any project, any limit and
\* any order of the answers.
THEOREM ListingsAreComplete == Spec => []ListingComplete
<1>1. Init => TypeInv /\ HeardInv /\ EntriesInv /\ QuietInv /\ ChildrenInv
  BY InitTypes, InitHeard
<1>2. /\ TypeInv /\ HeardInv /\ EntriesInv /\ QuietInv /\ ChildrenInv
      /\ [Next]_vars
      => TypeInv' /\ HeardInv' /\ EntriesInv' /\ QuietInv' /\ ChildrenInv'
  BY NextTypes, NextHeard, NextEntries, NextQuiet, NextChildren
<1>3. ChildrenInv => ListingComplete
  BY DEF ChildrenInv, Complete, ListingComplete
<1>4. QED BY <1>1, <1>2, <1>3, PTL DEF Spec
=============================================================================
