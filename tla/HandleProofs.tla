----------------------------- MODULE HandleProofs -----------------------------
(***************************************************************************)
(* Proofs about the handles of GcpCache, for any set of them, whichever of *)
(* them have the cache, and of RemoteFile, HttpFile and TraceFS, for any   *)
(* number of versions, requests and calls.                                 *)
(***************************************************************************)
EXTENDS GcpCache, RemoteFile, HttpFile, TraceFS, TLAPS

PcLabels == {"none", "check", "request", "store"}
Contents == {Nil} \cup Versions

\* Types, without the count of the requests served.
TypeInv ==
    /\ version \in Versions
    /\ since \in [Handles -> Contents]
    /\ pc \in [Handles -> [Parts -> PcLabels]]
    /\ answer \in [Handles -> [Parts -> Contents]]
    /\ loaded \in [Handles -> [Parts -> Contents]]
    /\ cache \in [Parts -> Contents]

\* A part that is being loaded is not there yet.
LoadingInv == \A h \in Handles, part \in Parts :
                 pc[h][part] # "none" => loaded[h][part] = Nil

\* Nothing happens to a handle before it is opened, and what is on its way to
\* an open one is not older than its opening.
AgeInv ==
    \A h \in Handles :
        /\ since[h] <= version
        /\ \A part \in Parts :
              /\ since[h] = Nil => /\ pc[h][part] = "none"
                                   /\ answer[h][part] = Nil
                                   /\ loaded[h][part] = Nil
              /\ pc[h][part] = "store" => answer[h][part] >= since[h]

\* A handle outside the cache has only what was the latest since its opening.
FreshInv == \A h \in Handles \ cacheOn, part \in Parts :
               loaded[h][part] # Nil => loaded[h][part] >= since[h]

LEMMA VersionFacts == Versions \subseteq Nat /\ Nil \notin Versions /\ Contents \subseteq Nat
  BY VersionAssumption DEF Versions, Nil, Contents

\* What Check does: the cache's version becomes the handle's, or a request
\* is on its way; the rest stays.
LEMMA CheckFacts ==
    ASSUME NEW h, NEW part, Check(h, part)
    PROVE  /\ pc[h][part] = "check"
           /\ \/ /\ h \in cacheOn
                 /\ loaded' = [loaded EXCEPT ![h][part] = cache[part]]
                 /\ pc' = [pc EXCEPT ![h][part] = "none"]
              \/ /\ loaded' = loaded
                 /\ pc' = [pc EXCEPT ![h][part] = "request"]
           /\ version' = version /\ since' = since
           /\ answer' = answer /\ cache' = cache
  BY DEF Check, Cached

-----------------------------------------------------------------------------
(* Types *)

\* Every variable keeps its type at the first state ...
LEMMA InitTypes == Init => TypeInv
  BY VersionAssumption
     DEF Init, TypeInv, Each, Versions, Contents, Parts, PcLabels

\* ... and over every step.
LEMMA NextTypes == TypeInv /\ [Next]_vars => TypeInv'
<1> SUFFICES ASSUME TypeInv, [Next]_vars PROVE TypeInv'
  OBVIOUS
<1> USE VersionAssumption DEF TypeInv, PcLabels, Contents, Versions
<1>1. CASE Rotate
  BY <1>1 DEF Rotate
<1>2. ASSUME NEW h \in Handles, Open(h) PROVE TypeInv'
  BY <1>2 DEF Open
<1>3. ASSUME NEW h \in Handles, Read(h) \/ Stat(h) PROVE TypeInv'
  <2>1. PICK parts : \E m : Start(h, m, parts)
    BY <1>3 DEF Read, Stat
  <2>2. [part \in Parts |-> IF part \in parts /\ Needs(h, part)
                            THEN "check" ELSE "none"] \in [Parts -> PcLabels]
    OBVIOUS
  <2>3. QED BY <2>1, <2>2 DEF Start
<1>4. ASSUME NEW h \in Handles, Return(h) PROVE TypeInv'
  BY <1>4 DEF Return
<1>5. ASSUME NEW h \in Handles, NEW part \in Parts, Check(h, part) PROVE TypeInv'
  <2> USE CheckFacts, <1>5
  <2>1. CASE loaded' = loaded /\ pc' = [pc EXCEPT ![h][part] = "request"]
    BY <2>1
  <2>2. CASE /\ loaded' = [loaded EXCEPT ![h][part] = cache[part]]
             /\ pc' = [pc EXCEPT ![h][part] = "none"]
    BY <2>2
  <2>3. QED BY <2>1, <2>2
<1>6. ASSUME NEW h \in Handles, NEW part \in Parts, Serve(h, part) PROVE TypeInv'
  BY <1>6 DEF Serve
<1>7. ASSUME NEW h \in Handles, NEW part \in Parts, Refuse(h, part) PROVE TypeInv'
  BY <1>7 DEF Refuse
<1>8. ASSUME NEW h \in Handles, NEW part \in Parts, Store(h, part) PROVE TypeInv'
  <2>1. cache' \in [Parts -> Contents]
    BY <1>8 DEF Store, Remember
  <2>2. QED BY <1>8, <2>1 DEF Store
<1>9. CASE UNCHANGED vars
  BY <1>9 DEF vars
<1>10. QED BY <1>1, <1>2, <1>3, <1>4, <1>5, <1>6, <1>7, <1>8, <1>9 DEF Next

-----------------------------------------------------------------------------
(* A handle does not change *)

\* A part is not loaded while it is being loaded, at the first state ...
LEMMA InitLoading == Init => LoadingInv
  BY DEF Init, LoadingInv, Each

\* ... and after every step; and no step changes a part that is there.
LEMMA NextLoading ==
    ASSUME TypeInv, LoadingInv, [Next]_vars
    PROVE  /\ LoadingInv'
           /\ \A h \in Handles, part \in Parts :
                 loaded[h][part] # Nil => loaded'[h][part] = loaded[h][part]
<1> USE DEF TypeInv, LoadingInv
<1>1. CASE Rotate
  BY <1>1 DEF Rotate
<1>2. ASSUME NEW h \in Handles, Open(h)
      PROVE  pc' = pc /\ loaded' = loaded
  BY <1>2 DEF Open
<1>3. ASSUME NEW h \in Handles, Read(h) \/ Stat(h)
      PROVE  LoadingInv' /\ loaded' = loaded
  <2>1. PICK parts : \E m : Start(h, m, parts)
    BY <1>3 DEF Read, Stat
  <2>2. QED BY <2>1 DEF Start, Needs
<1>4. ASSUME NEW h \in Handles, Return(h)
      PROVE  pc' = pc /\ loaded' = loaded
  BY <1>4 DEF Return
<1>5. ASSUME NEW h \in Handles, NEW part \in Parts, Check(h, part)
      PROVE  /\ LoadingInv'
             /\ \A g \in Handles, q \in Parts :
                   loaded[g][q] # Nil => loaded'[g][q] = loaded[g][q]
  <2> USE CheckFacts, <1>5
  <2>1. CASE loaded' = loaded /\ pc' = [pc EXCEPT ![h][part] = "request"]
    BY <2>1
  <2>2. CASE /\ loaded' = [loaded EXCEPT ![h][part] = cache[part]]
             /\ pc' = [pc EXCEPT ![h][part] = "none"]
    BY <2>2
  <2>3. QED BY <2>1, <2>2
<1>6. ASSUME NEW h \in Handles, NEW part \in Parts, Serve(h, part) \/ Refuse(h, part)
      PROVE  LoadingInv' /\ loaded' = loaded
  <2>1. CASE Serve(h, part)
    BY <2>1 DEF Serve
  <2>2. CASE Refuse(h, part)
    BY <2>2 DEF Refuse
  <2>3. QED BY <1>6, <2>1, <2>2
<1>7. ASSUME NEW h \in Handles, NEW part \in Parts, Store(h, part)
      PROVE  /\ LoadingInv'
             /\ \A g \in Handles, q \in Parts :
                   loaded[g][q] # Nil => loaded'[g][q] = loaded[g][q]
  BY <1>7 DEF Store
<1>8. CASE UNCHANGED vars
  BY <1>8 DEF vars
<1>9. QED BY <1>1, <1>2, <1>3, <1>4, <1>5, <1>6, <1>7, <1>8 DEF Next

\* What a handle has shown stays as it is (loadContent and ensureModTime load
\* what is nil only), for any handles, cached or not, and any rotations.
THEOREM HandlesAreStable == Spec => HandleStable
<1>1. Init => TypeInv /\ LoadingInv
  BY InitTypes, InitLoading
<1>2. TypeInv /\ LoadingInv /\ [Next]_vars => TypeInv' /\ LoadingInv'
  BY NextTypes, NextLoading
<1>3. TypeInv /\ LoadingInv /\ [Next]_vars =>
         [\A h \in Handles, part \in Parts :
            loaded[h][part] # Nil => loaded'[h][part] = loaded[h][part]]_loaded
  BY NextLoading
<1>4. QED BY <1>1, <1>2, <1>3, PTL DEF Spec, HandleStable

-----------------------------------------------------------------------------
(* Rotations are seen without the cache *)

\* Nothing is on its way at the first state ...
LEMMA InitAge == Init => AgeInv /\ FreshInv
  BY VersionAssumption DEF Init, AgeInv, FreshInv, Each, Nil

\* ... and no step brings a version from before the opening of the handle.
LEMMA NextAge == TypeInv /\ AgeInv /\ [Next]_vars => AgeInv'
<1> SUFFICES ASSUME TypeInv, AgeInv, [Next]_vars PROVE AgeInv'
  OBVIOUS
<1> USE DEF TypeInv, AgeInv, Nil
<1>0. /\ version \in Nat \ {0}
      /\ \A h \in Handles : since[h] \in Nat
  BY VersionFacts
<1>1. CASE Rotate
  BY <1>0, <1>1 DEF Rotate
<1>2. ASSUME NEW h \in Handles, Open(h) PROVE AgeInv'
  BY <1>0, <1>2 DEF Open
<1>3. ASSUME NEW h \in Handles, Read(h) \/ Stat(h) PROVE AgeInv'
  <2>1. PICK parts : \E m : Start(h, m, parts)
    BY <1>3 DEF Read, Stat
  <2>2. QED BY <2>1 DEF Start
<1>4. ASSUME NEW h \in Handles, Return(h) PROVE AgeInv'
  BY <1>4 DEF Return
<1>5. ASSUME NEW h \in Handles, NEW part \in Parts, Check(h, part) PROVE AgeInv'
  <2>1. since[h] # Nil
    BY <1>5, CheckFacts
  <2>2. /\ version' = version /\ since' = since /\ answer' = answer
        /\ \A g \in Handles, q \in Parts :
              \/ g = h /\ q = part /\ pc'[g][q] # "store"
              \/ pc'[g][q] = pc[g][q] /\ loaded'[g][q] = loaded[g][q]
    <3> USE CheckFacts, <1>5
    <3>1. CASE loaded' = loaded /\ pc' = [pc EXCEPT ![h][part] = "request"]
      BY <3>1
    <3>2. CASE /\ loaded' = [loaded EXCEPT ![h][part] = cache[part]]
               /\ pc' = [pc EXCEPT ![h][part] = "none"]
      BY <3>2
    <3>3. QED BY <3>1, <3>2
  <2>3. QED BY <2>1, <2>2
<1>6. ASSUME NEW h \in Handles, NEW part \in Parts, Serve(h, part) PROVE AgeInv'
  BY <1>6 DEF Serve
<1>7. ASSUME NEW h \in Handles, NEW part \in Parts, Refuse(h, part) PROVE AgeInv'
  BY <1>7 DEF Refuse
<1>8. ASSUME NEW h \in Handles, NEW part \in Parts, Store(h, part) PROVE AgeInv'
  BY <1>8 DEF Store
<1>9. CASE UNCHANGED vars
  BY <1>9 DEF vars
<1>10. QED BY <1>1, <1>2, <1>3, <1>4, <1>5, <1>6, <1>7, <1>8, <1>9 DEF Next

\* A handle outside the cache gets its parts from answers only.
LEMMA NextFresh == TypeInv /\ AgeInv /\ FreshInv /\ [Next]_vars => FreshInv'
<1> SUFFICES ASSUME TypeInv, AgeInv, FreshInv, [Next]_vars PROVE FreshInv'
  OBVIOUS
<1> USE VersionFacts DEF TypeInv, FreshInv, Nil
<1>0. CASE UNCHANGED vars
  BY <1>0 DEF vars, setup
<1>1. cacheOn' = cacheOn
  BY <1>0 DEF Next, vars, setup
<1>2. CASE Rotate
  BY <1>1, <1>2 DEF Rotate
<1>3. ASSUME NEW h \in Handles, Open(h) PROVE FreshInv'
  BY <1>1, <1>3 DEF Open, AgeInv
<1>4. ASSUME NEW h \in Handles, Read(h) \/ Stat(h) \/ Return(h) PROVE FreshInv'
  BY <1>1, <1>4 DEF Read, Stat, Start, Return
<1>5. ASSUME NEW h \in Handles, NEW part \in Parts, Check(h, part) PROVE FreshInv'
  BY <1>1, <1>5 DEF Check, Cached
<1>6. ASSUME NEW h \in Handles, NEW part \in Parts, Serve(h, part) \/ Refuse(h, part)
      PROVE  FreshInv'
  BY <1>1, <1>6 DEF Serve, Refuse
<1>7. ASSUME NEW h \in Handles, NEW part \in Parts, Store(h, part) PROVE FreshInv'
  BY <1>1, <1>7 DEF Store, AgeInv
<1>8. QED BY <1>0, <1>2, <1>3, <1>4, <1>5, <1>6, <1>7 DEF Next

\* A handle without the cache shows no version older than the latest one when
\* it was opened, also next to handles that use the cache (the comment on
\* secretCache), for any handles and any rotations.
THEOREM RotationsAreSeen == Spec => []RotationsSeen
<1>1. Init => TypeInv /\ AgeInv /\ FreshInv
  BY InitTypes, InitAge
<1>2. TypeInv /\ AgeInv /\ FreshInv /\ [Next]_vars
        => TypeInv' /\ AgeInv' /\ FreshInv'
  BY NextTypes, NextAge, NextFresh
<1>3. FreshInv => RotationsSeen
  BY DEF FreshInv, RotationsSeen
<1>4. QED BY <1>1, <1>2, <1>3, PTL DEF Spec

-----------------------------------------------------------------------------
(* One goroutine and the cache: one request *)

\* Types of what counts the goroutines at work and the requests served.
CountInv ==
    /\ op \in [Handles -> {"none", "read", "stat"}]
    /\ served \in [Parts -> Nat]

\* A handle loads nothing outside Read and Stat, and one goroutine is in one of
\* them at a time.
OneAtWork ==
    /\ \A h \in Handles : op[h] = "none" => \A part \in Parts : pc[h][part] = "none"
    /\ serial => \A h, g \in Handles : op[h] # "none" /\ op[g] # "none" => h = g

\* The server has been asked for a part at most once: its answer is in the cache,
\* or on the way to it, or there was none yet; and no handle has anything else.
AskedOnce(part) ==
    /\ served[part] \in {0, 1}
    /\ cache[part] # Nil => served[part] = 1
    /\ served[part] = 1 /\ cache[part] = Nil => \E h \in Handles : pc[h][part] = "store"
    /\ \A h \in Handles :
          /\ loaded[h][part] \in {Nil, cache[part]}
          /\ pc[h][part] = "request" => cache[part] = Nil /\ served[part] = 0
          /\ pc[h][part] = "store" => /\ cache[part] = Nil /\ served[part] = 1
                                      /\ answer[h][part] # Nil

OneRequestInv ==
    serial /\ cacheOn = Handles => \A part \in Parts : AskedOnce(part)

\* A handle at work is the one at work.
LEMMA AloneAtWork ==
    ASSUME OneAtWork, serial, NEW h \in Handles, NEW part \in Parts,
           pc[h][part] # "none"
    PROVE  \A g \in Handles : (\E q \in Parts : pc[g][q] # "none") => g = h
  BY DEF OneAtWork

\* Nobody is at work and nothing is asked for at the first state ...
LEMMA InitOnce == Init => CountInv /\ OneAtWork /\ OneRequestInv
  BY DEF Init, CountInv, OneAtWork, OneRequestInv, AskedOnce, Each, Nil

\* ... one handle at a time starts its work, and ends it when all is loaded ...
LEMMA NextWork ==
    TypeInv /\ CountInv /\ OneAtWork /\ [Next]_vars => CountInv' /\ OneAtWork'
<1> SUFFICES ASSUME TypeInv, CountInv, OneAtWork, [Next]_vars
             PROVE  CountInv' /\ OneAtWork'
  OBVIOUS
<1> USE DEF TypeInv, CountInv, OneAtWork
<1>0. CASE UNCHANGED vars
  BY <1>0 DEF vars, setup
<1>s. serial' = serial
  BY <1>0 DEF Next, vars, setup
<1>1. CASE Rotate
  BY <1>s, <1>1 DEF Rotate
<1>2. ASSUME NEW h \in Handles, Open(h) PROVE CountInv' /\ OneAtWork'
  BY <1>s, <1>2 DEF Open
<1>3. ASSUME NEW h \in Handles, Read(h) \/ Stat(h) PROVE CountInv' /\ OneAtWork'
  <2>1. PICK m \in {"read", "stat"}, parts \in SUBSET Parts : Start(h, m, parts)
    BY <1>3 DEF Read, Stat, Parts
  <2>2. CountInv'
    BY <2>1 DEF Start
  <2>3. \A g \in Handles : g # h => op'[g] = op[g] /\ pc'[g] = pc[g]
    BY <2>1 DEF Start
  <2>4. op'[h] # "none"
    BY <2>1 DEF Start
  <2>5. serial => \A g \in Handles : op[g] = "none"
    BY <2>1 DEF Start
  <2>6. QED BY <1>s, <2>2, <2>3, <2>4, <2>5
<1>4. ASSUME NEW h \in Handles, Return(h) PROVE CountInv' /\ OneAtWork'
  BY <1>s, <1>4 DEF Return
<1>5. ASSUME NEW h \in Handles, NEW part \in Parts,
             \/ Check(h, part) \/ Serve(h, part) \/ Refuse(h, part) \/ Store(h, part)
      PROVE  CountInv' /\ OneAtWork'
  <2>1. /\ pc[h][part] # "none" /\ op' = op
        /\ \A g \in Handles, q \in Parts : g # h => pc'[g][q] = pc[g][q]
        /\ served' = served \/ served' = [served EXCEPT ![part] = @ + 1]
    <3>1. CASE Check(h, part)
      BY <3>1 DEF Check
    <3>2. CASE Serve(h, part)
      BY <3>2 DEF Serve
    <3>3. CASE Refuse(h, part)
      BY <3>3 DEF Refuse
    <3>4. CASE Store(h, part)
      BY <3>4 DEF Store
    <3>5. QED BY <1>5, <3>1, <3>2, <3>3, <3>4
  <2>2. CountInv'
    BY <2>1
  <2>3. op[h] # "none"
    BY <2>1
  <2>4. ASSUME NEW g \in Handles, op'[g] = "none", NEW r \in Parts
        PROVE  pc'[g][r] = "none"
    <3>1. g # h
      BY <2>1, <2>3, <2>4
    <3>2. QED BY <2>1, <2>4, <3>1
  <2>5. QED BY <1>s, <2>1, <2>2, <2>4
<1>6. QED BY <1>0, <1>1, <1>2, <1>3, <1>4, <1>5 DEF Next

\* ... and the one at work asks only for what is not in the cache.
LEMMA NextOnce ==
    TypeInv /\ CountInv /\ OneAtWork /\ OneRequestInv /\ [Next]_vars => OneRequestInv'
<1> SUFFICES ASSUME TypeInv, CountInv, OneAtWork, OneRequestInv, [Next]_vars,
                    serial', cacheOn' = Handles,
                    NEW q \in Parts
             PROVE  AskedOnce(q)'
  BY DEF OneRequestInv
<1>0. CASE UNCHANGED vars
  BY <1>0 DEF vars, setup, OneRequestInv, AskedOnce
<1> USE DEF TypeInv, CountInv, AskedOnce
<1>s. serial /\ cacheOn = Handles
  BY <1>0 DEF Next, vars, setup
<1>q. AskedOnce(q)
  BY <1>s DEF OneRequestInv
<1>1. CASE Rotate
  BY <1>q, <1>1 DEF Rotate
<1>2. ASSUME NEW h \in Handles, Open(h) PROVE AskedOnce(q)'
  BY <1>q, <1>2 DEF Open
<1>3. ASSUME NEW h \in Handles, Read(h) \/ Stat(h) PROVE AskedOnce(q)'
  <2>1. PICK m, parts : Start(h, m, parts)
    BY <1>3 DEF Read, Stat
  <2>2. \A g \in Handles : pc[g][q] = "none"
    BY <1>s, <2>1 DEF Start, OneAtWork
  <2>3. \A g \in Handles : pc'[g][q] \in {"none", "check"}
    BY <2>1, <2>2 DEF Start
  <2>4. loaded' = loaded /\ cache' = cache /\ served' = served
    BY <2>1 DEF Start
  <2>5. QED BY <1>q, <2>2, <2>3, <2>4
<1>4. ASSUME NEW h \in Handles, Return(h) PROVE AskedOnce(q)'
  BY <1>q, <1>4 DEF Return
<1>5. ASSUME NEW h \in Handles, NEW part \in Parts,
             \/ Check(h, part) \/ Serve(h, part) \/ Refuse(h, part) \/ Store(h, part),
             part # q
      PROVE  AskedOnce(q)'
  <2>1. /\ \A g \in Handles : /\ pc'[g][q] = pc[g][q]
                              /\ loaded'[g][q] = loaded[g][q]
                              /\ answer'[g][q] = answer[g][q]
        /\ cache'[q] = cache[q] /\ served'[q] = served[q]
    <3>1. CASE Check(h, part)
      <4>1. CASE Cached(h, part)
        BY <1>5, <3>1, <4>1 DEF Check
      <4>2. CASE ~Cached(h, part)
        <5>1. /\ pc' = [pc EXCEPT ![h][part] = "request"]
              /\ loaded' = loaded /\ UNCHANGED <<op, answer, cache, served>>
          BY <3>1, <4>2 DEF Check
        <5>2. pc[h][part] # "none"
          BY <3>1 DEF Check
        <5>3. QED BY <5>1, <5>2, <1>5
      <4>3. QED BY <4>1, <4>2
    <3>2. CASE Serve(h, part)
      BY <1>5, <3>2 DEF Serve
    <3>3. CASE Refuse(h, part)
      BY <1>5, <3>3 DEF Refuse
    <3>4. CASE Store(h, part)
      BY <1>5, <3>4 DEF Store, Remember
    <3>5. QED BY <1>5, <3>1, <3>2, <3>3, <3>4
  <2>2. QED BY <1>q, <2>1
<1>6. ASSUME NEW h \in Handles,
             \/ Check(h, q) \/ Serve(h, q) \/ Refuse(h, q) \/ Store(h, q)
      PROVE  AskedOnce(q)'
  <2>1. pc[h][q] # "none"
    BY <1>6 DEF Check, Serve, Refuse, Store
  <2>2. \A g \in Handles : g # h => pc[g][q] = "none"
    BY <1>s, <2>1, AloneAtWork
  <2>3. CASE Check(h, q)
    <3>1. CASE Cached(h, q)
      BY <1>q, <2>2, <2>3, <3>1 DEF Check, Cached
    <3>2. CASE ~Cached(h, q)
      <4>1. cache[q] = Nil /\ served[q] = 0
        <5>1. cache[q] = Nil
          BY <1>s, <3>2 DEF Cached
        <5>2. \A g \in Handles : pc[g][q] # "store"
          BY <2>2, <2>3 DEF Check
        <5>3. QED BY <1>q, <5>1, <5>2
      <4>2. QED BY <1>q, <2>2, <2>3, <3>2, <4>1 DEF Check
    <3>3. QED BY <3>1, <3>2
  <2>4. CASE Serve(h, q)
    <3>1. /\ cache[q] = Nil /\ served[q] = 0 /\ cache' = cache /\ loaded' = loaded
          /\ served'[q] = 1
          /\ pc'[h][q] = "store" /\ answer'[h][q] = version
      BY <1>q, <2>4 DEF Serve
    <3>2. \A g \in Handles : g # h => pc'[g][q] = "none"
      BY <2>2, <2>4 DEF Serve
    <3>3. version # Nil
      BY VersionFacts
    <3>4. QED BY <1>q, <3>1, <3>2, <3>3
  <2>5. CASE Refuse(h, q)
    BY <1>q, <2>2, <2>5 DEF Refuse
  <2>6. CASE Store(h, q)
    <3>1. /\ cache[q] = Nil /\ served[q] = 1 /\ answer[h][q] # Nil
          /\ served' = served
          /\ cache'[q] = answer[h][q]
          /\ loaded'[h][q] = answer[h][q]
          /\ pc'[h][q] = "none"
      BY <1>s, <1>q, <2>6 DEF Store, Remember
    <3>2. \A g \in Handles : g # h => /\ pc'[g][q] = "none"
                                      /\ loaded'[g][q] = Nil
      BY <1>q, <2>2, <2>6, <3>1 DEF Store
    <3>3. QED BY <3>1, <3>2 DEF Nil
  <2>7. QED BY <1>6, <2>3, <2>4, <2>5, <2>6
<1>7. QED BY <1>0, <1>1, <1>2, <1>3, <1>4, <1>5, <1>6 DEF Next

\* While one goroutine uses a filesystem with the cache the server answers once
\* for each part, errors aside, and all the handles agree ("served from cache; no
\* additional RPC"), for any number of handles and rotations.
THEOREM OneRequestIsMade == Spec => []OneRequest
<1>1. Init => TypeInv /\ CountInv /\ OneAtWork /\ OneRequestInv
  BY InitTypes, InitOnce
<1>2. TypeInv /\ CountInv /\ OneAtWork /\ OneRequestInv /\ [Next]_vars
        => TypeInv' /\ CountInv' /\ OneAtWork' /\ OneRequestInv'
  BY NextTypes, NextWork, NextOnce
<1>3. OneRequestInv => OneRequest
  BY DEF OneRequestInv, AskedOnce, OneRequest
<1>4. QED BY <1>1, <1>2, <1>3, PTL DEF Spec

-----------------------------------------------------------------------------
(* RemoteFile: info and content of one version *)

\* The info of a content that is there is the content's; without one nothing has
\* been shown, and the info is a directory's if there is one.  A Stat that goes
\* on to what is below has found no info.
FieldsInv ==
    /\ body # Nil => fi = body
    /\ body = Nil => fi \in {Nil, Dir} /\ shown = {}
    /\ shown \subseteq {body}
    /\ stage = "list" => fi = Nil

\* A handle has neither at first, and every request fills in both or leaves the
\* content as it is.
LEMMA InitFields == InitRemote => FieldsInv
  BY DEF InitRemote, FieldsInv, Nil, Dir

LEMMA NextFields == FieldsInv /\ [NextRemote]_remoteVars => FieldsInv'
<1> SUFFICES ASSUME FieldsInv, [NextRemote]_remoteVars PROVE FieldsInv'
  OBVIOUS
<1> USE DEF FieldsInv, handle
<1>1. CASE Put \/ Delete \/ PutBelow
  BY <1>1 DEF Put, Delete, PutBelow
<1>2. ASSUME NEW method \in {"read", "stat"}, Got(method) PROVE FieldsInv'
  <2>1. shown = {}
    BY <1>2 DEF Got, NeedsObject
  <2>2. fi' = object /\ body' = object /\ object # Nil /\ shown' = {object}
    BY <1>2, <2>1 DEF Got, Fill
  <2>3. stage' # "list"
    BY <1>2 DEF Got, NeedsObject
  <2>4. QED BY <2>2, <2>3
<1>3. ASSUME NEW method \in {"read", "stat"},
             KnownDirectory(method) \/ CopyFailed(method)
      PROVE  FieldsInv'
  BY <1>3 DEF KnownDirectory, CopyFailed, NeedsObject
<1>4. ASSUME NEW method \in {"read", "stat"}, NotFound(method) \/ Failed(method)
      PROVE  FieldsInv'
  BY <1>4 DEF NotFound, Failed, NeedsObject, remoteVars
<1>5. CASE ReadBody \/ StatCached
  BY <1>5 DEF ReadBody, StatCached
<1>6. CASE StatRoot \/ Listed \/ ListFailed
  BY <1>6 DEF StatRoot, Listed, ListFailed, NeedsObject
<1>7. CASE CloseObject
  BY <1>7 DEF CloseObject
<1>8. CASE UNCHANGED remoteVars
  BY <1>8 DEF remoteVars
<1>9. QED BY <1>1, <1>2, <1>3, <1>4, <1>5, <1>6, <1>7, <1>8 DEF NextRemote

\* All that a handle shows is of one version ("populates body and fi"), however
\* Read and Stat are ordered and fail while the object is replaced, any number
\* of times.
THEOREM OneVersionIsShown == SpecRemote => []OneVersion
<1>1. FieldsInv => OneVersion
  BY DEF FieldsInv, OneVersion
<1>2. QED BY InitFields, NextFields, <1>1, PTL DEF SpecRemote

\* Versions are numbers, and an object that is not there has been absent.
AbsentInv ==
    /\ object \in Nat /\ latest \in Nat
    /\ object = Nil => absent
    /\ DirectoryIsReal

LEMMA InitAbsent == InitRemote => AbsentInv
<1> SUFFICES ASSUME InitRemote PROVE AbsentInv
  OBVIOUS
<1>1. object \in Nat /\ latest \in Nat
  BY DEF InitRemote, Nil
<1>2. object = Nil => absent
  BY Zenon DEF InitRemote
<1>3. fi = Dir => dot
  BY DEF InitRemote, Nil, Dir
<1>4. stage # "list"
  BY DEF InitRemote
<1>5. QED BY <1>1, <1>2, <1>3, <1>4 DEF AbsentInv, DirectoryIsReal

\* Only the answer that there is no object leads on to what is below the name.
LEMMA NextAbsent == AbsentInv /\ [NextRemote]_remoteVars => AbsentInv'
<1> SUFFICES ASSUME AbsentInv, [NextRemote]_remoteVars PROVE AbsentInv'
  OBVIOUS
<1> USE DEF AbsentInv, DirectoryIsReal, given, remote, handle
<1>1. CASE Put \/ Delete \/ PutBelow
  BY <1>1 DEF Put, Delete, PutBelow, Nil
<1>2. ASSUME NEW method \in {"read", "stat"}, Got(method) PROVE AbsentInv'
  <2>1. fi' # Dir
    BY <1>2 DEF Got, Fill, Dir
  <2>2. QED BY <1>2, <2>1 DEF Got, NeedsObject
<1>3. ASSUME NEW method \in {"read", "stat"},
             KnownDirectory(method) \/ CopyFailed(method)
      PROVE  AbsentInv'
  BY <1>3 DEF KnownDirectory, CopyFailed, NeedsObject, Nil, Dir
<1>4. ASSUME NEW method \in {"read", "stat"}, NotFound(method) \/ Failed(method)
      PROVE  AbsentInv'
  BY <1>4 DEF NotFound, Failed, NeedsObject, remoteVars
<1>5. CASE ReadBody \/ StatCached
  BY <1>5 DEF ReadBody, StatCached
<1>6. CASE StatRoot \/ Listed \/ ListFailed
  BY <1>6 DEF StatRoot, Listed, ListFailed
<1>7. CASE CloseObject
  BY <1>7 DEF CloseObject
<1>8. CASE UNCHANGED remoteVars
  BY <1>8 DEF remoteVars
<1>9. QED BY <1>1, <1>2, <1>3, <1>4, <1>5, <1>6, <1>7, <1>8 DEF NextRemote

\* A name is taken for a directory only if it had no object for a moment: not
\* when the request for one that exists fails in another way.
THEOREM DirectoriesAreReal == SpecRemote => []DirectoryIsReal
<1>1. AbsentInv => DirectoryIsReal
  BY DEF AbsentInv
<1>2. QED BY InitAbsent, NextAbsent, <1>1, PTL DEF SpecRemote

-----------------------------------------------------------------------------
(* HttpFile: no response stays open, and a Stat has its own answer *)

\* The response that the handle reads from.
HandleBody == IF pageBody = Nil \/ done THEN {} ELSE {pageBody}

\* Responses are numbered; that of the handle is open, and that of a Stat which
\* is about to return, which is another one.
OpenInv ==
    /\ responses \in Nat /\ pageBody \in 0..responses
    /\ stat \in {"idle", "head", "get", "return"}
    /\ stat # "idle" => ~done
    /\ stat # "return" => open = HandleBody
    /\ stat = "return" => /\ held \in 1..responses /\ held # pageBody
                          /\ open = HandleBody \cup {held}

\* There is no response at first ...
LEMMA InitOpen == InitHttp => OpenInv
  BY DEF InitHttp, OpenInv, HandleBody, Nil

\* ... and a new one is the handle's or the Stat's.
LEMMA NextOpen == OpenInv /\ [NextHttp]_httpVars => OpenInv'
<1> SUFFICES ASSUME OpenInv, [NextHttp]_httpVars PROVE OpenInv'
  OBVIOUS
<1> USE DEF OpenInv, HandleBody, Nil
<1>1. CASE Publish
  BY <1>1 DEF Publish
<1>2. CASE ReadPage
  <2>1. open = {}
    BY <1>2 DEF ReadPage
  <2>2. CASE Succeeds /\ pageBody' = responses'
    BY <1>2, <2>1, <2>2 DEF ReadPage, Succeeds
  <2>3. CASE (Errors \/ FailsWith("refused")) /\ UNCHANGED pageBody
    BY <1>2, <2>3 DEF ReadPage, Errors, NoResponse, FailsWith
  <2>4. QED BY <1>2, <2>2, <2>3 DEF ReadPage
<1>3. CASE ReadRest
  BY <1>3 DEF ReadRest, httpVars
<1>4. CASE StartStat
  BY <1>4 DEF StartStat
<1>5. ASSUME NEW method \in {"head", "get"}, Answered(method) PROVE OpenInv'
  BY <1>5 DEF Answered, Succeeds
<1>6. CASE Refused
  BY <1>6 DEF Refused, FailsWith
<1>7. CASE StatFails
  BY <1>7 DEF StatFails, Errors, NoResponse, FailsWith
<1>8. CASE StatReturns
  BY <1>8 DEF StatReturns, CloseHeld
<1>9. CASE ClosePage
  BY <1>9 DEF ClosePage
<1>10. CASE UNCHANGED httpVars
  BY <1>10 DEF httpVars
<1>11. QED BY <1>1, <1>2, <1>3, <1>4, <1>5, <1>6, <1>7, <1>8, <1>9, <1>10
           DEF NextHttp

\* "The response body must be closed later": between calls no response is open
\* but the one of the handle, for any number of Reads and Stats.
THEOREM BodiesAreClosed == SpecHttp => []BodiesClosed
<1>1. OpenInv => BodiesClosed
  BY DEF OpenInv, BodiesClosed, HandleBody
<1>2. QED BY InitOpen, NextOpen, <1>1, PTL DEF SpecHttp

\* A Stat that is about to return has overwritten f.fi with its own success.
AnswerInv ==
    /\ page \in Nat /\ asked \in Nat /\ asked <= page
    /\ stat = "return" => pageFi.status = "ok" /\ pageFi.version >= asked
    /\ InfoFresh

LEMMA InitAnswer == InitHttp => AnswerInv
  BY DEF InitHttp, AnswerInv, InfoFresh

LEMMA NextAnswer == AnswerInv /\ [NextHttp]_httpVars => AnswerInv'
<1> SUFFICES ASSUME AnswerInv, [NextHttp]_httpVars PROVE AnswerInv'
  OBVIOUS
<1> USE DEF AnswerInv, InfoFresh
<1>1. CASE Publish
  BY <1>1 DEF Publish
<1>2. CASE ReadPage \/ ReadRest \/ ClosePage
  BY <1>2 DEF ReadPage, ReadRest, ClosePage, httpVars
<1>3. CASE StartStat
  BY <1>3 DEF StartStat
<1>4. ASSUME NEW method \in {"head", "get"}, Answered(method) PROVE AnswerInv'
  BY <1>4 DEF Answered, Succeeds, Info
<1>5. CASE Refused
  BY <1>5 DEF Refused
<1>6. CASE StatFails
  BY <1>6 DEF StatFails
<1>7. CASE StatReturns
  BY <1>7 DEF StatReturns
<1>8. CASE UNCHANGED httpVars
  BY <1>8 DEF httpVars
<1>9. QED BY <1>1, <1>2, <1>3, <1>4, <1>5, <1>6, <1>7, <1>8 DEF NextHttp

\* Stat returns what a successful response to one of its own requests said,
\* although every response overwrites f.fi, for any number of versions.
THEOREM InfosAreFresh == SpecHttp => []InfoFresh
<1>1. AnswerInv => InfoFresh
  BY DEF AnswerInv
<1>2. QED BY InitAnswer, NextAnswer, <1>1, PTL DEF SpecHttp

-----------------------------------------------------------------------------
(* TraceFS: nothing changes but what the property says *)

\* A handle is wrapped for what it has; a call that is running is one it has.
WrapInv ==
    /\ can \in SUBSET Optional
    /\ wrapper \in {"none", WrapFile(can)}
    /\ \/ running = "none" /\ spans = 0
       \/ running # "none" /\ spans = 1 /\ running \in FSCalls \cup HandleCalls

\* wrapFile chooses a type with nothing that the wrapped handle does not have,
\* and all that it has unless it is a directory's.
LEMMA WrapFileFits ==
    ASSUME NEW has \in SUBSET Optional
    PROVE  /\ WrapFile(has) # "none"
           /\ Has(WrapFile(has)) \subseteq has
           /\ Has(WrapFile(has)) = has \/ "ReadDir" \in Has(WrapFile(has))
<1> USE DEF Optional, WrapFile, Has
<1>1. CASE "ReadDir" \in has
  BY <1>1
<1>2. CASE "ReadDir" \notin has /\ "ReadAt" \in has /\ "Seek" \in has
  <2>1. has = {"ReadAt", "Seek"}
    BY <1>2
  <2>2. WrapFile(has) = "traceReaderAtSeekerFile"
    BY <1>2
  <2>3. QED BY <2>1, <2>2
<1>3. CASE "ReadDir" \notin has /\ "ReadAt" \in has /\ "Seek" \notin has
  <2>1. has = {"ReadAt"}
    BY <1>3
  <2>2. WrapFile(has) = "traceReaderAtFile"
    BY <1>3, <2>1
  <2>3. QED BY <2>1, <2>2
<1>4. CASE "ReadDir" \notin has /\ "ReadAt" \notin has /\ "Seek" \in has
  <2>1. has = {"Seek"}
    BY <1>4
  <2>2. WrapFile(has) = "traceSeekerFile"
    BY <1>4, <2>1
  <2>3. QED BY <2>1, <2>2
<1>5. CASE has = {}
  BY <1>5
<1>6. QED BY <1>1, <1>2, <1>3, <1>4, <1>5

\* Nothing is opened at first ...
LEMMA InitWrap == InitTrace => WrapInv /\ Transparent
  BY DEF InitTrace, WrapInv, Transparent, NoReply

\* ... and each call is one that what is wrapped has.
LEMMA NextWrap ==
    WrapInv /\ Transparent /\ [NextTrace]_traceVars => WrapInv' /\ Transparent'
<1> SUFFICES ASSUME WrapInv, Transparent, [NextTrace]_traceVars
             PROVE  WrapInv' /\ Transparent'
  OBVIOUS
<1>1. ASSUME NEW op1 \in FSCalls \cup HandleCalls, StartCall(op1)
      PROVE  WrapInv' /\ Transparent'
  <2>1. op1 # "none"
    BY DEF FSCalls, HandleCalls, Has
  <2>2. WrapInv'
    BY <1>1, <2>1 DEF WrapInv, StartCall, HandleCalls
  <2>3. Transparent'
    BY <1>1, <2>1 DEF Transparent, StartCall, NoReply
  <2>4. QED BY <2>2, <2>3
<1>2. ASSUME NEW inner \in {"ok", "error"}, FinishCall(inner)
      PROVE  WrapInv' /\ Transparent'
  <2>1. running # "none" /\ running \in FSCalls \cup HandleCalls /\ spans = 1
    BY <1>2 DEF WrapInv, FinishCall
  <2>2. running' = "none" /\ spans' = 0 /\ can' = can
    BY <1>2, <2>1 DEF FinishCall
  <2>3. wrapper' \in {"none", WrapFile(can)}
    BY <1>2 DEF WrapInv, FinishCall
  <2>4. ASSUME running \in {"ReadAt", "Seek"} PROVE running \in can
    <3>1. running \in Has(wrapper)
      BY <2>1, <2>4 DEF FSCalls, HandleCalls
    <3>2. wrapper # "none"
      BY <3>1, <2>4 DEF Has
    <3>3. QED BY <3>1, <3>2 DEF Transparent
  <2>5. reply'.said # reply'.inner =>
           reply'.op \in {"fs.Stat", "Stat"} /\ reply'.inner = "error"
    BY <1>2, <2>4 DEF FinishCall, Says
  <2>6. wrapper' # "none" => /\ Has(wrapper') \subseteq can
                             /\ Has(wrapper') = can \/ "ReadDir" \in Has(wrapper')
    BY <2>3, WrapFileFits DEF WrapInv
  <2>7. WrapInv'
    BY <2>2, <2>3 DEF WrapInv
  <2>8. Transparent'
    BY <2>2, <2>5, <2>6 DEF Transparent
  <2>9. QED BY <2>7, <2>8
<1>3. CASE UNCHANGED traceVars
  BY <1>3 DEF traceVars, WrapInv, Transparent, HandleCalls
<1>4. QED BY <1>1, <1>2, <1>3 DEF NextTrace

\* "All operations on the returned filesystem will be instrumented", and nothing
\* else changes but a Stat that fails and a directory's other methods, whatever
\* the wrapped filesystem has and answers.
THEOREM TracingIsTransparent == SpecTrace => []Transparent
  BY InitWrap, NextWrap, PTL DEF SpecTrace
=============================================================================
