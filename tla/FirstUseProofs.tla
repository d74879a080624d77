---------------------------- MODULE FirstUseProofs ----------------------------
(***************************************************************************)
(* What the first use of a filesystem makes, and derived filesystems share,*)
(* is what they were given: the headers of httpfs and vaultfs             *)
(* (HttpHeaders), the clone of gitfs (GitFS), the client of consulfs       *)
(* (ConsulClient) and those of the cloud services (LazyClient); for any    *)
(* goroutines, any values that filesystems can be given and any number of  *)
(* them.                                                                   *)
(***************************************************************************)
EXTENDS HttpHeaders, GitFS, ConsulClient, LazyClient, TLAPS

(* The headers of httpfs and vaultfs *)

\* Every map that a filesystem has holds what it was given; it holds nothing but
\* what one of those that have it was given, or the caller has put there.
HeaderInv ==
    /\ maps \in Seq(SUBSET UNION HeaderSets) /\ CallerMaps \in 0..Len(maps)
    /\ headers \in Seq(DOMAIN maps)
    /\ handed \in Seq(SUBSET UNION HeaderSets) /\ Len(handed) = Len(headers)
    /\ added \in [1..CallerMaps -> SUBSET UNION HeaderSets]
    /\ \A f \in DOMAIN headers : handed[f] \subseteq maps[headers[f]]
    /\ \A m \in DOMAIN maps :
          maps[m] \subseteq HandedWith(m)
                            \cup (IF m \in 1..CallerMaps THEN added[m] ELSE {})

\* A filesystem that has map m, or a new one, was given what is handed to it.
LEMMA HandedGrows ==
    ASSUME HeaderInv, NEW m \in DOMAIN maps', NEW h \in SUBSET UNION HeaderSets,
           headers' = Append(headers, m), handed' = Append(handed, h)
    PROVE  /\ Len(handed') = Len(headers') /\ handed' \in Seq(SUBSET UNION HeaderSets)
           /\ DOMAIN headers' = DOMAIN headers \cup {Len(headers) + 1}
           /\ \A f \in DOMAIN headers : headers'[f] = headers[f] /\ handed'[f] = handed[f]
           /\ headers'[Len(headers) + 1] = m /\ handed'[Len(headers) + 1] = h
           /\ \A k : HandedWith(k) \subseteq HandedWith(k)'
           /\ h \subseteq HandedWith(m)'
<1> USE DEF HeaderInv
<1>1. /\ Len(handed') = Len(headers') /\ handed' \in Seq(SUBSET UNION HeaderSets)
      /\ DOMAIN headers' = DOMAIN headers \cup {Len(headers) + 1}
      /\ \A f \in DOMAIN headers : headers'[f] = headers[f] /\ handed'[f] = handed[f]
      /\ headers'[Len(headers) + 1] = m /\ handed'[Len(headers) + 1] = h
  OBVIOUS
<1>2. \A k : HandedWith(k) \subseteq HandedWith(k)'
  BY <1>1 DEF HandedWith
<1>3. h \subseteq HandedWith(m)'
  BY <1>1 DEF HandedWith
<1>4. QED BY <1>1, <1>2, <1>3

\* A map is made, copied, joined with another or added to by its caller.
LEMMA NextHeaderInv == HeaderInv /\ [NextHeaders]_headerVars => HeaderInv'
<1> SUFFICES ASSUME HeaderInv, [NextHeaders]_headerVars PROVE HeaderInv'
  OBVIOUS
<1> USE HeaderAssumption
<1>1. CASE NewFS \/ WithAPIConfig
  <2>1. /\ maps' = Append(maps, {}) /\ headers' = Append(headers, Len(maps) + 1)
        /\ handed' = Append(handed, {}) /\ added' = added
    BY <1>1 DEF NewFS, WithAPIConfig, HeaderInv
  <2>2. /\ maps' \in Seq(SUBSET UNION HeaderSets)
        /\ DOMAIN maps' = DOMAIN maps \cup {Len(maps) + 1}
        /\ \A m \in DOMAIN maps : maps'[m] = maps[m]
        /\ maps'[Len(maps) + 1] = {} /\ CallerMaps \in 0..Len(maps')
    BY <2>1 DEF HeaderInv
  <2>3. headers' \in Seq(DOMAIN maps')
    BY <2>1, <2>2 DEF HeaderInv
  <2>4. /\ DOMAIN headers' = DOMAIN headers \cup {Len(headers) + 1}
        /\ \A f \in DOMAIN headers : headers'[f] = headers[f] /\ handed'[f] = handed[f]
        /\ headers'[Len(headers) + 1] = Len(maps) + 1 /\ handed'[Len(headers) + 1] = {}
        /\ Len(handed') = Len(headers') /\ handed' \in Seq(SUBSET UNION HeaderSets)
        /\ \A k : HandedWith(k) \subseteq HandedWith(k)'
    BY <2>1, <2>2, HandedGrows
  <2>5. \A f \in DOMAIN headers' : handed'[f] \subseteq maps'[headers'[f]]
    BY <2>2, <2>4 DEF HeaderInv
  <2>6. \A m \in DOMAIN maps' :
           maps'[m] \subseteq HandedWith(m)'
                              \cup (IF m \in 1..CallerMaps THEN added'[m] ELSE {})
    BY <2>1, <2>2, <2>4 DEF HeaderInv
  <2>7. QED BY <2>1, <2>2, <2>3, <2>4, <2>5, <2>6 DEF HeaderInv
<1>2. ASSUME NEW f \in DOMAIN headers, Copy(f) PROVE HeaderInv'
  <2>1. /\ headers' = Append(headers, headers[f]) /\ handed' = Append(handed, handed[f])
        /\ UNCHANGED <<maps, added>>
    BY <1>2 DEF Copy
  <2>2. headers[f] \in DOMAIN maps /\ handed[f] \in SUBSET UNION HeaderSets
    BY DEF HeaderInv
  <2>3. headers' \in Seq(DOMAIN maps')
    BY <2>1, <2>2 DEF HeaderInv
  <2>4. QED BY <2>1, <2>2, <2>3, HandedGrows DEF HeaderInv
<1>3. ASSUME NEW f \in DOMAIN headers, NEW m \in 1..CallerMaps, WithHTTPHeader(f, m)
      PROVE  HeaderInv'
  <2> DEFINE old == headers[f]
             joined == Joined(old, m)
  <2>1. /\ headers' = Append(headers, joined.map)
        /\ maps' = [maps EXCEPT ![joined.map] = joined.has]
        /\ handed' = Append(handed, handed[f] \cup maps[m]) /\ added' = added
    BY <1>3 DEF WithHTTPHeader
  <2>2. /\ old \in DOMAIN maps /\ m \in DOMAIN maps
        /\ maps[m] \in SUBSET UNION HeaderSets /\ maps[old] \in SUBSET UNION HeaderSets
        /\ handed[f] \in SUBSET UNION HeaderSets /\ handed[f] \subseteq maps[old]
    BY DEF HeaderInv
  <2>3. /\ joined.map \in DOMAIN maps /\ joined.has = maps[joined.map] \cup maps[m]
        /\ handed[f] \cup maps[m] \subseteq joined.has
    BY <2>2 DEF Joined
  <2> HIDE DEF joined, old
  <2>4. /\ maps' \in Seq(SUBSET UNION HeaderSets) /\ DOMAIN maps' = DOMAIN maps
        /\ Len(maps') = Len(maps)
        /\ \A k \in DOMAIN maps : k # joined.map => maps'[k] = maps[k]
        /\ maps'[joined.map] = maps[joined.map] \cup maps[m]
    BY <2>1, <2>2, <2>3 DEF HeaderInv
  <2>5. headers' \in Seq(DOMAIN maps')
    BY <2>1, <2>3, <2>4 DEF HeaderInv
  <2> PICK target : target = joined.map
    OBVIOUS
  <2> PICK h : h = handed[f] \cup maps[m]
    OBVIOUS
  <2>6. /\ DOMAIN headers' = DOMAIN headers \cup {Len(headers) + 1}
        /\ \A g \in DOMAIN headers : headers'[g] = headers[g] /\ handed'[g] = handed[g]
        /\ headers'[Len(headers) + 1] = target /\ handed'[Len(headers) + 1] = h
        /\ Len(handed') = Len(headers') /\ handed' \in Seq(SUBSET UNION HeaderSets)
        /\ \A k : HandedWith(k) \subseteq HandedWith(k)'
        /\ h \subseteq HandedWith(target)'
    <3>1. h \in SUBSET UNION HeaderSets /\ target \in DOMAIN maps'
      BY <2>2, <2>3, <2>4
    <3>2. headers' = Append(headers, target) /\ handed' = Append(handed, h)
      BY <2>1
    <3>3. QED BY <3>1, <3>2, HandedGrows
  <2>7. \A g \in DOMAIN headers' : handed'[g] \subseteq maps'[headers'[g]]
    <3>1. \A k \in DOMAIN maps : maps[k] \subseteq maps'[k]
      BY <2>4
    <3>2. \A g \in DOMAIN headers : headers[g] \in DOMAIN maps
                                    /\ handed[g] \subseteq maps[headers[g]]
      BY DEF HeaderInv
    <3>3. handed[f] \cup maps[m] \subseteq maps'[joined.map]
      BY <2>3, <2>4
    <3>4. QED BY <2>6, <3>1, <3>2, <3>3
  <2>8. ASSUME NEW k \in DOMAIN maps'
        PROVE  maps'[k] \subseteq HandedWith(k)'
                              \cup (IF k \in 1..CallerMaps THEN added'[k] ELSE {})
    <3>1. maps[k] \subseteq HandedWith(k) \cup (IF k \in 1..CallerMaps THEN added[k] ELSE {})
      BY <2>4 DEF HeaderInv
    <3>2. HandedWith(k) \subseteq HandedWith(k)' /\ added' = added
      BY <2>1, <2>6
    <3>3. maps[k] \subseteq HandedWith(k)' \cup (IF k \in 1..CallerMaps THEN added'[k] ELSE {})
      BY <3>1, <3>2
    <3>4. maps'[k] \subseteq maps[k] \cup HandedWith(k)'
      <4>1. CASE k = target
        <5>1. maps'[target] = maps[target] \cup maps[m]
          BY <2>4
        <5>2. maps[m] \subseteq HandedWith(target)'
          BY <2>6
        <5>3. QED BY <4>1, <5>1, <5>2
      <4>2. CASE k # target
        BY <2>4, <4>2
      <4>3. QED BY <4>1, <4>2
    <3>5. QED BY <3>3, <3>4
  <2>9. QED BY <2>1, <2>4, <2>5, <2>6, <2>7, <2>8 DEF HeaderInv
<1>4. ASSUME NEW m \in 1..CallerMaps, NEW header \in UNION HeaderSets, Put(m, header)
      PROVE  HeaderInv'
  <2>1. /\ maps' = [maps EXCEPT ![m] = maps[m] \cup {header}]
        /\ added' = [added EXCEPT ![m] = added[m] \cup {header}]
        /\ UNCHANGED <<headers, handed>>
    BY <1>4 DEF Put
  <2>2. m \in DOMAIN maps /\ HandedWith(m)' = HandedWith(m)
    BY <2>1 DEF HeaderInv, HandedWith
  <2>3. \A k : HandedWith(k)' = HandedWith(k)
    BY <2>1 DEF HandedWith
  <2>4. /\ maps' \in Seq(SUBSET UNION HeaderSets) /\ DOMAIN maps' = DOMAIN maps
        /\ Len(maps') = Len(maps)
        /\ \A k \in DOMAIN maps : k # m => maps'[k] = maps[k]
        /\ maps'[m] = maps[m] \cup {header}
    BY <2>1, <2>2 DEF HeaderInv
  <2>5. QED BY <2>1, <2>3, <2>4 DEF HeaderInv
<1>5. ASSUME NEW m \in 1..CallerMaps, WithAPIClient(m) PROVE HeaderInv'
  <2>1. /\ headers' = Append(headers, m) /\ handed' = Append(handed, {})
        /\ UNCHANGED <<maps, added>>
    BY <1>5 DEF WithAPIClient
  <2>2. m \in DOMAIN maps
    BY DEF HeaderInv
  <2>3. headers' \in Seq(DOMAIN maps')
    BY <2>1, <2>2 DEF HeaderInv
  <2>4. /\ DOMAIN headers' = DOMAIN headers \cup {Len(headers) + 1}
        /\ \A f \in DOMAIN headers : headers'[f] = headers[f] /\ handed'[f] = handed[f]
        /\ headers'[Len(headers) + 1] = m /\ handed'[Len(headers) + 1] = {}
        /\ Len(handed') = Len(headers') /\ handed' \in Seq(SUBSET UNION HeaderSets)
        /\ \A k : HandedWith(k) \subseteq HandedWith(k)'
    BY <2>1, <2>2, HandedGrows
  <2>5. \A f \in DOMAIN headers' : handed'[f] \subseteq maps'[headers'[f]]
    BY <2>1, <2>4 DEF HeaderInv
  <2>6. QED BY <2>1, <2>3, <2>4, <2>5 DEF HeaderInv
<1>6. CASE UNCHANGED headerVars
  BY <1>6 DEF headerVars, HeaderInv, HandedWith
<1>7. QED BY <1>1, <1>2, <1>3, <1>4, <1>5, <1>6 DEF NextHeaders

\* A request of httpfs or vaultfs has every header that its filesystem was given,
\* through any derivation, and no header that was not put in a map or a client it
\* shares.
THEOREM HeadersAreKept == SpecHeaders => []HeadersKept
<1>1. InitHeaders => HeaderInv
  <2> SUFFICES ASSUME InitHeaders PROVE HeaderInv
    OBVIOUS
  <2>1. /\ maps \in [1..CallerMaps -> SUBSET UNION HeaderSets] /\ added = maps
        /\ headers = <<>> /\ handed = <<>>
    BY DEF InitHeaders
  <2>2. /\ maps \in Seq(SUBSET UNION HeaderSets) /\ Len(maps) = CallerMaps
        /\ DOMAIN maps = 1..CallerMaps
    BY <2>1, HeaderAssumption
  <2>3. \A m \in DOMAIN maps : m \in 1..CallerMaps /\ maps[m] = added[m]
    BY <2>1, <2>2
  <2>4. \A m \in DOMAIN maps :
           maps[m] \subseteq HandedWith(m)
                             \cup (IF m \in 1..CallerMaps THEN added[m] ELSE {})
    BY <2>3
  <2>5. DOMAIN headers = {} /\ headers \in Seq(DOMAIN maps) /\ Len(handed) = Len(headers)
        /\ handed \in Seq(SUBSET UNION HeaderSets)
    BY <2>1
  <2>6. added \in [1..CallerMaps -> SUBSET UNION HeaderSets] /\ CallerMaps \in 0..Len(maps)
    BY <2>1, <2>2, HeaderAssumption
  <2>7. QED BY <2>2, <2>4, <2>5, <2>6 DEF HeaderInv
<1>2. HeaderInv => HeadersKept
  <2> SUFFICES ASSUME HeaderInv PROVE HeadersKept
    OBVIOUS
  <2>1. ASSUME NEW f \in DOMAIN headers
        PROVE  /\ handed[f] \subseteq Sent(f)
               /\ Sent(f) \subseteq HandedWith(headers[f])
                      \cup (IF headers[f] \in 1..CallerMaps THEN added[headers[f]] ELSE {})
    <3>1. headers[f] \in DOMAIN maps
      BY DEF HeaderInv
    <3>2. QED BY <3>1 DEF HeaderInv, Sent
  <2>2. QED BY <2>1 DEF HeadersKept
<1>3. QED BY <1>1, <1>2, NextHeaderInv, PTL DEF SpecHeaders

-----------------------------------------------------------------------------
(* The clone of gitfs *)

\* The call of a goroutine knows the default branches that there were since it
\* began; what it clones is one of them, if no other is wanted.  One goroutine
\* alone clones only what there is no clone of.
FrameOK(r) ==
    /\ DOMAIN r = {"pc", "fs", "dotGit", "method", "ref", "clone", "defaults"}
    /\ r.fs \in Filesystems
    /\ r.pc # "idle" => default \in r.defaults /\ auth[r.fs] # "none"
    /\ r.pc = "clone" /\ wanted = HEAD => r.ref \in r.defaults \cup {HEAD}
    /\ r.pc = "store" /\ wanted = HEAD => r.clone.branch \in r.defaults
    /\ r.pc # "idle" /\ serial => repofs[r.fs] = NoClone

GitInv ==
    /\ DOMAIN auth = Filesystems /\ DOMAIN repofs = Filesystems /\ DOMAIN frame = Procs
    /\ frame = [p \in Procs |-> frame[p]] /\ repofs = [f \in Filesystems |-> repofs[f]]
    /\ auth = [f \in Filesystems |-> auth[f]]
    /\ auth["derived"] = "none" => repofs["derived"] = NoClone
    /\ \A p \in Procs : FrameOK(frame[p])
    /\ serial => \A p, q \in Procs : At(p, "idle") \/ At(q, "idle") \/ p = q

\* The fields of a call, and of a goroutine without one.
LEMMA CallFields ==
    ASSUME NEW f \in Filesystems
    PROVE  /\ DOMAIN Call(f) = {"pc", "fs", "dotGit", "method", "ref", "clone", "defaults"}
           /\ Call(f).pc = "auth" /\ Call(f).fs = f /\ Call(f).defaults = {default}
           /\ DOMAIN Idle = {"pc", "fs", "dotGit", "method", "ref", "clone", "defaults"}
           /\ Idle.pc = "idle" /\ Idle.fs = "made"
  BY DEF Call, Idle, Filesystems

\* A step of one goroutine, in which none but it is in a call afterwards if only
\* one may be.
LEMMA OneFrame ==
    ASSUME GitInv, NEW p \in Procs, NEW r, SetFrame(p, r), FrameOK(r),
           UNCHANGED <<given, remote, auth, repofs>>,
           \/ r.pc = "idle" \/ ~At(p, "idle")
           \/ serial => \A q \in Procs : At(q, "idle")
    PROVE  GitInv'
<1>1. /\ DOMAIN frame' = Procs /\ frame'[p] = r
      /\ \A q \in Procs : q # p => frame'[q] = frame[q]
      /\ frame' = [q \in Procs |-> frame'[q]]
  BY DEF SetFrame, GitInv
<1>2. UNCHANGED <<serial, wanted, default, auth, repofs>>
  BY DEF given, remote
<1>3. \A q \in Procs : FrameOK(frame'[q])
  BY <1>1 DEF GitInv
<1>4. \A q \in Procs : FrameOK(frame[q])'
  BY <1>2, <1>3 DEF FrameOK
<1>5. serial' => \A q1, q2 \in Procs : At(q1, "idle")' \/ At(q2, "idle")' \/ q1 = q2
  BY <1>1, <1>2 DEF GitInv, At
<1>6. QED BY <1>1, <1>2, <1>4, <1>5 DEF GitInv

LEMMA NextGitInv == GitInv /\ [Next]_vars => GitInv'
<1> SUFFICES ASSUME GitInv, [Next]_vars PROVE GitInv'
  OBVIOUS
<1> "made" \in Filesystems /\ "derived" \in Filesystems
  BY DEF Filesystems
<1>1. ASSUME NEW p \in Procs, NEW f \in Filesystems, Open(p, f) PROVE GitInv'
  <2>1. FrameOK(Call(f))
    BY <1>1, CallFields DEF Open, NeedsClone, FrameOK
  <2>2. QED BY <1>1, <2>1, OneFrame DEF Open
<1>2. FrameOK(Idle)
  BY CallFields DEF FrameOK
<1>3. ASSUME NEW p \in Procs, StartClone(p) PROVE GitInv'
  <2> DEFINE m == Authenticate(auth[frame[p].fs])
             started == [frame[p] EXCEPT
                           !.pc = IF wanted = HEAD THEN "discover" ELSE "clone",
                           !.method = m, !.ref = wanted]
  <2>1. FrameOK(frame[p]) /\ ~At(p, "idle")
    BY <1>3 DEF GitInv, StartClone, At
  <2>2. FrameOK(started)
    BY <1>3, <2>1 DEF FrameOK, StartClone, At
  <2>3. /\ SetFrame(p, IF m = "error" THEN Idle ELSE started)
        /\ UNCHANGED <<given, remote, auth, repofs>>
    BY <1>3 DEF StartClone
  <2> HIDE DEF started, m
  <2>4. QED BY <1>2, <2>1, <2>2, <2>3, OneFrame
<1>4. ASSUME NEW p \in Procs, Discover(p) PROVE GitInv'
  <2>1. FrameOK(frame[p]) /\ ~At(p, "idle")
    BY <1>4 DEF GitInv, Discover, At
  <2>2. PICK ref \in {default, HEAD} :
           SetFrame(p, [frame[p] EXCEPT !.pc = "clone", !.ref = ref])
    BY <1>4 DEF Discover
  <2>3. FrameOK([frame[p] EXCEPT !.pc = "clone", !.ref = ref])
    BY <1>4, <2>1, <2>2 DEF FrameOK, Discover, At
  <2>4. QED BY <1>4, <2>1, <2>2, <2>3, OneFrame DEF Discover
<1>5. ASSUME NEW p \in Procs, Clone(p) PROVE GitInv'
  <2> DEFINE branch == Target(frame[p].ref)
             done == [frame[p] EXCEPT
                        !.pc = "store",
                        !.clone = [branch |-> branch, commit |-> tip[branch]]]
  <2>1. FrameOK(frame[p]) /\ ~At(p, "idle")
    BY <1>5 DEF GitInv, Clone, At
  <2>2. FrameOK(done)
    BY <1>5, <2>1 DEF FrameOK, Clone, At, Target
  <2>3. SetFrame(p, done) /\ UNCHANGED <<given, remote, auth, repofs>>
    BY <1>5 DEF Clone
  <2> HIDE DEF done
  <2>4. QED BY <2>1, <2>2, <2>3, OneFrame
<1>6. ASSUME NEW p \in Procs, TryDotGit(p) PROVE GitInv'
  <2>1. FrameOK(frame[p]) /\ ~At(p, "idle")
    BY <1>6 DEF GitInv, TryDotGit, At
  <2>2. FrameOK([frame[p] EXCEPT !.pc = "auth", !.dotGit = TRUE])
    BY <1>6, <2>1 DEF FrameOK, TryDotGit, At
  <2>3. QED BY <1>6, <2>1, <2>2, OneFrame DEF TryDotGit
<1>7. ASSUME NEW p \in Procs, CloneFails(p) PROVE GitInv'
  BY <1>2, <1>7, CallFields, OneFrame DEF CloneFails
<1>8. ASSUME NEW p \in Procs, Store(p) PROVE GitInv'
  <2>1. /\ frame' = [frame EXCEPT ![p] = Idle]
        /\ repofs' = [repofs EXCEPT ![frame[p].fs] = frame[p].clone]
        /\ UNCHANGED <<serial, wanted, default, auth>>
        /\ ~At(p, "idle")
    BY <1>8 DEF Store, SetFrame, given, remote, At
  <2>2. /\ FrameOK(frame[p]) /\ auth[frame[p].fs] # "none"
        /\ serial => \A q \in Procs : q # p => At(q, "idle")
    BY <2>1 DEF GitInv, FrameOK, At
  <2>3. \A q \in Procs : FrameOK(frame[q])'
    <3>1. FrameOK(frame[p])'
      BY <1>2, <2>1, CallFields DEF GitInv, FrameOK
    <3>2. ASSUME NEW q \in Procs, q # p PROVE FrameOK(frame[q])'
      <4>1. frame'[q] = frame[q] /\ FrameOK(frame[q])
        BY <2>1, <3>2 DEF GitInv
      <4>2. serial => frame[q].pc = "idle"
        BY <2>2, <3>2 DEF At
      <4>3. QED BY <2>1, <4>1, <4>2 DEF FrameOK
    <3>3. QED BY <3>1, <3>2
  <2>4. /\ DOMAIN frame' = Procs /\ frame' = [q \in Procs |-> frame'[q]]
        /\ DOMAIN repofs' = Filesystems /\ repofs' = [f \in Filesystems |-> repofs'[f]]
    BY <2>1 DEF GitInv
  <2>5. auth'["derived"] = "none" => repofs'["derived"] = NoClone
    BY <2>1, <2>2 DEF GitInv
  <2>6. serial' => \A q1, q2 \in Procs : At(q1, "idle")' \/ At(q2, "idle")' \/ q1 = q2
    BY <2>1, <2>2, CallFields DEF At, GitInv
  <2>7. QED BY <2>1, <2>3, <2>4, <2>5, <2>6 DEF GitInv
<1>9. ASSUME NEW a \in Authenticators, Derive(a) PROVE GitInv'
  <2>1. /\ auth["derived"] = "none" /\ a # "none"
        /\ auth' = [auth EXCEPT !["derived"] = a]
        /\ repofs' = [repofs EXCEPT !["derived"] = repofs["made"]]
        /\ UNCHANGED <<serial, wanted, default, frame>>
        /\ serial => \A p \in Procs : At(p, "idle")
    BY <1>9, GitAssumption DEF Derive, given, remote
  <2>2. \A p \in Procs : FrameOK(frame[p])'
    BY <2>1 DEF GitInv, FrameOK, At
  <2>3. QED BY <2>1, <2>2 DEF GitInv, At
<1>10. ASSUME NEW b \in Branches, Push(b) PROVE GitInv'
  BY <1>10 DEF Push, given, GitInv, FrameOK, At
<1>11. ASSUME NEW b \in Branches, SetDefault(b) PROVE GitInv'
  <2>1. /\ default' = b
        /\ frame' = [p \in Procs |->
                       IF At(p, "idle") THEN Idle
                       ELSE [frame[p] EXCEPT !.defaults = @ \cup {b}]]
        /\ UNCHANGED <<serial, wanted, auth, repofs>>
    BY <1>11 DEF SetDefault, given
  <2>2. ASSUME NEW p \in Procs
        PROVE  FrameOK(frame[p])' /\ (At(p, "idle") <=> At(p, "idle")')
    <3>1. CASE At(p, "idle")
      BY <1>2, <2>1, <3>1, CallFields DEF FrameOK, At
    <3>2. CASE ~At(p, "idle")
      <4>1. FrameOK(frame[p])
        BY DEF GitInv
      <4>2. frame'[p] = [frame[p] EXCEPT !.defaults = frame[p].defaults \cup {b}]
        BY <2>1, <3>2
      <4>3. QED BY <2>1, <3>2, <4>1, <4>2 DEF FrameOK, At
    <3>3. QED BY <3>1, <3>2
  <2>3. QED BY <2>1, <2>2 DEF GitInv
<1>12. CASE UNCHANGED vars
  BY <1>12 DEF vars, given, remote, GitInv, FrameOK, At
<1>13. QED
  BY <1>1, <1>3, <1>4, <1>5, <1>6, <1>7, <1>8, <1>9, <1>10, <1>11, <1>12
     DEF Next, Step, ReadClone

LEMMA GitInvariant == Spec => []GitInv
<1>1. Init => GitInv
  <2> SUFFICES ASSUME Init PROVE GitInv
    OBVIOUS
  <2>1. /\ repofs = [f \in Filesystems |-> NoClone] /\ frame = [p \in Procs |-> Idle]
        /\ DOMAIN auth = Filesystems /\ auth = [f \in Filesystems |-> auth[f]]
    BY DEF Init
  <2>2. "made" \in Filesystems /\ "derived" \in Filesystems
    BY DEF Filesystems
  <2>3. FrameOK(Idle)
    BY <2>2, CallFields DEF FrameOK
  <2>4. QED BY <2>1, <2>2, <2>3, CallFields DEF GitInv, At
<1>2. QED BY <1>1, NextGitInv, PTL DEF Spec

\* What is cloned without a branch in the URL is the default one at some moment of
\* the clone, for any goroutines and branches and however often it changes.
THEOREM DefaultBranchIsChosen == Spec => []DefaultBranchChosen
<1>1. GitInv => DefaultBranchChosen
  BY DEF GitInv, FrameOK, DefaultBranchChosen, At
<1>2. QED BY <1>1, GitInvariant, PTL

\* One goroutine at a time never sees a filesystem go to another commit.
THEOREM ItIsClonedOnce == Spec => ClonedOnce
<1>1. GitInv /\ [Next]_vars =>
         [serial => \A f \in Filesystems :
             repofs[f] # NoClone => repofs'[f] = repofs[f]]_vars
  <2> SUFFICES ASSUME GitInv, Next, serial, NEW f \in Filesystems, repofs[f] # NoClone
               PROVE  repofs'[f] = repofs[f]
    OBVIOUS
  <2>1. ASSUME NEW p \in Procs, Store(p) PROVE repofs'[f] = repofs[f]
    <3>1. FrameOK(frame[p]) /\ frame[p].pc = "store"
      BY <2>1 DEF GitInv, Store, At
    <3>2. repofs[frame[p].fs] = NoClone
      BY <3>1 DEF FrameOK
    <3>3. QED BY <2>1, <3>2 DEF Store, GitInv
  <2>2. ASSUME NEW a \in Authenticators, Derive(a) PROVE repofs'[f] = repofs[f]
    BY <2>2 DEF Derive, GitInv
  <2>3. QED
    BY <2>1, <2>2 DEF Next, Step, ReadClone, Open, StartClone, Discover, Clone, TryDotGit,
                      CloneFails, Push, SetDefault, vars
<1>2. QED BY <1>1, GitInvariant, PTL DEF Spec, ClonedOnce

-----------------------------------------------------------------------------
(* The client of consulfs *)

Settings == [addr : Hosts \cup {None}, token : Tokens \cup {None}]
Client   == [addr : Hosts \cup {None}, token : Tokens \cup {None}, headers : SUBSET Headers]

\* A configuration has the host and the token of a filesystem that has them, and
\* a client the header, too.
Written(fs, c) ==
    /\ fs.host # None => c.addr = fs.host
    /\ fs.token # None => c.token = fs.token

Serves(fs, c) == Written(fs, c) /\ (fs.header # None => fs.header \in c.headers)

\* The client at k is one for fs.
ServedBy(fs, k) == k \in DOMAIN clients /\ Serves(fs, clients[k])

ConsulTypes ==
    /\ consulfs \in [ConsulFilesystems -> ConsulFS \cup {None}]
    /\ configs \in [Configs -> Settings]
    /\ clients \in Seq(Client)
    /\ opening \in [Openers -> {"idle", "configure", "create", "open"}]
    /\ cur \in [Openers -> ConsulFilesystems \cup {None}]
    /\ scratch \in [Openers -> Settings]
    /\ file \in [Openers -> ConsulFile \cup {None}]

\* Every filesystem's client, and every file's, is one for it; a goroutine that has
\* written a configuration still finds in it what it has written.
ClientsInv ==
    \A f \in Made : consulfs[f].client # None => ServedBy(consulfs[f], consulfs[f].client)

FilesInv ==
    \A p \in Openers : file[p] # None =>
        file[p].fs \in Made /\ ServedBy(consulfs[file[p].fs], file[p].client)

OpeningInv ==
    \A p \in Openers : opening[p] # "idle" =>
        LET fs == consulfs[cur[p]] IN
        /\ cur[p] \in Made
        /\ opening[p] = "open" => fs.client # None
        /\ opening[p] = "create" =>
              Written(fs, IF fs.config = None THEN scratch[p] ELSE configs[fs.config])
        /\ fs.config # None =>
              \A q \in Openers : q # p /\ opening[q] # "idle" =>
                  consulfs[cur[q]].config # fs.config

ConsulInv == ConsulTypes /\ ClientsInv /\ FilesInv /\ OpeningInv

\* What a made filesystem is.
LEMMA MadeFacts ==
    ASSUME ConsulTypes, NEW f \in Made
    PROVE  /\ f \in ConsulFilesystems /\ consulfs[f] \in ConsulFS /\ consulfs[f] # None
           /\ consulfs[f].client \in Nat \cup {None}
           /\ consulfs[f].config \in Configs \cup {None}
  BY DEF ConsulTypes, Made, ConsulFS

\* What is written to a configuration is written, and no other type.
LEMMA ConfiguredFacts ==
    ASSUME ConsulTypes, NEW f \in Made, NEW c \in Settings
    PROVE  Configured(c, f) \in Settings /\ Written(consulfs[f], Configured(c, f))
  BY MadeFacts DEF Configured, Settings, Written, ConsulFS

\* A filesystem that is not there yet: the others keep what they have.
LEMMA DerivedKeeps ==
    ASSUME ConsulInv, NEW f \in ConsulFilesystems \ Made, NEW copy \in ConsulFS,
           consulfs' = [consulfs EXCEPT ![f] = copy],
           UNCHANGED <<configs, opening, cur, scratch, file>>,
           clients' \in Seq(Client), DOMAIN clients \subseteq DOMAIN clients',
           \A k \in DOMAIN clients :
              /\ clients'[k].addr = clients[k].addr /\ clients'[k].token = clients[k].token
              /\ clients[k].headers \subseteq clients'[k].headers,
           copy.client # None => copy.client \in DOMAIN clients'
                                 /\ Serves(copy, clients'[copy.client])
    PROVE  ConsulInv'
<1> USE DEF ConsulInv
<1>1. /\ consulfs'[f] = copy /\ copy # None /\ consulfs[f] = None
      /\ \A g \in ConsulFilesystems : g # f => consulfs'[g] = consulfs[g]
  BY ConsulAssumption DEF ConsulTypes, Made
<1>2. ConsulTypes'
  BY DEF ConsulTypes
<1>3. Made' = Made \cup {f} /\ \A g \in Made : consulfs'[g] = consulfs[g]
  BY <1>1 DEF Made
<1>4. ASSUME NEW g \in Made, NEW k, ServedBy(consulfs[g], k)
      PROVE  k \in DOMAIN clients' /\ Serves(consulfs[g], clients'[k])
  BY <1>4 DEF ServedBy, Serves, Written
<1>5. ClientsInv'
  <2> SUFFICES ASSUME NEW g \in Made', consulfs'[g].client # None
               PROVE  /\ consulfs'[g].client \in DOMAIN clients'
                      /\ Serves(consulfs'[g], clients'[consulfs'[g].client])
    BY DEF ClientsInv, ServedBy
  <2>1. CASE g = f
    BY <1>1, <2>1
  <2>2. CASE g \in Made
    BY <1>3, <1>4, <2>2 DEF ClientsInv
  <2>3. QED BY <1>3, <2>1, <2>2
<1>6. FilesInv'
  <2> SUFFICES ASSUME NEW p \in Openers, file[p] # None
               PROVE  /\ file[p].fs \in Made' /\ file[p].client \in DOMAIN clients'
                      /\ Serves(consulfs'[file[p].fs], clients'[file[p].client])
    BY DEF FilesInv, ServedBy
  <2>1. file[p].fs \in Made /\ ServedBy(consulfs[file[p].fs], file[p].client)
    BY DEF FilesInv
  <2>2. QED BY <1>3, <1>4, <2>1
<1>7. OpeningInv'
  <2>1. \A p \in Openers : opening[p] # "idle" =>
           cur[p] \in Made /\ cur[p] \in Made' /\ consulfs'[cur[p]] = consulfs[cur[p]]
    BY <1>3 DEF OpeningInv
  <2>2. QED BY <2>1 DEF OpeningInv, Written
<1>8. QED BY <1>2, <1>5, <1>6, <1>7

\* New, and what a filesystem is derived to.
LEMMA DerivationKeeps ==
    ASSUME ConsulInv,
           DeriveConsul \/ \E f \in ConsulFilesystems, host \in Hosts \cup {None} :
                             NewConsul(f, host)
    PROVE  ConsulInv'
<1> USE DEF ConsulInv
<1> clients \in Seq(Client)
  BY DEF ConsulTypes
<1>1. ASSUME NEW f \in ConsulFilesystems, NEW host \in Hosts \cup {None}, NewConsul(f, host)
      PROVE  ConsulInv'
  <2> DEFINE new == [host |-> host, config |-> None, token |-> None, header |-> None,
                     client |-> None]
  <2>1. new \in ConsulFS /\ new.client = None
    BY DEF ConsulFS
  <2>2. /\ f \notin Made /\ consulfs' = [consulfs EXCEPT ![f] = new]
        /\ UNCHANGED <<configs, opening, cur, scratch, file, clients>>
    BY <1>1 DEF NewConsul
  <2> HIDE DEF new
  <2>3. QED BY <2>1, <2>2, DerivedKeeps
<1>2. ASSUME NEW f \in ConsulFilesystems, NEW copy \in ConsulFS, DeriveAs(f, copy),
             UNCHANGED clients, copy.client # None => ServedBy(copy, copy.client)
      PROVE  ConsulInv'
  <2>1. /\ f \notin Made /\ consulfs' = [consulfs EXCEPT ![f] = copy]
        /\ UNCHANGED <<configs, opening, cur, scratch, file>>
    BY <1>2 DEF DeriveAs
  <2>2. QED BY <1>2, <2>1, DerivedKeeps DEF ServedBy
<1>3. ASSUME NEW f \in ConsulFilesystems, NEW g \in Made, WithQueryOptions(f, g)
      PROVE  ConsulInv'
  BY <1>2, <1>3, MadeFacts DEF WithQueryOptions, ClientsInv
<1>4. ASSUME NEW f \in ConsulFilesystems, NEW g \in Made, NEW token \in Tokens,
             WithToken(f, g, token)
      PROVE  ConsulInv'
  <2> DEFINE copy == [consulfs[g] EXCEPT !.token = token, !.client = None]
  <2>1. copy \in ConsulFS /\ copy.client = None
    BY MadeFacts DEF ConsulFS
  <2>2. DeriveAs(f, copy) /\ UNCHANGED clients
    BY <1>4 DEF WithToken
  <2> HIDE DEF copy
  <2>3. QED BY <1>2, <2>1, <2>2
<1>5. ASSUME NEW f \in ConsulFilesystems, NEW g \in Made, NEW config \in Configs,
             WithConfig(f, g, config)
      PROVE  ConsulInv'
  <2> DEFINE copy == [consulfs[g] EXCEPT !.config = config, !.client = None]
  <2>1. copy \in ConsulFS /\ copy.client = None
    BY MadeFacts DEF ConsulFS
  <2>2. DeriveAs(f, copy) /\ UNCHANGED clients
    BY <1>5 DEF WithConfig
  <2> HIDE DEF copy
  <2>3. QED BY <1>2, <2>1, <2>2
<1>6. ASSUME NEW f \in ConsulFilesystems, NEW g \in Made, NEW header \in Headers,
             WithHeader(f, g, header)
      PROVE  ConsulInv'
  <2> DEFINE copy == [consulfs[g] EXCEPT !.header = header]
             k    == consulfs[g].client
  <2>1. /\ copy \in ConsulFS /\ copy.client = k /\ copy.header = header
        /\ copy.host = consulfs[g].host /\ copy.token = consulfs[g].token
    BY MadeFacts DEF ConsulFS
  <2>2. /\ f \notin Made /\ consulfs' = [consulfs EXCEPT ![f] = copy]
        /\ UNCHANGED <<configs, opening, cur, scratch, file>>
    BY <1>6 DEF WithHeader, DeriveAs
  <2>3. IF k = None THEN clients' = clients
        ELSE clients' = [clients EXCEPT ![k].headers = clients[k].headers \cup {header}]
    BY <1>6 DEF WithHeader
  <2>4. k # None => k \in DOMAIN clients /\ Serves(consulfs[g], clients[k])
    BY DEF ClientsInv, ServedBy
  <2> HIDE DEF copy, k
  <2>5. CASE k = None
    BY <2>1, <2>2, <2>3, <2>5, DerivedKeeps
  <2>6. CASE k # None
    <3> clients[k] \in Client
      BY <2>4, <2>6
    <3>1. [clients[k] EXCEPT !.headers = clients[k].headers \cup {header}] \in Client
      BY DEF Client
    <3>2. /\ clients' \in Seq(Client) /\ DOMAIN clients' = DOMAIN clients
          /\ \A j \in DOMAIN clients : j # k => clients'[j] = clients[j]
          /\ clients'[k] = [clients[k] EXCEPT !.headers = clients[k].headers \cup {header}]
      <4>1. clients' = [clients EXCEPT ![k] =
                          [clients[k] EXCEPT !.headers = clients[k].headers \cup {header}]]
        BY <2>3, <2>6
      <4>2. QED BY <2>4, <2>6, <3>1, <4>1
    <3>3. /\ clients'[k].addr = clients[k].addr /\ clients'[k].token = clients[k].token
          /\ clients'[k].headers = clients[k].headers \cup {header}
      BY <2>4, <2>6, <3>2 DEF Client
    <3>4. Serves(copy, clients'[k])
      BY <2>1, <2>4, <2>6, <3>3 DEF Serves, Written
    <3>5. QED BY <2>1, <2>2, <2>4, <2>6, <3>2, <3>3, <3>4, DerivedKeeps
  <2>7. QED BY <2>5, <2>6
<1>7. QED BY <1>1, <1>3, <1>4, <1>5, <1>6 DEF DeriveConsul

\* Open: no other goroutine has the configuration.
LEMMA OpenKeeps ==
    ASSUME ConsulInv, NEW p \in Openers, NEW f \in Made, OpenConsul(p, f)
    PROVE  ConsulInv'
<1> USE DEF ConsulInv
<1>1. /\ opening[p] = "idle" /\ Exclusive(f)
      /\ opening' = [opening EXCEPT ![p] = IF consulfs[f].client # None THEN "open"
                                                                      ELSE "configure"]
      /\ cur' = [cur EXCEPT ![p] = f]
      /\ scratch' = [scratch EXCEPT ![p] = [addr |-> None, token |-> None]]
      /\ UNCHANGED <<consulfs, configs, clients, file>>
  BY DEF OpenConsul, Goto
<1>2. Made' = Made
  BY <1>1 DEF Made
<1>3. ConsulTypes'
  BY <1>1, MadeFacts DEF ConsulTypes, Settings
<1>4. ClientsInv' /\ FilesInv'
  BY <1>1, <1>2 DEF ClientsInv, FilesInv, ServedBy
<1>5. OpeningInv'
  <2>1. \A q \in Openers : q # p => opening'[q] = opening[q] /\ cur'[q] = cur[q]
                                  /\ scratch'[q] = scratch[q]
    BY <1>1 DEF ConsulTypes
  <2>2. opening'[p] \in {"open", "configure"} /\ cur'[p] = f
        /\ (opening'[p] = "open" => consulfs[f].client # None)
    BY <1>1 DEF ConsulTypes
  <2>3. consulfs[f].config # None =>
           \A q \in Openers : opening[q] # "idle" =>
               consulfs[cur[q]].config # consulfs[f].config
    BY <1>1 DEF Exclusive
  <2>4. QED BY <1>1, <1>2, <2>1, <2>2, <2>3 DEF OpeningInv, Written
<1>6. QED BY <1>3, <1>4, <1>5

\* The configuration is written, and no other goroutine is at work on it.
LEMMA WriteKeeps ==
    ASSUME ConsulInv, NEW p \in Openers, WriteConfig(p)
    PROVE  ConsulInv'
<1> USE DEF ConsulInv
<1> DEFINE f == cur[p]
<1>1. /\ opening[p] = "configure" /\ opening' = [opening EXCEPT ![p] = "create"]
      /\ UNCHANGED <<consulfs, clients, cur, file>>
  BY DEF WriteConfig, Goto
<1>2. f \in Made /\ Made' = Made
  BY <1>1 DEF OpeningInv, Made
<1>3. \/ /\ consulfs[f].config = None /\ configs' = configs
         /\ scratch' = [scratch EXCEPT ![p] = Configured(scratch[p], f)]
      \/ /\ consulfs[f].config # None /\ scratch' = scratch
         /\ configs' = [configs EXCEPT ![consulfs[f].config] =
                           Configured(configs[consulfs[f].config], f)]
  BY DEF WriteConfig
<1>4. consulfs[f].config \in Configs \cup {None}
  BY <1>2, MadeFacts
<1>5. /\ Configured(scratch[p], f) \in Settings
      /\ Written(consulfs[f], Configured(scratch[p], f))
  BY <1>2, ConfiguredFacts DEF ConsulTypes
<1>6. consulfs[f].config # None =>
         /\ Configured(configs[consulfs[f].config], f) \in Settings
         /\ Written(consulfs[f], Configured(configs[consulfs[f].config], f))
  BY <1>2, <1>4, ConfiguredFacts DEF ConsulTypes
<1>7. ConsulTypes'
  BY <1>1, <1>3, <1>4, <1>5, <1>6 DEF ConsulTypes
<1>8. ClientsInv' /\ FilesInv'
  BY <1>1, <1>2 DEF ClientsInv, FilesInv, ServedBy
<1>9. OpeningInv'
  <2>1. \A q \in Openers : q # p => opening'[q] = opening[q] /\ scratch'[q] = scratch[q]
    BY <1>1, <1>3 DEF ConsulTypes
  <2>2. Written(consulfs[f], IF consulfs[f].config = None THEN scratch'[p]
                             ELSE configs'[consulfs[f].config])
    BY <1>3, <1>4, <1>5, <1>6 DEF ConsulTypes
  <2>3. \A c \in Configs : c # consulfs[f].config => configs'[c] = configs[c]
    BY <1>3 DEF ConsulTypes
  <2>4. ASSUME NEW q \in Openers, q # p, opening[q] = "create"
        PROVE  Written(consulfs[cur[q]],
                       IF consulfs[cur[q]].config = None THEN scratch'[q]
                       ELSE configs'[consulfs[cur[q]].config])
    <3>1. /\ cur[q] \in Made
          /\ Written(consulfs[cur[q]],
                     IF consulfs[cur[q]].config = None THEN scratch[q]
                     ELSE configs[consulfs[cur[q]].config])
      BY <2>4 DEF OpeningInv
    <3>2. consulfs[cur[q]].config # None => consulfs[cur[q]].config # consulfs[f].config
      BY <1>1, <2>4 DEF OpeningInv
    <3>3. consulfs[cur[q]].config \in Configs \cup {None}
      BY <3>1, MadeFacts
    <3>4. QED BY <2>1, <2>3, <2>4, <3>1, <3>2, <3>3
  <2>5. opening'[p] = "create"
    BY <1>1 DEF ConsulTypes
  <2>6. ASSUME NEW q \in Openers, opening'[q] # "idle"
        PROVE  /\ cur[q] \in Made /\ opening[q] # "idle"
               /\ opening'[q] = "open" => consulfs[cur[q]].client # None
               /\ opening'[q] = "create" =>
                     Written(consulfs[cur[q]],
                             IF consulfs[cur[q]].config = None THEN scratch'[q]
                             ELSE configs'[consulfs[cur[q]].config])
    <3>1. CASE q = p
      BY <1>1, <1>2, <2>2, <2>5, <3>1
    <3>2. CASE q # p
      BY <2>1, <2>4, <2>6, <3>2 DEF OpeningInv
    <3>3. QED BY <3>1, <3>2
  <2>7. QED BY <1>1, <1>2, <2>6 DEF OpeningInv, Written
<1>10. QED BY <1>7, <1>8, <1>9

\* The client is made of what was written, and of the header.
LEMMA MakeKeeps ==
    ASSUME ConsulInv, NEW p \in Openers, MakeClient(p)
    PROVE  ConsulInv'
<1> USE DEF ConsulInv
<1> PICK f : f = cur[p]
  OBVIOUS
<1> DEFINE fs     == consulfs[f]
           config == IF fs.config = None THEN scratch[p] ELSE configs[fs.config]
           new    == [addr |-> config.addr, token |-> config.token,
                      headers |-> IF fs.header = None THEN {} ELSE {fs.header}]
           k      == Len(clients) + 1
           made   == [fs EXCEPT !.client = k]
<1>1. /\ opening[p] = "create" /\ opening' = [opening EXCEPT ![p] = "open"]
      /\ clients' = Append(clients, new)
      /\ UNCHANGED <<configs, cur, scratch, file>>
  BY DEF MakeClient, Goto
<1>2. /\ f \in Made /\ f \in ConsulFilesystems /\ fs \in ConsulFS
      /\ Written(fs, config) /\ fs.config \in Configs \cup {None}
  BY <1>1, MadeFacts DEF OpeningInv
<1>3. clients \in Seq(Client) /\ config \in Settings
  BY <1>2 DEF ConsulTypes
<1>4. new \in Client /\ Serves(fs, new)
  BY <1>2, <1>3 DEF Client, Settings, Serves, Written, ConsulFS
<1>5. /\ clients' \in Seq(Client) /\ k \in Nat /\ k # None
      /\ DOMAIN clients' = DOMAIN clients \cup {k} /\ clients'[k] = new
      /\ \A j \in DOMAIN clients : clients'[j] = clients[j]
  <2> HIDE DEF new
  <2>1. QED BY <1>1, <1>3, <1>4, ConsulAssumption
<1>6. /\ made \in ConsulFS /\ made # None /\ made.client = k
      /\ made.host = fs.host /\ made.token = fs.token /\ made.header = fs.header
      /\ made.config = fs.config
  BY <1>2, <1>5, ConsulAssumption DEF ConsulFS
<1>7. /\ consulfs' = [consulfs EXCEPT ![f] = made]
  <2>1. Len(clients') = k
    BY <1>1, <1>3
  <2>2. QED BY <2>1 DEF MakeClient
<1> HIDE DEF new, made, config, k
<1>8. /\ consulfs'[f] = made
      /\ \A g \in ConsulFilesystems : g # f => consulfs'[g] = consulfs[g]
      /\ Made' = Made
  BY <1>2, <1>6, <1>7 DEF ConsulTypes, Made
<1>9. ConsulTypes'
  BY <1>1, <1>5, <1>6, <1>7 DEF ConsulTypes
<1>10. ASSUME NEW g \in Made
       PROVE  /\ consulfs'[g].host = consulfs[g].host
              /\ consulfs'[g].token = consulfs[g].token
              /\ consulfs'[g].header = consulfs[g].header
              /\ consulfs'[g].config = consulfs[g].config
              /\ consulfs'[g].client = IF g = f THEN k ELSE consulfs[g].client
  BY <1>6, <1>8, MadeFacts
<1>11. ASSUME NEW g \in Made, NEW j, ServedBy(consulfs[g], j)
       PROVE  j \in DOMAIN clients' /\ Serves(consulfs'[g], clients'[j])
  BY <1>5, <1>10, <1>11 DEF ServedBy, Serves, Written
<1>12. ClientsInv'
  <2> SUFFICES ASSUME NEW g \in Made', consulfs'[g].client # None
               PROVE  /\ consulfs'[g].client \in DOMAIN clients'
                      /\ Serves(consulfs'[g], clients'[consulfs'[g].client])
    BY DEF ClientsInv, ServedBy
  <2>1. CASE g = f
    <3>1. Serves(made, new)
      BY <1>4, <1>6 DEF Serves, Written
    <3>2. QED BY <1>5, <1>6, <1>8, <2>1, <3>1
  <2>2. CASE g # f
    BY <1>8, <1>10, <1>11, <2>2 DEF ClientsInv
  <2>3. QED BY <2>1, <2>2
<1>13. FilesInv'
  <2> SUFFICES ASSUME NEW q \in Openers, file[q] # None
               PROVE  /\ file[q].fs \in Made' /\ file[q].client \in DOMAIN clients'
                      /\ Serves(consulfs'[file[q].fs], clients'[file[q].client])
    BY <1>1 DEF FilesInv, ServedBy
  <2>1. QED BY <1>8, <1>11 DEF FilesInv
<1>14. OpeningInv'
  <2>1. ASSUME NEW q \in Openers, opening'[q] # "idle"
        PROVE  /\ opening[q] # "idle" /\ cur[q] \in Made
               /\ opening'[q] = "open" => consulfs'[cur[q]].client # None
               /\ opening'[q] = "create" => opening[q] = "create"
    <3>1. opening[q] # "idle" /\ cur[q] \in Made
      BY <1>1, <2>1 DEF ConsulTypes, OpeningInv
    <3>2. opening'[q] = "create" => opening[q] = "create"
      BY <1>1 DEF ConsulTypes
    <3>3. opening'[q] = "open" => consulfs'[cur[q]].client # None
      BY <1>1, <1>5, <1>10, <3>1 DEF ConsulTypes, OpeningInv
    <3>4. QED BY <3>1, <3>2, <3>3
  <2>2. QED BY <1>1, <1>8, <1>10, <2>1 DEF OpeningInv, Written
<1>15. QED BY <1>9, <1>12, <1>13, <1>14

\* The file gets the filesystem's client.
LEMMA FileKeeps ==
    ASSUME ConsulInv, NEW p \in Openers, OpenFile(p)
    PROVE  ConsulInv'
<1> USE DEF ConsulInv
<1> DEFINE new == [fs |-> cur[p], client |-> consulfs[cur[p]].client]
<1>1. /\ opening[p] = "open" /\ opening' = [opening EXCEPT ![p] = "idle"]
      /\ file' = [file EXCEPT ![p] = new]
      /\ UNCHANGED <<consulfs, configs, clients, cur, scratch>>
  BY DEF OpenFile, Goto
<1>2. /\ cur[p] \in Made /\ Made' = Made /\ consulfs[cur[p]].client # None
      /\ ServedBy(consulfs[cur[p]], consulfs[cur[p]].client)
  BY <1>1 DEF OpeningInv, ClientsInv, Made
<1>3. new \in ConsulFile /\ new # None
  BY <1>2, MadeFacts, ConsulAssumption DEF ConsulFile
<1>4. new.fs = cur[p] /\ new.client = consulfs[cur[p]].client
  OBVIOUS
<1> HIDE DEF new
<1>5. ConsulTypes'
  BY <1>1, <1>3 DEF ConsulTypes
<1>6. ClientsInv'
  BY <1>1, <1>2 DEF ClientsInv, ServedBy
<1>7. FilesInv'
  <2>1. \A q \in Openers : file'[q] = IF q = p THEN new ELSE file[q]
    BY <1>1 DEF ConsulTypes
  <2>2. ASSUME NEW q \in Openers, file'[q] # None
        PROVE  file'[q].fs \in Made /\ ServedBy(consulfs[file'[q].fs], file'[q].client)
    BY <1>2, <1>4, <2>1, <2>2 DEF FilesInv
  <2>3. QED BY <1>1, <1>2, <2>2 DEF FilesInv, ServedBy
<1>8. OpeningInv'
  <2>1. \A q \in Openers : opening'[q] # "idle" => opening'[q] = opening[q]
    BY <1>1 DEF ConsulTypes
  <2>2. QED BY <1>1, <1>2, <2>1 DEF OpeningInv, Written
<1>9. QED BY <1>5, <1>6, <1>7, <1>8

LEMMA NextConsulInv == ConsulInv /\ [NextConsul]_consulVars => ConsulInv'
<1> SUFFICES ASSUME ConsulInv, [NextConsul]_consulVars PROVE ConsulInv'
  OBVIOUS
<1>1. CASE UNCHANGED consulVars
  <2> USE <1>1 DEF consulVars, ConsulInv, ServedBy, Made
  <2>1. ConsulTypes' /\ ClientsInv' /\ FilesInv'
    BY DEF ConsulTypes, ClientsInv, FilesInv
  <2>2. OpeningInv'
    BY DEF OpeningInv, Written
  <2>3. QED BY <2>1, <2>2
<1>2. QED
  BY <1>1, DerivationKeeps, OpenKeeps, WriteKeeps, MakeKeeps, FileKeeps DEF NextConsul

\* The requests of a file of consulfs go to the host of its filesystem, with its
\* token and its header, for any goroutines, filesystems, configurations and values
\* and any order of deriving and opening them.
THEOREM RequestsAreAsConfigured == SpecConsul => []RequestsAsConfigured
<1>1. InitConsul => ConsulInv
  <2> SUFFICES ASSUME InitConsul PROVE ConsulInv
    OBVIOUS
  <2> USE DEF InitConsul
  <2>1. ConsulTypes
    BY DEF ConsulTypes, Settings
  <2>2. Made = {}
    BY DEF Made
  <2>3. QED BY <2>1, <2>2 DEF ConsulInv, ClientsInv, FilesInv, OpeningInv
<1>2. ConsulInv => RequestsAsConfigured
  BY DEF ConsulInv, FilesInv, ServedBy, Serves, Written, RequestsAsConfigured
<1>3. QED BY <1>1, <1>2, NextConsulInv, PTL DEF SpecConsul

-----------------------------------------------------------------------------
(* The clients of the cloud services *)

Https   == HTTPClients \cup {Unset}
Regions == Metadata \cup {"aws+imds", "environment", Unset}
Sources == Metadata \cup {"aws+imds"}
Clients == [by : {Unset, "caller", "code"}, http : Https, region : Regions]

Givens  == [client : Clients, http : Https, metadata : Sources, late : BOOLEAN]
Systems == [client : Clients, http : Https, metadata : Sources, given : Givens]
Calls   == [at : {"idle", "make", "create", "return"}, fs : Nat, region : Regions,
            client : Clients]

LazyTypes ==
    /\ service \in Services /\ envRegion \in BOOLEAN
    /\ fsys \in Seq(Systems)
    /\ call \in [Goroutines -> Calls]
    /\ \A p \in Goroutines :
          (call[p].at # "idle" \/ call[p].client # NoClient) =>
              call[p].fs \in DOMAIN fsys

\* The region that a client of a filesystem is made with.
RegionOf(g) ==
    IF service \notin Regional THEN Unset
    ELSE IF envRegion THEN "environment" ELSE g.metadata

\* A client is what a filesystem was given, or made of it.
Fits(g, client) ==
    IF g.client = Callers THEN client = Callers
    ELSE /\ client.by = "code"
         /\ IF service \in OwnTransport THEN client.http = Unset
            ELSE g.late \/ client.http = g.http
         /\ service \in Regional /\ ~g.late => client.region = RegionOf(g)

\* A filesystem has what it was given, until it has a client: then it may have
\* been given more, too late, but the client is of what it was given before.
Kept(s) ==
    /\ s.http = s.given.http /\ s.metadata = s.given.metadata
    /\ s.given.client \in {NoClient, Callers}
    /\ s.client = NoClient => s.given.client = NoClient /\ ~s.given.late
    /\ s.client # NoClient => Fits(s.given, s.client)

SystemsInv == \A f \in DOMAIN fsys : Kept(fsys[f])

\* A goroutine makes a client only for a filesystem that was given none, and
\* was given nothing late.
CallInv ==
    \A p \in Goroutines :
        LET c == call[p] IN
        /\ c.at \in {"make", "create"} =>
              fsys[c.fs].given.client = NoClient /\ ~fsys[c.fs].given.late
        /\ c.at = "create" => c.region = RegionOf(fsys[c.fs].given)
        /\ c.at = "return" => fsys[c.fs].client # NoClient
        /\ c.client # NoClient => Fits(fsys[c.fs].given, c.client)

LazyInv == LazyTypes /\ SystemsInv /\ CallInv

-----------------------------------------------------------------------------
\* No client, and a caller's, are not taken for one that the code has made.
LEMMA ClientFacts ==
    /\ NoClient \in Clients /\ Callers \in Clients /\ NoClient # Callers
    /\ NoClient.by = Unset /\ Callers.by = "caller"
  BY DEF NoClient, Callers, Clients, Https, Regions, Unset

\* At first there is one filesystem, without a client.
LEMMA InitLazyInv == InitLazy => LazyInv
<1> SUFFICES ASSUME InitLazy PROVE LazyInv
  OBVIOUS
<1> DEFINE first == [client |-> NoClient, http |-> Unset, metadata |-> "aws+imds",
                     given |-> [client |-> NoClient, http |-> Unset,
                                metadata |-> "aws+imds", late |-> FALSE]]
<1>1. first \in Systems
  BY ClientFacts DEF Systems, Givens, Https, Sources
<1>2. fsys = <<first>> /\ call = [p \in Goroutines |-> NoCall]
  BY DEF InitLazy
<1>3. Kept(first)
  BY DEF Kept
<1> HIDE DEF first
<1>4. fsys \in Seq(Systems) /\ \A f \in DOMAIN fsys : fsys[f] = first
  BY <1>1, <1>2
<1>5. NoCall \in Calls /\ NoCall.at = "idle" /\ NoCall.client = NoClient
  BY ClientFacts DEF NoCall, Calls, Regions
<1>6. \A p \in Goroutines : call[p] = NoCall
  BY <1>2
<1>7. LazyTypes
  BY <1>2, <1>4, <1>5, <1>6 DEF LazyTypes, InitLazy
<1>8. SystemsInv
  BY <1>3, <1>4 DEF SystemsInv
<1>9. CallInv
  BY <1>5, <1>6 DEF CallInv
<1> QED  BY <1>7, <1>8, <1>9 DEF LazyInv

\* What is derived is a filesystem of its own: the others stay as they are, and
\* with them what calls are about.
LEMMA DeriveKeeps ==
    ASSUME LazyInv, NEW f, NEW copy, DeriveFrom(f, copy), copy \in Systems, Kept(copy)
    PROVE  LazyInv'
<1>1. /\ fsys' = Append(fsys, copy) /\ fsys \in Seq(Systems)
      /\ UNCHANGED <<service, envRegion, call>>
  BY DEF DeriveFrom, Derived, LazyInv, LazyTypes
<1>2. /\ fsys' \in Seq(Systems)
      /\ DOMAIN fsys \subseteq DOMAIN fsys'
      /\ \A g \in DOMAIN fsys : fsys'[g] = fsys[g]
      /\ \A g \in DOMAIN fsys' : g \in DOMAIN fsys \/ fsys'[g] = copy
  BY <1>1
<1>3. LazyTypes'
  BY <1>1, <1>2 DEF LazyInv, LazyTypes
<1>4. \A g \in DOMAIN fsys' : Kept(fsys'[g])
  BY <1>2 DEF LazyInv, SystemsInv
<1>5. SystemsInv'
  BY <1>1, <1>4 DEF SystemsInv, Kept, Fits, RegionOf
<1>6. CallInv'
  <2> DEFINE Right(c, s) ==
               /\ c.at \in {"make", "create"} =>
                     s.given.client = NoClient /\ ~s.given.late
               /\ c.at = "create" => c.region = RegionOf(s.given)
               /\ c.at = "return" => s.client # NoClient
               /\ c.client # NoClient => Fits(s.given, c.client)
  <2>1. \A p \in Goroutines : Right(call[p], fsys[call[p].fs])
    BY DEF LazyInv, CallInv
  <2>2. ASSUME NEW p \in Goroutines
        PROVE  Right(call[p], fsys'[call[p].fs])
    <3>1. CASE call[p].at # "idle" \/ call[p].client # NoClient
      <4>1. fsys'[call[p].fs] = fsys[call[p].fs]
        BY <1>2, <3>1 DEF LazyInv, LazyTypes
      <4> HIDE DEF Right
      <4> QED  BY <2>1, <4>1
    <3>2. CASE call[p].at = "idle" /\ call[p].client = NoClient
      BY <3>2
    <3> QED  BY <3>1, <3>2
  <2> QED  BY <1>1, <2>2 DEF CallInv, Fits, RegionOf
<1> QED  BY <1>3, <1>5, <1>6 DEF LazyInv

\* What WithContext, WithHTTPClient, WithClient and WithIMDSFS derive is kept, if
\* what they derive it from is.
LEMMA DerivationsKeep ==
    ASSUME LazyInv, NEW f \in DOMAIN fsys,
           \/ WithContext(f) \/ WithClient(f)
           \/ \E http \in HTTPClients : WithHTTPClient(f, http)
           \/ \E metadata \in Metadata : WithIMDSFS(f, metadata)
    PROVE  LazyInv'
<1>1. fsys[f] \in Systems /\ Kept(fsys[f])
  BY DEF LazyInv, LazyTypes, SystemsInv
<1>2. CASE WithContext(f)
  BY <1>1, <1>2, DeriveKeeps DEF WithContext
<1>3. CASE WithClient(f)
  <2> DEFINE copy == [fsys[f] EXCEPT !.client = Callers, !.given.client = Callers]
  <2>1. copy \in Systems
    BY <1>1, ClientFacts DEF Systems, Givens
  <2>2. /\ copy.client = Callers /\ copy.given.client = Callers
        /\ copy.http = fsys[f].http /\ copy.given.http = fsys[f].given.http
        /\ copy.metadata = fsys[f].metadata
        /\ copy.given.metadata = fsys[f].given.metadata
    BY <1>1 DEF Systems, Givens
  <2>3. DeriveFrom(f, copy)
    BY <1>3 DEF WithClient
  <2> HIDE DEF copy
  <2>4. Kept(copy)
    BY <1>1, <2>2, ClientFacts DEF Kept, Fits
  <2> QED  BY <2>1, <2>3, <2>4, DeriveKeeps
<1>4. ASSUME NEW http \in HTTPClients, WithHTTPClient(f, http) PROVE LazyInv'
  <2> DEFINE copy == [fsys[f] EXCEPT !.http = http, !.given.http = http,
                                     !.given.late = @ \/ fsys[f].client # NoClient]
  <2>1. copy \in Systems
    BY <1>1 DEF Systems, Givens, Https
  <2>2. /\ copy.client = fsys[f].client /\ copy.given.client = fsys[f].given.client
        /\ copy.http = http /\ copy.given.http = http
        /\ copy.metadata = fsys[f].metadata
        /\ copy.given.metadata = fsys[f].given.metadata
        /\ copy.given.late = (fsys[f].given.late \/ fsys[f].client # NoClient)
    BY <1>1 DEF Systems, Givens
  <2>3. DeriveFrom(f, copy)
    BY <1>4 DEF WithHTTPClient
  <2> HIDE DEF copy
  <2>4. Kept(copy)
    BY <1>1, <2>2 DEF Kept, Fits
  <2> QED  BY <2>1, <2>3, <2>4, DeriveKeeps
<1>5. ASSUME NEW metadata \in Metadata, WithIMDSFS(f, metadata) PROVE LazyInv'
  <2> DEFINE copy == [fsys[f] EXCEPT !.metadata = metadata, !.given.metadata = metadata,
                                     !.given.late = @ \/ fsys[f].client # NoClient]
  <2>1. copy \in Systems
    BY <1>1 DEF Systems, Givens, Sources
  <2>2. /\ copy.client = fsys[f].client /\ copy.given.client = fsys[f].given.client
        /\ copy.http = fsys[f].http /\ copy.given.http = fsys[f].given.http
        /\ copy.metadata = metadata /\ copy.given.metadata = metadata
        /\ copy.given.late = (fsys[f].given.late \/ fsys[f].client # NoClient)
    BY <1>1 DEF Systems, Givens
  <2>3. DeriveFrom(f, copy)
    BY <1>5 DEF WithIMDSFS
  <2> HIDE DEF copy
  <2>4. Kept(copy)
    BY <1>1, <2>2 DEF Kept, Fits
  <2> QED  BY <2>1, <2>3, <2>4, DeriveKeeps
<1> QED  BY <1>2, <1>3, <1>4, <1>5

-----------------------------------------------------------------------------
(* getClient *)

\* What holds of one call.
CallOK(c) ==
    /\ c \in Calls
    /\ c.at # "idle" \/ c.client # NoClient => c.fs \in DOMAIN fsys
    /\ c.at \in {"make", "create"} =>
          fsys[c.fs].given.client = NoClient /\ ~fsys[c.fs].given.late
    /\ c.at = "create" => c.region = RegionOf(fsys[c.fs].given)
    /\ c.at = "return" => fsys[c.fs].client # NoClient
    /\ c.client # NoClient => Fits(fsys[c.fs].given, c.client)

\* It holds of every call.
LEMMA CallsOK ==
    ASSUME LazyInv, NEW p \in Goroutines
    PROVE  CallOK(call[p])
  BY DEF LazyInv, LazyTypes, CallInv, CallOK

\* A step that changes one call only.
LEMMA OneCall ==
    ASSUME LazyInv, NEW p \in Goroutines, NEW c, CallOK(c),
           call' = [call EXCEPT ![p] = c], UNCHANGED <<service, envRegion, fsys>>
    PROVE  LazyInv'
<1>1. \A q \in Goroutines : CallOK(call'[q])
  BY CallsOK DEF LazyInv, LazyTypes
<1>2. call' \in [Goroutines -> Calls]
  BY DEF LazyInv, LazyTypes, CallOK
<1>3. LazyTypes'
  BY <1>1, <1>2 DEF LazyInv, LazyTypes, CallOK
<1>4. SystemsInv'
  BY DEF LazyInv, SystemsInv, Kept, Fits, RegionOf
<1>5. CallInv'
  BY <1>1 DEF CallInv, CallOK, Fits, RegionOf
<1> QED  BY <1>3, <1>4, <1>5 DEF LazyInv

\* Of a goroutine that has called nothing, too.
LEMMA IdleOK == CallOK(NoCall)
  BY ClientFacts DEF CallOK, NoCall, Calls, Regions

\* The client is checked.
LEMMA GetClientKeeps ==
    ASSUME LazyInv, NEW p \in Goroutines, NEW f \in DOMAIN fsys, GetClient(p, f)
    PROVE  LazyInv'
<1> DEFINE c == [NoCall EXCEPT !.at = IF fsys[f].client # NoClient THEN "return" ELSE "make",
                             !.fs = f]
<1>1. /\ c.at = (IF fsys[f].client # NoClient THEN "return" ELSE "make")
      /\ c.fs = f /\ c.client = NoClient /\ c.region = Unset
  BY DEF NoCall
<1>2. f \in Nat
  BY DEF LazyInv, LazyTypes
<1>3. c \in Calls
  BY <1>2, ClientFacts DEF NoCall, Calls, Regions
<1>4. Kept(fsys[f])
  BY DEF LazyInv, SystemsInv
<1>5. call' = [call EXCEPT ![p] = c] /\ UNCHANGED <<service, envRegion, fsys>>
  BY DEF GetClient
<1> HIDE DEF c
<1>6. CallOK(c)
  BY <1>1, <1>3, <1>4 DEF CallOK, Kept
<1> QED  BY <1>5, <1>6, OneCall

\* The region of the filesystem's own environment or metadata.
LEMMA ConfigureKeeps ==
    ASSUME LazyInv, NEW p \in Goroutines, Configure(p)
    PROVE  LazyInv'
<1> DEFINE f == call[p].fs
           region == IF service \notin Regional THEN Unset
                     ELSE IF envRegion THEN "environment" ELSE fsys[f].metadata
           c == [call[p] EXCEPT !.at = "create", !.region = region]
<1>1. CallOK(call[p]) /\ call[p].at = "make" /\ call[p] \in Calls
  BY CallsOK DEF Configure, CallOK
<1>2. f \in DOMAIN fsys /\ fsys[f] \in Systems /\ Kept(fsys[f])
  BY <1>1 DEF CallOK, LazyInv, LazyTypes, SystemsInv
<1>3. region = RegionOf(fsys[f].given)
  BY <1>2 DEF Kept, RegionOf
<1>4. region \in Regions
  BY <1>2 DEF Systems, Sources, Regions
<1> HIDE DEF region
<1>5. /\ c \in Calls /\ c.at = "create" /\ c.region = region
      /\ c.fs = f /\ c.client = call[p].client
  BY <1>1, <1>4 DEF Calls
<1>6. call' = [call EXCEPT ![p] = c] /\ UNCHANGED <<service, envRegion, fsys>>
  BY DEF Configure, LazyInv, LazyTypes, region
<1> HIDE DEF c
<1>7. CallOK(c)
  BY <1>1, <1>2, <1>3, <1>5 DEF CallOK
<1> QED  BY <1>6, <1>7, OneCall

\* A call that fails leaves nothing.
LEMMA ConfigureFailsKeeps ==
    ASSUME LazyInv, NEW p \in Goroutines, ConfigureFails(p)
    PROVE  LazyInv'
  BY OneCall, IdleOK DEF ConfigureFails

\* The filesystem gets a client of what it was given; another call that has begun
\* to make one will make the same.
LEMMA CreateKeeps ==
    ASSUME LazyInv, NEW p \in Goroutines, Create(p)
    PROVE  LazyInv'
<1> DEFINE f == call[p].fs
           made == [by |-> "code", http |-> Transport(f), region |-> call[p].region]
           c == [call[p] EXCEPT !.at = "return"]
<1>1. CallOK(call[p]) /\ call[p].at = "create" /\ call[p] \in Calls
  BY CallsOK DEF Create, CallOK
<1>2. f \in DOMAIN fsys /\ fsys[f] \in Systems /\ Kept(fsys[f]) /\ fsys \in Seq(Systems)
  BY <1>1 DEF CallOK, LazyInv, LazyTypes, SystemsInv
<1>3. made \in Clients /\ made # NoClient
  BY <1>1, <1>2 DEF Clients, Systems, Calls, NoClient, Unset, Transport, Https
<1>4. Fits(fsys[f].given, made)
  BY <1>1, <1>2, ClientFacts DEF CallOK, Fits, Kept, Transport
<1>5. /\ fsys' = [fsys EXCEPT ![f].client = made]
      /\ call' = [call EXCEPT ![p] = c]
      /\ UNCHANGED <<service, envRegion>>
  BY DEF Create, LazyInv, LazyTypes
<1>6. /\ c \in Calls /\ c.at = "return" /\ c.fs = f /\ c.client = call[p].client
  BY <1>1 DEF Calls
<1> HIDE DEF made, c
<1>7. /\ fsys' \in Seq(Systems) /\ DOMAIN fsys' = DOMAIN fsys
      /\ \A g \in DOMAIN fsys \ {f} : fsys'[g] = fsys[g]
      /\ fsys'[f] = [fsys[f] EXCEPT !.client = made]
  <2>1. [fsys[f] EXCEPT !.client = made] \in Systems
    BY <1>2, <1>3 DEF Systems
  <2> QED  BY <1>2, <1>5, <2>1
<1>8. /\ fsys'[f].client = made /\ fsys'[f].given = fsys[f].given
      /\ fsys'[f].http = fsys[f].http /\ fsys'[f].metadata = fsys[f].metadata
  BY <1>2, <1>7 DEF Systems
<1>9. \A g \in DOMAIN fsys : fsys'[g].given = fsys[g].given
  BY <1>7, <1>8
<1>10. SystemsInv'
  <2>1. Kept(fsys'[f])
    BY <1>2, <1>3, <1>4, <1>8 DEF Kept
  <2>2. \A g \in DOMAIN fsys' : Kept(fsys'[g])
    BY <1>7, <2>1 DEF LazyInv, SystemsInv
  <2> QED  BY <1>5, <2>2 DEF SystemsInv, Kept, Fits, RegionOf
<1>11. \A q \in Goroutines : call'[q] = IF q = p THEN c ELSE call[q]
  BY <1>5 DEF LazyInv, LazyTypes
<1>12. call' \in [Goroutines -> Calls]
  BY <1>5, <1>6 DEF LazyInv, LazyTypes
<1>13. LazyTypes'
  <2>1. \A q \in Goroutines : (call'[q].at # "idle" \/ call'[q].client # NoClient) =>
                             call'[q].fs \in DOMAIN fsys'
    BY <1>2, <1>6, <1>7, <1>11 DEF LazyInv, LazyTypes
  <2> QED  BY <1>5, <1>7, <1>12, <2>1 DEF LazyInv, LazyTypes
<1>14. CallInv'
  <2> SUFFICES ASSUME NEW q \in Goroutines
               PROVE  LET d == call'[q] IN
                      /\ d.at \in {"make", "create"} =>
                            fsys'[d.fs].given.client = NoClient /\ ~fsys'[d.fs].given.late
                      /\ d.at = "create" => d.region = RegionOf(fsys'[d.fs].given)
                      /\ d.at = "return" => fsys'[d.fs].client # NoClient
                      /\ d.client # NoClient => Fits(fsys'[d.fs].given, d.client)
    BY <1>5 DEF CallInv, Fits, RegionOf
  <2>1. CASE q = p
    <3>1. call'[q] = c
      BY <1>11, <2>1
    <3>2. c.client # NoClient => Fits(fsys[f].given, c.client)
      BY <1>1, <1>6 DEF CallOK
    <3> QED  BY <1>3, <1>6, <1>8, <3>1, <3>2
  <2>2. CASE q # p
    <3>1. call'[q] = call[q] /\ CallOK(call[q])
      BY <1>11, <2>2, CallsOK
    <3>2. CASE call[q].at = "idle" /\ call[q].client = NoClient
      BY <3>1, <3>2
    <3>3. CASE call[q].at # "idle" \/ call[q].client # NoClient
      <4>1. call[q].fs \in DOMAIN fsys
        BY <3>1, <3>3 DEF CallOK
      <4>2. fsys'[call[q].fs].given = fsys[call[q].fs].given
        BY <1>9, <4>1
      <4>3. fsys[call[q].fs].client # NoClient => fsys'[call[q].fs].client # NoClient
        BY <1>3, <1>7, <1>8, <4>1
      <4> QED  BY <3>1, <4>2, <4>3 DEF CallOK
    <3> QED  BY <3>2, <3>3
  <2> QED  BY <2>1, <2>2
<1> QED  BY <1>10, <1>13, <1>14 DEF LazyInv

\* What is returned is the filesystem's client.
LEMMA ReturnKeeps ==
    ASSUME LazyInv, NEW p \in Goroutines, Return(p)
    PROVE  LazyInv'
<1> DEFINE f == call[p].fs
           c == [call[p] EXCEPT !.at = "idle", !.client = fsys[f].client]
<1>1. CallOK(call[p]) /\ call[p].at = "return" /\ call[p] \in Calls
  BY CallsOK DEF Return, CallOK
<1>2. f \in DOMAIN fsys /\ fsys[f] \in Systems /\ Kept(fsys[f])
  BY <1>1 DEF CallOK, LazyInv, LazyTypes, SystemsInv
<1>3. c \in Calls /\ c.at = "idle" /\ c.fs = f /\ c.client = fsys[f].client
  BY <1>1, <1>2 DEF Calls, Systems
<1>4. call' = [call EXCEPT ![p] = c] /\ UNCHANGED <<service, envRegion, fsys>>
  BY DEF Return, LazyInv, LazyTypes
<1> HIDE DEF c
<1>5. CallOK(c)
  BY <1>1, <1>2, <1>3 DEF CallOK, Kept
<1> QED  BY <1>4, <1>5, OneCall

-----------------------------------------------------------------------------
\* Every step keeps the invariant.
LEMMA NextLazyInv == LazyInv /\ [NextLazy]_lazyVars => LazyInv'
<1> SUFFICES ASSUME LazyInv, [NextLazy]_lazyVars PROVE LazyInv'
  OBVIOUS
<1>1. CASE UNCHANGED lazyVars
  <2>1. UNCHANGED <<service, envRegion, fsys, call>>
    BY <1>1 DEF lazyVars
  <2>2. LazyTypes'
    BY <2>1 DEF LazyInv, LazyTypes
  <2>3. SystemsInv'
    BY <2>1 DEF LazyInv, SystemsInv, Kept, Fits, RegionOf
  <2>4. CallInv'
    BY <2>1 DEF LazyInv, CallInv, Fits, RegionOf
  <2> QED  BY <2>2, <2>3, <2>4 DEF LazyInv
<1>2. ASSUME NEW f \in DOMAIN fsys,
             \/ WithContext(f) \/ WithClient(f)
             \/ \E http \in HTTPClients : WithHTTPClient(f, http)
             \/ \E metadata \in Metadata : WithIMDSFS(f, metadata)
      PROVE  LazyInv'
  BY <1>2, DerivationsKeep
<1>3. ASSUME NEW f \in DOMAIN fsys, NEW p \in Goroutines, GetClient(p, f) PROVE LazyInv'
  BY <1>3, GetClientKeeps
<1>4. ASSUME NEW p \in Goroutines, Configure(p) \/ ConfigureFails(p) PROVE LazyInv'
  BY <1>4, ConfigureKeeps, ConfigureFailsKeeps
<1>5. ASSUME NEW p \in Goroutines, Create(p) \/ Return(p) PROVE LazyInv'
  BY <1>5, CreateKeeps, ReturnKeeps
<1> QED  BY <1>1, <1>2, <1>3, <1>4, <1>5 DEF NextLazy

\* In whatever order filesystems are derived and used, by any goroutines, a call
\* of getClient returns the client that its filesystem was given or one made of
\* what it was given (gcpsm.go:266, awssm.go:151).
THEOREM ClientIsAsGiven == SpecLazy => []ClientAsGiven
<1>1. LazyInv => ClientAsGiven
  BY DEF LazyInv, CallInv, Fits, RegionOf, OwnTransport, ClientAsGiven
<1> QED  BY InitLazyInv, NextLazyInv, <1>1, PTL DEF SpecLazy
=============================================================================
