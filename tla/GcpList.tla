------------------------------- MODULE GcpList -------------------------------
(***************************************************************************)
(* gcpsmfs: the listing behind the first ReadDir of a project.  The names  *)
(* are drained from the iterator, then each secret gets a goroutine of an  *)
(* errgroup that lets Limit of them run at once; the goroutine makes two   *)
(* requests in an errgroup of its own.  An error ends its group's context, *)
(* and with it every request the group still has under way.                *)
(***************************************************************************)
EXTENDS Integers, Sequences, FiniteSets, NameOrder

CONSTANTS
    Secrets,  \* the names of the project's secrets; numbers, for their order
    Limit     \* maxConcurrency, or 1

ASSUME ListAssumption ==
    /\ Secrets \subseteq Nat /\ IsFiniteSet(Secrets)
    /\ Limit \in Nat \ {0}

Parts == {"content", "modTime"}

\* What a request may end with: an answer, an answer that convertGCPError maps
\* to fs.ErrNotExist, any other error, the end of its context.
Answers  == {"ok", "gone", "error"}
Outcomes == Answers \cup {"canceled"}
Errors   == Outcomes \ {"ok"}

VARIABLES
    pc,        \* "idle", "drain" or "fetch": the listing's own goroutine
    names,     \* secretNames
    spawned,   \* how many of them have been given a goroutine
    rpc,       \* the requests of each secret's goroutine
    inner,     \* the error of each secret's inner group
    ended,     \* the secrets whose goroutine has returned
    outer,     \* the error of the outer group
    entries,   \* entries
    children,  \* f.children
    reply      \* what the last ReadDir said

groupVars == <<rpc, inner, ended, outer, entries>>
vars == <<pc, names, spawned, groupVars, children, reply>>

NoRequests == [s \in Secrets |-> [part \in Parts |-> "none"]]

Names == {names[i] : i \in 1..Len(names)}

\* The secrets whose goroutine runs.
Active == {names[i] : i \in 1..spawned} \ ended

TypeOK ==
    /\ pc \in {"idle", "drain", "fetch"}
    /\ names \in Seq(Secrets)
    /\ spawned \in 0..Len(names)
    /\ rpc \in [Secrets -> [Parts -> {"none", "running"} \cup Outcomes]]
    /\ inner \in [Secrets -> {"none"} \cup Errors]
    /\ ended \subseteq Secrets
    /\ outer \in {"none"} \cup Errors
    /\ entries \in Seq(Secrets) /\ children \in Seq(Secrets)
    /\ reply \in {"none"} \cup Outcomes

Init ==
    /\ pc = "idle" /\ names = <<>> /\ spawned = 0
    /\ rpc = NoRequests /\ inner = [s \in Secrets |-> "none"]
    /\ ended = {} /\ outer = "none" /\ entries = <<>>
    /\ children = <<>> /\ reply = "none"

-----------------------------------------------------------------------------
\* ReadDir lists while there are no children: the first time, after an error,
\* and for an empty project every time.
ReadDir ==
    /\ pc = "idle" /\ children = <<>>
    /\ pc' = "drain"
    /\ names' = <<>> /\ spawned' = 0
    /\ rpc' = NoRequests /\ inner' = [s \in Secrets |-> "none"]
    /\ ended' = {} /\ outer' = "none" /\ entries' = <<>>
    /\ UNCHANGED <<children, reply>>

\* A handle that has children does not list again; DirCursor has its pages.
ReadCached ==
    /\ pc = "idle" /\ children # <<>>
    /\ reply' = "ok"
    /\ UNCHANGED <<pc, names, spawned, groupVars, children>>

\* it.Next(), serially
NextSecret(s) ==
    /\ pc = "drain" /\ s \notin Names
    /\ names' = Append(names, s)
    /\ UNCHANGED <<pc, spawned, groupVars, children, reply>>

IteratorFails(err) ==
    /\ pc = "drain"
    /\ pc' = "idle"
    /\ reply' = err
    /\ UNCHANGED <<names, spawned, groupVars, children>>

IteratorDone ==
    /\ pc = "drain"
    /\ pc' = "fetch"
    /\ UNCHANGED <<names, spawned, groupVars, children, reply>>

\* Mutant of SlotFree: the limit counts the goroutines that wait behind it.
OneSlotMore == Cardinality(Active) <= Limit

\* SetLimit: g.Go blocks while Limit goroutines run, whatever the context says.
SlotFree == Cardinality(Active) < Limit

\* g.Go: the goroutine starts both its requests.
Spawn ==
    /\ pc = "fetch" /\ spawned < Len(names) /\ SlotFree
    /\ spawned' = spawned + 1
    /\ rpc' = [rpc EXCEPT ![names[spawned + 1]] = [part \in Parts |-> "running"]]
    /\ UNCHANGED <<pc, names, inner, ended, outer, entries, children, reply>>

\* Mutant of FirstError: the group reports its last error.
LastError(old, new) == IF new = "ok" THEN old ELSE new

\* errgroup keeps its first error.
FirstError(old, new) ==
    IF old # "none" THEN old ELSE IF new = "ok" THEN "none" ELSE new

\* The group a request belongs to has ended its context.
ContextDone(s) == inner[s] # "none" \/ outer # "none"

\* A request of s ends: with an answer from the server or, loadContent and
\* ensureModTime finding what they want, from the cache; or with its context.
Request(s, part, outcome) ==
    /\ rpc[s][part] = "running"
    /\ outcome = "canceled" => ContextDone(s)
    /\ rpc' = [rpc EXCEPT ![s][part] = outcome]
    /\ inner' = [inner EXCEPT ![s] = FirstError(@, outcome)]
    /\ UNCHANGED <<pc, names, spawned, ended, outer, entries, children, reply>>

\* Mutant of SecretGone: whatever went wrong, the secret is left out.
SecretGoneOnAnyError(err) == err # "none"

\* A secret that does not exist, any more or in an enabled version.
SecretGone(err) == err = "gone"

\* inner.Wait(), and what the goroutine makes of it: an entry, nothing, or the
\* error of the listing.
Return(s) ==
    /\ s \in Active
    /\ \A part \in Parts : rpc[s][part] \in Outcomes
    /\ ended' = ended \cup {s}
    /\ IF inner[s] = "none"
       THEN entries' = Append(entries, s) /\ UNCHANGED outer
       ELSE /\ UNCHANGED entries
            /\ outer' = IF SecretGone(inner[s]) THEN outer
                        ELSE FirstError(outer, inner[s])
    /\ UNCHANGED <<pc, names, spawned, rpc, inner, children, reply>>

\* Mutant of Publish: what was listed is kept in spite of an error.
PublishPartial ==
    /\ children' = SortByName(entries)
    /\ reply' = IF outer = "none" THEN "ok" ELSE outer

\* The end of list: children, or an error and none.
Publish ==
    IF outer = "none"
    THEN children' = SortByName(entries) /\ reply' = "ok"
    ELSE reply' = outer /\ UNCHANGED children

\* Mutant of Wait: a listing that failed is tried again.
WaitAndRetry ==
    /\ pc = "fetch" /\ spawned = Len(names) /\ Active = {}
    /\ pc' = IF outer = "none" THEN "idle" ELSE "drain"
    /\ Publish
    /\ names' = <<>> /\ spawned' = 0
    /\ rpc' = NoRequests /\ inner' = [s \in Secrets |-> "none"]
    /\ ended' = {} /\ outer' = "none" /\ entries' = <<>>

\* g.Wait()
Wait ==
    /\ pc = "fetch" /\ spawned = Len(names) /\ Active = {}
    /\ pc' = "idle"
    /\ Publish
    /\ UNCHANGED <<names, spawned, groupVars>>

\* What the listing does once it is called.
Progress ==
    \/ \E err \in Answers \ {"ok"} : IteratorFails(err)
    \/ IteratorDone \/ Spawn \/ Wait
    \/ \E s \in Secrets : \/ NextSecret(s) \/ Return(s)
                          \/ \E part \in Parts, outcome \in Outcomes :
                                Request(s, part, outcome)

Next == ReadDir \/ ReadCached \/ Progress

\* Goroutines run, and every request is answered or ends with its context.
Fairness == WF_vars(Progress)

Spec == Init /\ [][Next]_vars /\ Fairness

-----------------------------------------------------------------------------
(* Properties *)

\* A listing without an error has every secret of the project that exists, each
\* of them once and in order: none that the concurrent goroutines lost, none
\* that was left out because its request failed or was canceled.
Exists(s) == \A part \in Parts : rpc[s][part] = "ok"

ListingComplete ==
    (pc = "idle" /\ reply = "ok") =>
        /\ children = InOrder({s \in Names : Exists(s)})
        /\ \A s \in Names : Exists(s) \/ \E part \in Parts : rpc[s][part] = "gone"

\* The error of a listing is one the server gave, never the cancellation that
\* the listing itself set off; and a secret is canceled only by such an error.
ErrorIsTheCause ==
    /\ outer # "canceled" /\ reply # "canceled"
    /\ \A s \in Secrets : inner[s] = "canceled" => outer # "none"

\* No more than Limit secrets are fetched at once ("the maximum number of secrets
\* fetched concurrently during a directory listing", gcpsm.go:71).
AtMostLimit == Cardinality(Active) <= Limit

\* A listing that fails leaves the handle without children: the next ReadDir
\* starts again and no page is taken from a part of the directory.
NothingPartial ==
    [][ (pc # "idle" /\ pc' = "idle" /\ reply' # "ok") => children' = <<>> ]_vars

\* A listing comes to its end, however many secrets wait for a slot and whatever
\* their requests end with.
ListingEnds == (pc # "idle") ~> (pc = "idle")

=============================================================================
