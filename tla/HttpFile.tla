------------------------------- MODULE HttpFile -------------------------------
(***************************************************************************)
(* A handle of httpfs.  The first Read opens the body of a GET, which the  *)
(* handle keeps; every Stat makes a HEAD, and a GET if the server does not *)
(* want a HEAD, and closes the body of its response when it returns.  A    *)
(* response is looked at for f.fi before its status is.                    *)
(***************************************************************************)
EXTENDS Integers, ObjectVersions

CONSTANT MaxBodies  \* bound on the responses with a body

ASSUME BodiesAssumption == MaxBodies \in Nat

VARIABLES
    page,      \* the version that the server has
    pageFi,    \* f.fi: the version and the status of a response, or Nil
    pageBody,  \* f.body: which response's, or Nil
    responses, \* how many responses have been successful, so far
    open,      \* those whose body is not closed
    stat,      \* "idle", or inside a Stat
    held,      \* the body that the Stat closes when it returns
    asked,     \* history: the version when the last Stat was called
    info,      \* what the last Stat returned, or Nil for an error
    done       \* the handle is closed

httpVars ==
    <<page, pageFi, pageBody, responses, open, stat, held, asked, info, done>>

\* What a handle learns of a response.
Info(status) == [version |-> page, status |-> status]

NoInfo == [version |-> Nil, status |-> "none"]

InitHttp ==
    /\ page = 1 /\ pageFi = NoInfo /\ pageBody = Nil
    /\ responses = 0 /\ open = {}
    /\ stat = "idle" /\ held = Nil /\ asked = 1 /\ info = NoInfo
    /\ done = FALSE

\* The server gets a new version of the page.
Publish ==
    /\ page < MaxVersion
    /\ page' = page + 1
    /\ UNCHANGED <<pageFi, pageBody, responses, open, stat, held, asked, info, done>>

-----------------------------------------------------------------------------
(* request *)

\* A response with a status below 400, whose body stays open ...
Succeeds ==
    /\ responses < MaxBodies
    /\ responses' = responses + 1
    /\ open' = open \cup {responses'}
    /\ pageFi' = Info("ok")

\* ... or above, whose body is closed ("refused": 401 or 405) ...
FailsWith(status) ==
    /\ pageFi' = Info(status)
    /\ UNCHANGED <<responses, open>>

\* ... or none.
NoResponse == UNCHANGED <<pageFi, responses, open>>

Errors == NoResponse \/ FailsWith("error")

-----------------------------------------------------------------------------
(* Read *)

ReadPage ==
    /\ stat = "idle" /\ ~done /\ pageBody = Nil
    /\ \/ Succeeds /\ pageBody' = responses'
       \/ (Errors \/ FailsWith("refused")) /\ UNCHANGED pageBody
    /\ UNCHANGED <<page, stat, held, asked, info, done>>

\* The rest of Read takes from the body of the handle.
ReadRest ==
    /\ stat = "idle" /\ ~done /\ pageBody # Nil
    /\ UNCHANGED httpVars

-----------------------------------------------------------------------------
(* Stat *)

\* Mutant of StartStat: an info that is there is returned, as in other filesystems.
StartStatCached ==
    /\ stat = "idle" /\ ~done
    /\ stat' = IF pageFi # NoInfo THEN "return" ELSE "head"
    /\ asked' = page
    /\ UNCHANGED <<page, pageFi, pageBody, responses, open, held, info, done>>

StartStat ==
    /\ stat = "idle" /\ ~done
    /\ stat' = "head" /\ asked' = page
    /\ UNCHANGED <<page, pageFi, pageBody, responses, open, held, info, done>>

\* The response is good: its body is for the deferred Close.
Answered(method) ==
    /\ stat = method
    /\ Succeeds
    /\ held' = responses' /\ stat' = "return"
    /\ UNCHANGED <<page, pageBody, asked, info, done>>

\* A HEAD that is refused is followed by a GET.
Refused ==
    /\ stat = "head"
    /\ FailsWith("refused")
    /\ stat' = "get"
    /\ UNCHANGED <<page, pageBody, held, asked, info, done>>

StatFails ==
    /\ \/ stat = "head" /\ Errors
       \/ stat = "get" /\ (Errors \/ FailsWith("refused"))
    /\ stat' = "idle" /\ info' = NoInfo
    /\ UNCHANGED <<page, pageBody, held, asked, done>>

\* Mutant of CloseHeld: the body of the handle is closed, not that of the Stat.
CloseHeldBody == open' = open \ {pageBody}

\* defer body.Close()
CloseHeld == open' = open \ {held}

StatReturns ==
    /\ stat = "return"
    /\ CloseHeld
    /\ info' = pageFi /\ held' = Nil /\ stat' = "idle"
    /\ UNCHANGED <<page, pageFi, pageBody, responses, asked, done>>

-----------------------------------------------------------------------------
\* The caller closes the handle when it has no more use for it, maybe twice.
ClosePage ==
    /\ stat = "idle"
    /\ done' = TRUE
    /\ open' = open \ {pageBody}
    /\ UNCHANGED <<page, pageFi, pageBody, responses, stat, held, asked, info>>

NextHttp ==
    \/ Publish
    \/ ReadPage \/ ReadRest
    \/ StartStat \/ \E method \in {"head", "get"} : Answered(method)
    \/ Refused \/ StatFails \/ StatReturns
    \/ ClosePage

SpecHttp == InitHttp /\ [][NextHttp]_httpVars

-----------------------------------------------------------------------------
(* Properties *)

\* "The response body must be closed later" (httpfs/http.go:190): between two
\* calls the only response that is open is the one the handle reads from, and
\* none is when the handle is closed, whatever a Stat did in the meantime.
BodiesClosed ==
    stat = "idle" => open = IF pageBody = Nil \/ done THEN {} ELSE {pageBody}

\* Stat returns what the server said in a response that was a success, to a
\* request of this Stat and not of an earlier one, although f.fi has been
\* overwritten by the responses that failed.
InfoFresh ==
    (stat = "idle" /\ info # NoInfo) => info.status = "ok" /\ info.version >= asked
=============================================================================
