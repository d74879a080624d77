-------------------------------- MODULE TraceFS --------------------------------
(***************************************************************************)
(* tracefs: a filesystem around another one, and handles around its        *)
(* handles.  Each call starts a span, calls what is wrapped and ends the   *)
(* span when it returns, in whatever way.                                  *)
(***************************************************************************)
EXTENDS Naturals, Sequences, FiniteSets

\* What a handle may have besides Read, Stat and Close.
Optional == {"ReadDir", "ReadAt", "Seek"}

VARIABLES
    can,      \* what the handles of the wrapped filesystem have
    wrapper,  \* the type of the handle that was opened, or "none"
    running,  \* the call that is running, or "none"
    spans,    \* how many spans have been started and not ended
    reply     \* what was wrapped has said in the last call, and what the call says

traceVars == <<can, wrapper, running, spans, reply>>

NoReply == [op |-> "none", inner |-> "none", said |-> "none"]

InitTrace ==
    /\ can \in SUBSET Optional
    /\ wrapper = "none"
    /\ running = "none" /\ spans = 0
    /\ reply = NoReply

\* Mutant of WrapFile: whether there is a ReadDir is looked at last.
WrapFileLast(has) ==
    IF "ReadAt" \in has
    THEN IF "Seek" \in has THEN "traceReaderAtSeekerFile" ELSE "traceReaderAtFile"
    ELSE IF "Seek" \in has THEN "traceSeekerFile"
    ELSE IF "ReadDir" \in has THEN "traceDir" ELSE "traceFile"

WrapFile(has) ==
    CASE "ReadDir" \in has -> "traceDir"
      [] "ReadDir" \notin has /\ {"ReadAt", "Seek"} \subseteq has
           -> "traceReaderAtSeekerFile"
      [] has = {"ReadAt"} -> "traceReaderAtFile"
      [] has = {"Seek"}   -> "traceSeekerFile"
      [] OTHER            -> "traceFile"

\* The methods of the types.
Has(type) ==
    CASE type = "traceDir"                -> {"ReadDir"}
      [] type = "traceReaderAtFile"       -> {"ReadAt"}
      [] type = "traceSeekerFile"         -> {"Seek"}
      [] type = "traceReaderAtSeekerFile" -> {"ReadAt", "Seek"}
      [] OTHER                            -> {}

FSCalls     == {"fs.Open", "fs.ReadDir", "fs.ReadFile", "fs.Stat", "fs.Sub", "fs.Glob"}
HandleCalls == {"Close", "Read", "Stat"} \cup Has(wrapper)

StartCall(op) ==
    /\ running = "none"
    /\ op \in FSCalls \/ (wrapper # "none" /\ op \in HandleCalls)
    /\ running' = op /\ spans' = spans + 1
    /\ reply' = NoReply
    /\ UNCHANGED <<can, wrapper>>

\* Stat looks at the FileInfo before it looks at the error, and readAt and seek
\* say of what is wrapped that it has the method: either may panic.
Says(op, inner) ==
    IF \/ op \in {"fs.Stat", "Stat"} /\ inner = "error"
       \/ op \in {"ReadAt", "Seek"} /\ op \notin can
    THEN "panic" ELSE inner

\* The deferred End ends the span.  The filesystem of a Sub is wrapped too, and
\* has the same methods.
FinishCall(inner) ==
    LET op == running IN
    /\ op # "none"
    /\ running' = "none" /\ spans' = spans - 1
    /\ reply' = [op |-> op, inner |-> inner, said |-> Says(op, inner)]
    /\ wrapper' = IF op = "fs.Open" /\ inner = "ok" THEN WrapFile(can) ELSE wrapper
    /\ UNCHANGED can

NextTrace ==
    \/ \E op \in FSCalls \cup HandleCalls : StartCall(op)
    \/ \E inner \in {"ok", "error"} : FinishCall(inner)

SpecTrace == InitTrace /\ [][NextTrace]_traceVars

-----------------------------------------------------------------------------
(* Properties *)

\* "All operations on the returned filesystem will be instrumented"
\* (tracefs/tracefs.go:10), and nothing else changes: what is wrapped and what
\* wraps it say the same and have the same methods, and no span stays open.  Two
\* things do change: a Stat that fails panics, and the handle of a directory
\* cannot be read at an offset.
Transparent ==
    /\ running = "none" => spans = 0
    /\ reply.said # reply.inner => reply.op \in {"fs.Stat", "Stat"} /\ reply.inner = "error"
    /\ wrapper # "none" =>
          /\ Has(wrapper) \subseteq can
          /\ Has(wrapper) = can \/ "ReadDir" \in Has(wrapper)
=============================================================================
