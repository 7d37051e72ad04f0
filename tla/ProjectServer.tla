--------------------------- MODULE ProjectServer ---------------------------
(***************************************************************************)
(* What the node promises the Azkaban server, with the agent, its events   *)
(* and the files on disk left out: an archive is taken, in one step, of    *)
(* the jobs and zipped files of the catalog that was compiled last; the    *)
(* server is given the archive; and a flow is scheduled, on a server that  *)
(* has the project, with the span that was compiled last.                  *)
(***************************************************************************)
CONSTANTS
    Projects,   \* what a project may contain, as far as it is zipped
    Spans,      \* what a flow may be scheduled with
    NoProject,
    NoSpan

VARIABLES
    latest,     \* the project that was compiled last
    span,       \* the span that was compiled last
    archive,    \* the project in the archive
    published,  \* the project on the server
    scheduled   \* the span of the flow on the server

vars == <<latest, span, archive, published, scheduled>>

Init ==
    /\ latest = NoProject /\ archive = NoProject /\ published = NoProject
    /\ span = NoSpan /\ scheduled = NoSpan

Compile ==
    /\ latest' \in Projects \ {NoProject}
    /\ span' \in Spans
    /\ UNCHANGED <<archive, published, scheduled>>

Zip ==
    /\ latest # NoProject
    /\ archive' = latest
    /\ UNCHANGED <<latest, span, published, scheduled>>

Upload ==
    /\ archive # NoProject
    /\ published' = archive
    /\ UNCHANGED <<latest, span, archive, scheduled>>

Schedule ==
    /\ published # NoProject
    /\ span # NoSpan
    /\ scheduled' = span
    /\ UNCHANGED <<latest, span, archive, published>>

Next == Compile \/ Zip \/ Upload \/ Schedule

Spec == Init /\ [][Next]_vars
=============================================================================
