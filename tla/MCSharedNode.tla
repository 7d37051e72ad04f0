---------------------------- MODULE MCSharedNode ----------------------------
(***************************************************************************)
(* Nodes where one class depends on another: the batch readers on the read *)
(* applications, and the stats collector whose package notifies user-read. *)
(***************************************************************************)
EXTENDS PuppetAgent, ManifestCatalog, FiniteSets, TLC

CONSTANTS v1, v2

MCContent == {"package", "conf", "batch_init", "stats_package", "stats_conf"}
MCServices == {"service", "batch_service", "stats_service"}
MCExecs == {}
MCVersions == {v1, v2}
MCSymmetry == Permutations(MCVersions)

ReducedBatch == Reduced(userreadbatch, {"default", "conf", "batch_conf"})
ReducedStats == Reduced(statscollector, {"default", "conf"})
MCCatalogs == {ReducedBatch, ReducedStats}

\* The manifests that the run only sees reduced.
WholeCatalogs == {userreadbatch, relateddatareadbatch, statscollector}

\* The manifest a graph stands for.
Manifest(g) ==
    CASE g = ReducedBatch -> userreadbatch
      [] g = ReducedStats -> statscollector
      [] OTHER            -> g

\* The node is given one of these pairs of classes.
ASSUME KnownManifests == Catalogs \subseteq MCCatalogs \cup WholeCatalogs

\* The hieradata bumps at most one resource at a time; what a graph does not
\* declare stays at the first release.
OneBump == \E v \in Versions : Cardinality({c \in Content : desired[c] # v}) <= 1

SecondClass == {"batch_init", "batch_conf", "batch_service",
                "stats_package", "stats_conf", "stats_service"}

SameClass(q, r) == (q \in SecondClass) = (r \in SecondClass)

\* A failure of q may be why r is skipped.
Explains(q, r) ==
    \/ SameClass(q, r)
    \/ r \in {"batch_init", "batch_conf", "batch_service"}
    \/ q = "stats_package" /\ r = "service"

\* A resource is skipped only for a failure in its own class, in the read
\* class that a batch class requires, or for the one notify that leaves its
\* class, from the package of the stats collector to user-read.
SkipsExplained ==
    \A r \in Members(graph) : status[r] = "skipped" =>
        \E q \in Members(graph) : status[q] = "failed" /\ Explains(q, r)

\* A daemon is out of date with the disk only through an event that is queued
\* or was dropped, except that nothing restarts the batch daemon for a new
\* package of the read application it links to, nor the stats collector for
\* its own package.
StaleOnlyWhereUnwatched ==
    \A e \in graph.reads :
        /\ Live(e[2])
        /\ seen[e[2]][e[1]] # actual[e[1]]
        => e \in pending \cup lost \/ <<Manifest(graph), e>> \in UnwatchedReads
=============================================================================
