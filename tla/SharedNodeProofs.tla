-------------------------- MODULE SharedNodeProofs --------------------------
(***************************************************************************)
(* What the manifests guarantee that share a node with those they depend   *)
(* on, for any versions, whole where the run sees them reduced.            *)
(***************************************************************************)
EXTENDS MCSharedNode, PuppetAgentProofs, SequenceTheorems

Batch == {"batch_init", "batch_conf", "batch_service"}

LEMMA Lists ==
    /\ Listed(<<"package", "conf", "default", "service">>) =
           {"package", "conf", "default", "service"}
    /\ Listed(<<"package", "conf", "logback", "default", "service">>) =
           {"package", "conf", "logback", "default", "service"}
<1>1. Listed(<<"package", "conf", "default", "service">>) =
          {"package", "conf", "default", "service"}
  BY DEF Listed
<1>2. Listed(<<"package", "conf", "logback", "default", "service">>) =
          {"package", "conf", "logback", "default", "service"}
  BY DEF Listed
<1> QED
  BY <1>1, <1>2

\* The graphs of the three pairs of classes, without their order.
LEMMA WholeGraphs ==
    /\ userreadbatch.content = {"package", "conf", "default", "batch_init", "batch_conf"}
    /\ relateddatareadbatch.content =
           {"package", "conf", "logback", "default", "batch_init", "batch_conf"}
    /\ statscollector.content = {"package", "conf", "default", "stats_package", "stats_conf"}
    /\ userreadbatch.requires =
           {"package"} \X {"conf", "service"}
               \cup {"package", "conf", "default", "service"} \X Batch
    /\ relateddatareadbatch.requires =
           {"package"} \X {"conf", "logback", "service"}
               \cup {"package", "conf", "logback", "default", "service"} \X Batch
    /\ statscollector.requires =
           {"package"} \X {"conf", "service"}
               \cup {"stats_package"} \X {"stats_conf", "stats_service"}
    /\ userreadbatch.notifies =
           {"package", "conf", "default"} \X {"service"}
               \cup {"batch_init", "batch_conf"} \X {"batch_service"}
    /\ relateddatareadbatch.notifies =
           {"package", "logback", "default"} \X {"service"}
               \cup {"batch_init", "batch_conf"} \X {"batch_service"}
    /\ statscollector.notifies =
           {"package", "conf", "default"} \X {"service"}
               \cup {<<"stats_package", "service">>, <<"stats_conf", "stats_service">>}
    /\ userreadbatch.reads =
           {"package", "conf", "default"} \X {"service"}
               \cup {"package", "batch_init", "batch_conf"} \X {"batch_service"}
    /\ relateddatareadbatch.reads =
           {"package", "conf", "logback", "default"} \X {"service"}
               \cup {"package", "batch_init", "batch_conf"} \X {"batch_service"}
    /\ statscollector.reads =
           {"package", "conf", "default"} \X {"service"}
               \cup {"stats_package", "stats_conf"} \X {"stats_service"}
<1> USE Lists DEF userread, relateddataread, StandardApplication, Application, Managed, OnPackage,
                  Restarting, WithBatch, WithSecond, Batch
<1>1. /\ userreadbatch.content = {"package", "conf", "default", "batch_init", "batch_conf"}
      /\ userreadbatch.requires =
             {"package"} \X {"conf", "service"}
                 \cup {"package", "conf", "default", "service"} \X Batch
      /\ userreadbatch.notifies =
             {"package", "conf", "default"} \X {"service"}
                 \cup {"batch_init", "batch_conf"} \X {"batch_service"}
      /\ userreadbatch.reads =
             {"package", "conf", "default"} \X {"service"}
                 \cup {"package", "batch_init", "batch_conf"} \X {"batch_service"}
  BY DEF userreadbatch
<1>2. /\ relateddatareadbatch.content =
             {"package", "conf", "logback", "default", "batch_init", "batch_conf"}
      /\ relateddatareadbatch.requires =
             {"package"} \X {"conf", "logback", "service"}
                 \cup {"package", "conf", "logback", "default", "service"} \X Batch
      /\ relateddatareadbatch.notifies =
             {"package", "logback", "default"} \X {"service"}
                 \cup {"batch_init", "batch_conf"} \X {"batch_service"}
      /\ relateddatareadbatch.reads =
             {"package", "conf", "logback", "default"} \X {"service"}
                 \cup {"package", "batch_init", "batch_conf"} \X {"batch_service"}
  BY DEF relateddatareadbatch
<1>3. /\ statscollector.content = {"package", "conf", "default", "stats_package", "stats_conf"}
      /\ statscollector.requires =
             {"package"} \X {"conf", "service"}
                 \cup {"stats_package"} \X {"stats_conf", "stats_service"}
      /\ statscollector.notifies =
             {"package", "conf", "default"} \X {"service"}
                 \cup {<<"stats_package", "service">>, <<"stats_conf", "stats_service">>}
      /\ statscollector.reads =
             {"package", "conf", "default"} \X {"service"}
                 \cup {"stats_package", "stats_conf"} \X {"stats_service"}
  BY DEF statscollector
<1> QED
  BY <1>1, <1>2, <1>3

\* What is left of a graph without some resources.
LEMMA ReducedParts ==
    ASSUME NEW first, NEW evaluation, NEW content, NEW service, NEW requires,
           NEW notifies, NEW needs, NEW reads, NEW repeats,
           NEW m, m = WithSecond(first, evaluation, content, service,
                                 requires, notifies, needs, reads)
    PROVE  LET g == Reduced(m, repeats)
               Kept(edges) == {e \in edges : e[1] \notin repeats /\ e[2] \notin repeats}
           IN  /\ g.content = m.content \ repeats
               /\ g.reads = Kept(m.reads)
               /\ g.notifies = Kept(m.notifies) /\ g.requires = Kept(m.requires)
  BY DEF WithSecond, Reduced

\* What a graph says, as far as the properties of this module go.
PartOf(g, m) ==
    /\ g.requires \subseteq m.requires
    /\ g.notifies \subseteq m.notifies
    /\ \A e \in g.reads : e \in m.reads /\ (e \in m.notifies => e \in g.notifies)

\* Each graph a node may be given is a part of its manifest.
LEMMA CatalogManifests ==
    ASSUME NEW g \in Catalogs
    PROVE  Manifest(g) \in WholeCatalogs /\ PartOf(g, Manifest(g))
<1>1. ReducedBatch.content = {"package", "batch_init"} /\ PartOf(ReducedBatch, userreadbatch)
  <2>1. PICK m : m = userreadbatch
    OBVIOUS
  <2>2. LET Kept(edges) == {e \in edges : /\ e[1] \notin {"default", "conf", "batch_conf"}
                                          /\ e[2] \notin {"default", "conf", "batch_conf"}}
        IN  /\ ReducedBatch.content = m.content \ {"default", "conf", "batch_conf"}
            /\ ReducedBatch.reads = Kept(m.reads)
            /\ ReducedBatch.notifies = Kept(m.notifies)
            /\ ReducedBatch.requires = Kept(m.requires)
    BY <2>1, ReducedParts DEF ReducedBatch, userreadbatch, WithBatch
  <2> QED
    BY <2>1, <2>2, WholeGraphs DEF PartOf
<1>2. /\ ReducedStats.content = {"package", "stats_package", "stats_conf"}
      /\ PartOf(ReducedStats, statscollector)
  <2>1. PICK m : m = statscollector
    OBVIOUS
  <2>2. LET Kept(edges) == {e \in edges : /\ e[1] \notin {"default", "conf"}
                                          /\ e[2] \notin {"default", "conf"}}
        IN  /\ ReducedStats.content = m.content \ {"default", "conf"}
            /\ ReducedStats.reads = Kept(m.reads)
            /\ ReducedStats.notifies = Kept(m.notifies)
            /\ ReducedStats.requires = Kept(m.requires)
    BY <2>1, ReducedParts DEF ReducedStats, statscollector
  <2> QED
    BY <2>1, <2>2, WholeGraphs DEF PartOf
<1>3. ReducedBatch # ReducedStats
  BY <1>1, <1>2
<1>4. CASE g = ReducedBatch
  BY <1>1, <1>3, <1>4 DEF Manifest, WholeCatalogs
<1>5. CASE g = ReducedStats
  BY <1>2, <1>3, <1>5 DEF Manifest, WholeCatalogs
<1>6. CASE g \in WholeCatalogs
  <2>1. "conf" \in g.content
    BY <1>6, WholeGraphs DEF WholeCatalogs
  <2>2. Manifest(g) = g
    BY <1>1, <1>2, <2>1 DEF Manifest
  <2> QED
    BY <1>6, <2>2 DEF PartOf
<1> QED
  BY <1>4, <1>5, <1>6, KnownManifests DEF MCCatalogs

-----------------------------------------------------------------------------
\* The manifests leave without a notify what UnwatchedReads lists, no more.
LEMMA ManifestsWatch ==
    ASSUME NEW m \in WholeCatalogs, NEW e \in m.reads
    PROVE  e \in m.notifies \/ <<m, e>> \in UnwatchedReads
<1>1. CASE m = userreadbatch
  <2>1. <<m, <<"package", "batch_service">>>> \in UnwatchedReads
    BY <1>1 DEF UnwatchedReads
  <2> QED
    BY <1>1, <2>1, WholeGraphs
<1>2. CASE m = relateddatareadbatch
  <2>1. /\ <<m, <<"package", "batch_service">>>> \in UnwatchedReads
        /\ <<m, <<"conf", "service">>>> \in UnwatchedReads
    BY <1>2 DEF UnwatchedReads
  <2> QED
    BY <1>2, <2>1, WholeGraphs
<1>3. CASE m = statscollector
  <2>1. <<m, <<"stats_package", "stats_service">>>> \in UnwatchedReads
    BY <1>3 DEF UnwatchedReads
  <2> QED
    BY <1>3, <2>1, WholeGraphs
<1> QED
  BY <1>1, <1>2, <1>3 DEF WholeCatalogs

\* For any versions: a daemon of either class is out of date with the disk only
\* through an event that is queued or was dropped, or in a read that the
\* manifests leave without a notify.
THEOREM StaleWhereUnwatched == Spec => []StaleOnlyWhereUnwatched
<1>1. TypeOK /\ NoSilentStaleness => StaleOnlyWhereUnwatched
  <2> SUFFICES ASSUME TypeOK, NoSilentStaleness,
                      NEW e \in graph.reads, Live(e[2]), seen[e[2]][e[1]] # actual[e[1]]
               PROVE  e \in pending \cup lost \/ <<Manifest(graph), e>> \in UnwatchedReads
    BY DEF StaleOnlyWhereUnwatched
  <2>1. e \in graph.notifies \/ <<Manifest(graph), e>> \in UnwatchedReads
    BY CatalogManifests, ManifestsWatch DEF TypeOK, PartOf
  <2> QED
    BY <2>1 DEF NoSilentStaleness
<1> QED
  BY <1>1, TypeCorrect, StalenessHasACause, PTL

-----------------------------------------------------------------------------
\* An edge passes on what explains a skip: a failure that explains that q is
\* skipped explains as well that what depends on q is.  This takes a q that
\* depends on something: stats_package, which nothing can make skipped, is what
\* user-read depends on, the rest of its class is not.
LEMMA EdgesExplain ==
    ASSUME NEW g \in Catalogs, NEW q, NEW r, <<q, r>> \in Edges(g)
    PROVE  /\ Explains(q, r)
           /\ (\E o : <<o, q>> \in Edges(g)) => \A p : Explains(p, q) => Explains(p, r)
<1>1. PICK m \in WholeCatalogs : Edges(g) \subseteq m.requires \cup m.notifies
  BY CatalogManifests DEF PartOf, Edges
<1> USE DEF Explains, SameClass, SecondClass, Batch
<1>2. ASSUME m \in {userreadbatch, relateddatareadbatch}
      PROVE  Explains(q, r) /\ \A p : Explains(p, q) => Explains(p, r)
  <2>1. \/ r \in Batch
        \/ q \in {"package", "conf", "logback", "default"} /\ r \in {"conf", "logback", "service"}
    BY <1>1, <1>2, WholeGraphs
  <2> QED
    BY <2>1
<1>3. ASSUME m = statscollector
      PROVE  /\ Explains(q, r)
             /\ (\E o : <<o, q>> \in Edges(g)) => \A p : Explains(p, q) => Explains(p, r)
  <2>1. \/ q \in {"package", "conf", "default"} /\ r \in {"conf", "service"}
        \/ q \in {"stats_package", "stats_conf"} /\ r \in {"stats_conf", "stats_service"}
        \/ q = "stats_package" /\ r = "service"
    BY <1>1, <1>3, WholeGraphs
  <2>2. ~ \E o : <<o, "stats_package">> \in Edges(g)
    BY <1>1, <1>3, WholeGraphs
  <2> QED
    BY <2>1, <2>2
<1> QED
  BY <1>1, <1>2, <1>3 DEF WholeCatalogs

\* What is skipped depends on something, which is why the failures in the class
\* of stats_package do not spread through it.
SkipsExplainedInv ==
    /\ SkipsExplained
    /\ \A r \in Members(graph) :
           status[r] = "skipped" => \E q : <<q, r>> \in Edges(graph)

\* For any versions: no failure spreads further than the manifests say.  What
\* is skipped depends on a failure or on what was skipped for one, and every
\* edge passes the explanation on.
THEOREM SkipsHaveACause == Spec => []SkipsExplained
<1>1. Init => SkipsExplainedInv
  BY GraphFacts DEF Init, SkipsExplained, SkipsExplainedInv
<1>2. TypeOK /\ SkipsExplainedInv /\ [Next]_vars => SkipsExplainedInv'
  <2> SUFFICES ASSUME TypeOK, SkipsExplainedInv, [Next]_vars PROVE SkipsExplainedInv'
    OBVIOUS
  <2> USE DEF SkipsExplainedInv
  <2>1. /\ graph \in Catalogs
        /\ Members(graph) \subseteq Resources
        /\ Edges(graph) \subseteq Members(graph) \X Members(graph)
        /\ Edges(graph) \subseteq graph.order
        /\ status \in [Resources -> {"todo", "ok", "failed", "skipped"}]
    BY GraphFacts DEF TypeOK
  <2>a. Content \subseteq Resources /\ Services \subseteq Resources /\ Execs \subseteq Resources
    BY DEF Resources
  \* The result of the next resource hides no failure that explains others.
  <2>2. ASSUME NEW r \in Resources, IsNext(r), graph' = graph,
               NEW res \in {"ok", "failed", "skipped"}, Report(r, res),
               res = "skipped" =>
                   /\ \E q : <<q, r>> \in Edges(graph)
                   /\ \E p \in Members(graph) : status[p] = "failed" /\ Explains(p, r)
        PROVE  SkipsExplainedInv'
    <3> SUFFICES ASSUME NEW t \in Members(graph), status'[t] = "skipped"
                 PROVE  /\ \E q : <<q, t>> \in Edges(graph)
                        /\ \E p \in Members(graph) : status'[p] = "failed" /\ Explains(p, t)
      BY <2>2 DEF SkipsExplained, Members, Edges
    <3>0. \E q : <<q, t>> \in Edges(graph)
      BY <2>1, <2>2 DEF Report
    <3>1. \E p \in Members(graph) : status[p] = "failed" /\ Explains(p, t)
      BY <2>1, <2>2 DEF Report, SkipsExplained
    <3>2. \A p \in Members(graph) : status[p] = "failed" => status'[p] = "failed"
      BY <2>1, <2>2 DEF Report, IsNext
    <3> QED
      BY <3>0, <3>1, <3>2
  <2>3. ASSUME UNCHANGED <<graph, status>> PROVE SkipsExplainedInv'
    BY <2>3 DEF SkipsExplained, Members, Edges
  <2>4. ASSUME NEW c \in Content, HieraChange(c) PROVE SkipsExplainedInv'
    BY <2>3, <2>4 DEF HieraChange
  <2>5. ASSUME NEW s \in Services, ServiceDies(s) PROVE SkipsExplainedInv'
    BY <2>3, <2>5 DEF ServiceDies
  <2>6. CASE StartRun
    BY <2>3, <2>6 DEF StartRun
  <2>7. ASSUME NEW r \in Resources, Skip(r) PROVE SkipsExplainedInv'
    <3>1. PICK q \in Resources : <<q, r>> \in Edges(graph) /\ status[q] # "ok"
      BY <2>7 DEF Skip, DependenciesOk
    <3>2. q \in Members(graph) /\ status[q] \in {"failed", "skipped"}
      BY <2>1, <2>7, <3>1 DEF Skip, IsNext
    <3>3. \E p \in Members(graph) : status[p] = "failed" /\ Explains(p, r)
      <4>1. CASE status[q] = "failed"
        BY <2>1, <3>1, <3>2, <4>1, EdgesExplain
      <4>2. CASE status[q] = "skipped"
        BY <2>1, <3>1, <3>2, <4>2, EdgesExplain DEF SkipsExplained
      <4> QED
        BY <3>2, <4>1, <4>2
    <3> QED
      BY <2>2, <2>7, <3>1, <3>3 DEF Skip
  <2>8. ASSUME NEW c \in Content, ApplyContent(c) \/ ContentFails(c) PROVE SkipsExplainedInv'
    BY <2>a, <2>2, <2>8 DEF ApplyContent, ContentFails, Evaluate
  <2>9. ASSUME NEW s \in Services, ApplyService(s) \/ ServiceFails(s) PROVE SkipsExplainedInv'
    BY <2>a, <2>2, <2>9 DEF ApplyService, ServiceFails, Evaluate
  <2>10. ASSUME NEW e \in Execs, ExecIdle(e) \/ ExecRuns(e) \/ ExecFails(e)
         PROVE  SkipsExplainedInv'
    BY <2>a, <2>2, <2>10 DEF ExecIdle, ExecRuns, ExecFails, Evaluate
  <2>11. CASE EndRun \/ AgentCrash \/ Reboot
    BY <2>1, <2>11 DEF EndRun, AgentCrash, Reboot, SkipsExplained
  <2>12. CASE UNCHANGED vars
    BY <2>3, <2>12 DEF vars
  <2> QED
    BY NextCases, <2>4, <2>5, <2>6, <2>7, <2>8, <2>9, <2>10, <2>11, <2>12
<1> QED
  <2>1. SkipsExplainedInv => SkipsExplained
    BY DEF SkipsExplainedInv
  <2> QED
    BY <1>1, <1>2, <2>1, TypeCorrect, PTL DEF Spec

-----------------------------------------------------------------------------
\* The orders of declaration of seven and of eight resources.
LEMMA Order7 ==
    ASSUME NEW a, NEW b, NEW c, NEW d, NEW e, NEW f, NEW g
    PROVE  {a} \X {b, c, d, e, f, g} \cup {b} \X {c, d, e, f, g}
               \cup {c} \X {d, e, f, g} \cup {d} \X {e, f, g}
               \cup {e} \X {f, g} \cup {f} \X {g}
               \subseteq ManifestOrder(<<a, b, c, d, e, f, g>>)
<1> DEFINE ev == <<a, b, c, d, e, f, g>>
<1>1. Len(ev) = 7
  OBVIOUS
<1>2. \A i, j \in 1..7 : i < j => <<ev[i], ev[j]>> \in ManifestOrder(ev)
  <2> HIDE DEF ev
  <2> QED
    BY <1>1, Earlier
<1> QED
  BY <1>2

LEMMA Order8 ==
    ASSUME NEW a, NEW b, NEW c, NEW d, NEW e, NEW f, NEW g, NEW h
    PROVE  {a} \X {b, c, d, e, f, g, h} \cup {b} \X {c, d, e, f, g, h}
               \cup {c} \X {d, e, f, g, h} \cup {d} \X {e, f, g, h}
               \cup {e} \X {f, g, h} \cup {f} \X {g, h}
               \cup {g} \X {h}
               \subseteq ManifestOrder(<<a, b, c, d, e, f, g, h>>)
<1> DEFINE ev == <<a, b, c, d, e, f, g, h>>
<1>1. Len(ev) = 8
  OBVIOUS
<1>2. \A i, j \in 1..8 : i < j => <<ev[i], ev[j]>> \in ManifestOrder(ev)
  <2> HIDE DEF ev
  <2> QED
    BY <1>1, Earlier
<1> QED
  BY <1>2

\* No two classes of a node declare the same resource.
LEMMA ManifestsDeclare ==
    /\ Declares(<<"package", "conf", "default", "service", "batch_init",
                  "batch_conf", "batch_service">>)
    /\ Declares(<<"package", "conf", "logback", "default", "service",
                  "batch_init", "batch_conf", "batch_service">>)
    /\ Declares(<<"package", "conf", "default", "stats_package", "service",
                  "stats_conf", "stats_service">>)
<1>1. Declares(<<"package", "conf", "default", "service", "batch_init",
                "batch_conf", "batch_service">>)
  <2> DEFINE ev == <<"package", "conf", "default", "service", "batch_init",
                     "batch_conf", "batch_service">>
  <2>1. /\ DOMAIN ev = 1..7 /\ Len(ev) = 7
        /\ DeclaresOnce(ev, 7)
    BY DEF DeclaresOnce
  <2> HIDE DEF ev
  <2>2. Declares(ev)
    BY <2>1, DeclaredOnce
  <2> QED
    BY <2>2 DEF ev
<1>2. Declares(<<"package", "conf", "logback", "default", "service",
                "batch_init", "batch_conf", "batch_service">>)
  <2> DEFINE ev == <<"package", "conf", "logback", "default", "service",
                     "batch_init", "batch_conf", "batch_service">>
  <2>1. /\ DOMAIN ev = 1..8 /\ Len(ev) = 8
        /\ DeclaresOnce(ev, 8)
    BY DEF DeclaresOnce
  <2> HIDE DEF ev
  <2>2. Declares(ev)
    BY <2>1, DeclaredOnce
  <2> QED
    BY <2>2 DEF ev
<1>3. Declares(<<"package", "conf", "default", "stats_package", "service",
                "stats_conf", "stats_service">>)
  <2> DEFINE ev == <<"package", "conf", "default", "stats_package", "service",
                     "stats_conf", "stats_service">>
  <2>1. /\ DOMAIN ev = 1..7 /\ Len(ev) = 7
        /\ DeclaresOnce(ev, 7)
    BY DEF DeclaresOnce
  <2> HIDE DEF ev
  <2>2. Declares(ev)
    BY <2>1, DeclaredOnce
  <2> QED
    BY <2>2 DEF ev
<1> QED
  BY <1>1, <1>2, <1>3

\* What a sequence that starts with one and ends with another is.
LEMMA Appended ==
    ASSUME NEW S, NEW a \in Seq(S), NEW b \in Seq(S), NEW c \in Seq(S),
           Len(c) = Len(a) + Len(b),
           \A i \in 1..Len(a) : c[i] = a[i],
           \A i \in 1..Len(b) : c[Len(a) + i] = b[i]
    PROVE  a \o b = c
<1>1. /\ a \o b \in Seq(S)
      /\ Len(a \o b) = Len(a) + Len(b)
      /\ \A i \in 1..Len(a) + Len(b) :
             (a \o b)[i] = IF i <= Len(a) THEN a[i] ELSE b[i - Len(a)]
  BY ConcatProperties
<1>2. ASSUME NEW i \in 1..Len(c) PROVE (a \o b)[i] = c[i]
  <2>1. Len(a) \in Nat /\ Len(b) \in Nat
    OBVIOUS
  <2>2. CASE i <= Len(a)
    BY <1>1, <2>1, <2>2
  <2>3. CASE i > Len(a)
    <3>1. i - Len(a) \in 1..Len(b) /\ Len(a) + (i - Len(a)) = i
      BY <2>1, <2>3
    <3>2. c[i] = b[i - Len(a)]
      BY <3>1
    <3> QED
      BY <1>1, <2>1, <2>3, <3>2
  <2> QED
    BY <2>1, <2>2, <2>3
<1> QED
  BY <1>1, <1>2, SeqEqual

\* The order in which the agent evaluates the classes of each node.
LEMMA WholeOrders ==
    /\ userreadbatch.order =
           ManifestOrder(<<"package", "conf", "default", "service",
                           "batch_init", "batch_conf", "batch_service">>)
    /\ relateddatareadbatch.order =
           ManifestOrder(<<"package", "conf", "logback", "default", "service",
                           "batch_init", "batch_conf", "batch_service">>)
    /\ statscollector.order =
           ManifestOrder(<<"package", "conf", "default", "stats_package", "service",
                           "stats_conf", "stats_service">>)
<1>1. <<"package", "conf", "default", "service">>
          \o <<"batch_init", "batch_conf", "batch_service">> =
      <<"package", "conf", "default", "service",
        "batch_init", "batch_conf", "batch_service">>
  <2> DEFINE a == <<"package", "conf", "default", "service">>
             b == <<"batch_init", "batch_conf", "batch_service">>
             c == <<"package", "conf", "default", "service",
                    "batch_init", "batch_conf", "batch_service">>
             S == {"package", "conf", "default", "service",
                   "batch_init", "batch_conf", "batch_service"}
  <2>1. /\ a \in Seq(S) /\ Len(a) = 4
        /\ b \in Seq(S) /\ Len(b) = 3
        /\ c \in Seq(S) /\ Len(c) = 7
    OBVIOUS
  <2>2. /\ c[1] = a[1] /\ c[2] = a[2] /\ c[3] = a[3] /\ c[4] = a[4]
        /\ c[5] = b[1] /\ c[6] = b[2] /\ c[7] = b[3]
    OBVIOUS
  <2> HIDE DEF a, b, c, S
  <2>3. /\ Len(c) = Len(a) + Len(b)
        /\ \A i \in 1..Len(a) : c[i] = a[i]
        /\ \A i \in 1..Len(b) : c[Len(a) + i] = b[i]
    BY <2>1, <2>2
  <2>4. a \o b = c
    BY <2>1, <2>3, Appended
  <2> QED
    BY <2>4 DEF a, b, c
<1>2. <<"package", "conf", "logback", "default", "service">>
          \o <<"batch_init", "batch_conf", "batch_service">> =
      <<"package", "conf", "logback", "default", "service",
        "batch_init", "batch_conf", "batch_service">>
  <2> DEFINE a == <<"package", "conf", "logback", "default", "service">>
             b == <<"batch_init", "batch_conf", "batch_service">>
             c == <<"package", "conf", "logback", "default", "service",
                    "batch_init", "batch_conf", "batch_service">>
             S == {"package", "conf", "logback", "default", "service",
                   "batch_init", "batch_conf", "batch_service"}
  <2>1. /\ a \in Seq(S) /\ Len(a) = 5
        /\ b \in Seq(S) /\ Len(b) = 3
        /\ c \in Seq(S) /\ Len(c) = 8
    OBVIOUS
  <2>2. /\ c[1] = a[1] /\ c[2] = a[2] /\ c[3] = a[3] /\ c[4] = a[4] /\ c[5] = a[5]
        /\ c[6] = b[1] /\ c[7] = b[2] /\ c[8] = b[3]
    OBVIOUS
  <2> HIDE DEF a, b, c, S
  <2>3. /\ Len(c) = Len(a) + Len(b)
        /\ \A i \in 1..Len(a) : c[i] = a[i]
        /\ \A i \in 1..Len(b) : c[Len(a) + i] = b[i]
    BY <2>1, <2>2
  <2>4. a \o b = c
    BY <2>1, <2>3, Appended
  <2> QED
    BY <2>4 DEF a, b, c
<1> QED
  BY <1>1, <1>2 DEF userreadbatch, relateddatareadbatch, statscollector, WithBatch, WithSecond

\* The resources of each node.
LEMMA WholeMembers ==
    /\ Members(userreadbatch) =
           Listed(<<"package", "conf", "default", "service",
                    "batch_init", "batch_conf", "batch_service">>)
    /\ Members(relateddatareadbatch) =
           Listed(<<"package", "conf", "logback", "default", "service",
                    "batch_init", "batch_conf", "batch_service">>)
    /\ Members(statscollector) =
           Listed(<<"package", "conf", "default", "stats_package", "service",
                    "stats_conf", "stats_service">>)
<1> DEFINE ub == {"package", "conf", "default", "service",
                  "batch_init", "batch_conf", "batch_service"}
           st == {"package", "conf", "default", "stats_package", "service",
                  "stats_conf", "stats_service"}
<1>1. /\ Listed(<<"package", "conf", "default", "service",
                  "batch_init", "batch_conf", "batch_service">>) = ub
      /\ Listed(<<"package", "conf", "logback", "default", "service",
                  "batch_init", "batch_conf", "batch_service">>) = ub \cup {"logback"}
  BY DEF Listed
<1>2. Listed(<<"package", "conf", "default", "stats_package", "service",
               "stats_conf", "stats_service">>) = st
  BY DEF Listed
<1>3. /\ userreadbatch.services = {"service", "batch_service"} /\ userreadbatch.execs = {}
      /\ relateddatareadbatch.services = {"service", "batch_service"}
      /\ relateddatareadbatch.execs = {}
      /\ statscollector.services = {"service", "stats_service"} /\ statscollector.execs = {}
  BY Lists DEF userreadbatch, relateddatareadbatch, statscollector, WithBatch, WithSecond,
               userread, relateddataread, StandardApplication, Application, Managed
<1>4. Members(userreadbatch) = ub /\ Members(relateddatareadbatch) = ub \cup {"logback"}
  BY <1>3, WholeGraphs DEF Members
<1>5. Members(statscollector) = st
  BY <1>3, WholeGraphs DEF Members
<1> QED
  BY <1>1, <1>2, <1>4, <1>5

LEMMA WholeOrdered == \A m \in WholeCatalogs : Ordered(m)
<1> USE DEF EdgesAlongOrder, Edges, Batch
<1>1. Ordered(userreadbatch)
  <2> DEFINE ev == <<"package", "conf", "default", "service",
                     "batch_init", "batch_conf", "batch_service">>
             R == ManifestOrder(ev)
             all == Listed(ev)
  <2>1. all = {"package", "conf", "default", "service",
               "batch_init", "batch_conf", "batch_service"}
    BY DEF Listed
  <2>2. {"package", "conf", "default", "service"} \X Batch \subseteq R
    BY Order7
  <2>3. /\ {"package"} \X {"conf", "service"} \subseteq R
        /\ {"package", "conf", "default"} \X {"service"} \subseteq R
        /\ {"batch_init", "batch_conf"} \X {"batch_service"} \subseteq R
    BY Order7
  <2> HIDE DEF ev, R, all
  <2>4. userreadbatch.order = R /\ Members(userreadbatch) = all /\ Declares(ev)
    BY WholeOrders, WholeMembers, ManifestsDeclare DEF R, all, ev
  <2>5. EdgesAlongOrder(userreadbatch)
    BY <2>1, <2>2, <2>3, <2>4, WholeGraphs
  <2> QED
    BY <2>4, <2>5 DEF Declares, Ordered, R, all
<1>2. Ordered(relateddatareadbatch)
  <2> DEFINE ev == <<"package", "conf", "logback", "default", "service",
                     "batch_init", "batch_conf", "batch_service">>
             R == ManifestOrder(ev)
             all == Listed(ev)
  <2>1. all = {"package", "conf", "logback", "default", "service",
               "batch_init", "batch_conf", "batch_service"}
    BY DEF Listed
  <2>2. {"package", "conf", "logback", "default", "service"} \X Batch \subseteq R
    BY Order8
  <2>3. /\ {"package"} \X {"conf", "logback", "service"} \subseteq R
        /\ {"package", "logback", "default"} \X {"service"} \subseteq R
        /\ {"batch_init", "batch_conf"} \X {"batch_service"} \subseteq R
    BY Order8
  <2> HIDE DEF ev, R, all
  <2>4. relateddatareadbatch.order = R /\ Members(relateddatareadbatch) = all /\ Declares(ev)
    BY WholeOrders, WholeMembers, ManifestsDeclare DEF R, all, ev
  <2>5. EdgesAlongOrder(relateddatareadbatch)
    BY <2>1, <2>2, <2>3, <2>4, WholeGraphs
  <2> QED
    BY <2>4, <2>5 DEF Declares, Ordered, R, all
<1>3. Ordered(statscollector)
  <2> DEFINE ev == <<"package", "conf", "default", "stats_package", "service",
                     "stats_conf", "stats_service">>
             R == ManifestOrder(ev)
             all == Listed(ev)
  <2>1. all = {"package", "conf", "default", "stats_package", "service",
               "stats_conf", "stats_service"}
    BY DEF Listed
  <2>2. /\ {"package"} \X {"conf", "service"} \subseteq R
        /\ {"package", "conf", "default", "stats_package"} \X {"service"} \subseteq R
        /\ {"stats_package"} \X {"stats_conf", "stats_service"} \subseteq R
        /\ <<"stats_conf", "stats_service">> \in R
    BY Order7
  <2> HIDE DEF ev, R, all
  <2>3. statscollector.order = R /\ Members(statscollector) = all /\ Declares(ev)
    BY WholeOrders, WholeMembers, ManifestsDeclare DEF R, all, ev
  <2>4. EdgesAlongOrder(statscollector)
    BY <2>1, <2>2, <2>3, WholeGraphs
  <2> QED
    BY <2>3, <2>4 DEF Declares, Ordered, R, all
<1> QED
  BY <1>1, <1>2, <1>3 DEF WholeCatalogs

\* Leaving resources out keeps what is left in order.
LEMMA ReducedOrdered ==
    ASSUME NEW first, NEW evaluation, NEW content, NEW service, NEW requires,
           NEW notifies, NEW needs, NEW reads, NEW repeats,
           NEW m, m = WithSecond(first, evaluation, content, service,
                                 requires, notifies, needs, reads), Ordered(m)
    PROVE  Ordered(Reduced(m, repeats))
<1> DEFINE g == Reduced(m, repeats)
<1>1. /\ g.services = m.services /\ g.execs = m.execs
      /\ g.order = {e \in m.order : e[1] \notin repeats /\ e[2] \notin repeats}
  BY DEF WithSecond, Reduced
<1>2. /\ g.content = m.content \ repeats
      /\ g.notifies = {e \in m.notifies : e[1] \notin repeats /\ e[2] \notin repeats}
      /\ g.requires = {e \in m.requires : e[1] \notin repeats /\ e[2] \notin repeats}
  BY ReducedParts
<1> HIDE DEF g
<1>3. EdgesAlongOrder(g)
  BY <1>1, <1>2 DEF Ordered, EdgesAlongOrder, Edges, Members
<1>4. IsFiniteSet(Members(g))
  <2>1. Members(g) \subseteq Members(m)
    BY <1>1, <1>2 DEF Members
  <2> QED
    BY <2>1, FS_Subset DEF Ordered
<1>5. StrictOrder(g.order)
  BY <1>1 DEF Ordered, StrictOrder
<1> QED
  BY <1>3, <1>4, <1>5 DEF Ordered, g

\* The classes that meet on a node are together a catalog the compiler accepts,
\* the one notify from a class to another included: the edges join declared
\* resources, along an order without cycles.
THEOREM SharedManifestsOrdered == \A g \in MCCatalogs \cup WholeCatalogs : Ordered(g)
<1>1. Ordered(userreadbatch) /\ Ordered(statscollector)
  BY WholeOrdered DEF WholeCatalogs
<1>2. Ordered(ReducedBatch)
  <2>1. PICK m : m = userreadbatch
    OBVIOUS
  <2> QED
    BY <1>1, <2>1, ReducedOrdered DEF ReducedBatch, userreadbatch, WithBatch
<1>3. Ordered(ReducedStats)
  <2>1. PICK m : m = statscollector
    OBVIOUS
  <2> QED
    BY <1>1, <2>1, ReducedOrdered DEF ReducedStats, statscollector
<1> QED
  BY <1>2, <1>3, WholeOrdered DEF MCCatalogs
=============================================================================
