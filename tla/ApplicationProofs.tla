------------------------- MODULE ApplicationProofs -------------------------
(***************************************************************************)
(* What each application manifest guarantees on its own node, for any      *)
(* versions, whole where the runs see it reduced.                          *)
(***************************************************************************)
EXTENDS MCApplication, PuppetAgentProofs

\* What the sequences of the manifests list.
LEMMA Lists ==
    /\ Listed(<<"package", "conf">>) = {"package", "conf"}
    /\ Listed(<<"package", "conf", "service">>) = {"package", "conf", "service"}
    /\ Listed(<<"mongodb", "package", "conf", "service">>) =
           {"mongodb", "package", "conf", "service"}
    /\ Listed(<<"package", "dropin", "conf">>) = {"package", "dropin", "conf"}
    /\ Listed(<<"package", "dropin", "conf", "service">>) =
           {"package", "dropin", "conf", "service"}
    /\ Listed(<<"package", "conf", "default", "service">>) =
           {"package", "conf", "default", "service"}
    /\ Listed(<<"package", "conf", "logback", "default", "service">>) =
           {"package", "conf", "logback", "default", "service"}
    /\ Listed(<<"package", "conf", "dropin", "reload", "service">>) =
           {"package", "conf", "dropin", "reload", "service"}
    /\ Listed(<<"package", "conf", "runclass", "unit", "default", "service">>) =
           {"package", "conf", "runclass", "unit", "default", "service"}
<1>1. Listed(<<"package", "conf">>) = {"package", "conf"}
  BY DEF Listed
<1>2. Listed(<<"package", "conf", "service">>) = {"package", "conf", "service"}
  BY DEF Listed
<1>2a. Listed(<<"mongodb", "package", "conf", "service">>) =
           {"mongodb", "package", "conf", "service"}
  BY DEF Listed
<1>3. Listed(<<"package", "dropin", "conf">>) = {"package", "dropin", "conf"}
  BY DEF Listed
<1>4. Listed(<<"package", "dropin", "conf", "service">>) =
          {"package", "dropin", "conf", "service"}
  BY DEF Listed
<1>5. Listed(<<"package", "conf", "default", "service">>) =
          {"package", "conf", "default", "service"}
  BY DEF Listed
<1>6. Listed(<<"package", "conf", "logback", "default", "service">>) =
          {"package", "conf", "logback", "default", "service"}
  BY DEF Listed
<1>7. Listed(<<"package", "conf", "dropin", "reload", "service">>) =
          {"package", "conf", "dropin", "reload", "service"}
  BY DEF Listed
<1>8. Listed(<<"package", "conf", "runclass", "unit", "default", "service">>) =
          {"package", "conf", "runclass", "unit", "default", "service"}
  BY DEF Listed
<1> QED
  BY <1>1, <1>2, <1>2a, <1>3, <1>4, <1>5, <1>6, <1>7, <1>8

\* Every manifest but the known ones restarts its daemon for all that it reads.
Watches(m, g) == \A e \in g.reads : e \in g.notifies \/ <<m, e>> \in UnwatchedReads

LEMMA ReadsOfApplication ==
    ASSUME NEW evaluation, NEW requires, NEW notifies, NEW fixed, NEW boot,
           NEW m, m = Managed(evaluation, requires, notifies, fixed, boot),
           \A c \in Listed(evaluation) \ ({"service", "reload"} \cup fixed) :
               <<c, "service">> \in notifies \/ <<m, <<c, "service">>>> \in UnwatchedReads
    PROVE  Watches(m, m)
  BY DEF Managed, Watches

\* What is left of a graph without some resources.
LEMMA ReducedParts ==
    ASSUME NEW evaluation, NEW requires, NEW notifies, NEW repeats,
           NEW m, m = Application(evaluation, requires, notifies)
    PROVE  LET g == Reduced(m, repeats)
               Kept(edges) == {e \in edges : e[1] \notin repeats /\ e[2] \notin repeats}
           IN  /\ g.content = m.content \ repeats
               /\ g.services = m.services /\ g.execs = m.execs
               /\ g.reads = Kept(m.reads) /\ g.notifies = Kept(m.notifies)
               /\ g.order = Kept(m.order)
  BY DEF Application, Managed, Reduced

LEMMA ReducedWatches ==
    ASSUME NEW evaluation, NEW requires, NEW notifies, NEW repeats,
           NEW m, m = Application(evaluation, requires, notifies),
           Watches(m, m)
    PROVE  Watches(m, Reduced(m, repeats))
  BY ReducedParts DEF Watches

LEMMA ManifestsWatch ==
    /\ \A m \in DatastoreCatalogs \cup PartlyWatchedCatalogs \cup WholeCatalogs : Watches(m, m)
    /\ Watches(relateddataread, ReducedRelateddata)
    /\ Watches(kafkarest, ReducedKafkarest)
    /\ Watches(kafka, ReducedKafka)
    /\ Watches(ReducedSchemarepository, ReducedSchemarepository)
<1> USE Lists DEF OnPackage, Restarting, Application
<1>1. Watches(StandardApplication, StandardApplication)
  BY ReadsOfApplication DEF StandardApplication
<1>2. Watches(lockingservicequeryserver, lockingservicequeryserver)
  BY ReadsOfApplication DEF lockingservicequeryserver
<1>3. Watches(schemarepository, schemarepository)
  BY ReadsOfApplication DEF schemarepository
<1>4. /\ Watches(dsreader, dsreader)
      /\ Watches(etlservice, etlservice)
      /\ Watches(etlservicemaintainer, etlservicemaintainer)
  BY DEF Watches, Managed, dsreader, etlservice, etlservicemaintainer
<1>5. Watches(selectionengine, selectionengine)
  <2>1. <<selectionengine, <<"dropin", "service">>>> \in UnwatchedReads
    BY DEF UnwatchedReads
  <2> QED
    BY <2>1, ReadsOfApplication DEF selectionengine
<1>6. Watches(bigbrother, bigbrother)
  <2>1. <<bigbrother, <<"package", "service">>>> \in UnwatchedReads
    BY DEF UnwatchedReads
  <2> QED
    BY <2>1, ReadsOfApplication DEF bigbrother
<1>7. Watches(schemaregistry, schemaregistry) /\ Watches(zookeeper, zookeeper)
  <2>1. \A m \in {schemaregistry, zookeeper}, c \in {"package", "conf"} :
            <<m, <<c, "service">>>> \in UnwatchedReads
    BY DEF UnwatchedReads
  <2>2. Watches(schemaregistry, schemaregistry)
    BY <2>1, ReadsOfApplication DEF schemaregistry
  <2>3. Watches(zookeeper, zookeeper)
    BY <2>1, ReadsOfApplication DEF zookeeper
  <2> QED
    BY <2>2, <2>3
<1>7a. Watches(heartbeat, heartbeat)
  <2>1. <<heartbeat, <<"conf", "service">>>> \in UnwatchedReads
    BY DEF UnwatchedReads
  <2> QED
    BY <2>1, ReadsOfApplication DEF heartbeat
<1>8. Watches(relateddataread, relateddataread)
  <2>1. <<relateddataread, <<"conf", "service">>>> \in UnwatchedReads
    BY DEF UnwatchedReads
  <2> QED
    BY <2>1, ReadsOfApplication DEF relateddataread
<1>9. Watches(kafkarest, kafkarest)
  <2>1. \A c \in {"package", "unit"} :
            <<kafkarest, <<c, "service">>>> \in UnwatchedReads
    BY DEF UnwatchedReads
  <2> QED
    BY <2>1, ReadsOfApplication DEF kafkarest
<1>10. Watches(kafka, kafka)
  <2>1. \A c \in {"package", "conf", "dropin"} :
            <<kafka, <<c, "service">>>> \in UnwatchedReads
    BY DEF UnwatchedReads
  <2> QED
    BY <2>1, ReadsOfApplication DEF kafka
<1>11. Watches(relateddataread, ReducedRelateddata)
  BY <1>8, ReducedWatches DEF relateddataread, ReducedRelateddata
<1>12. Watches(kafkarest, ReducedKafkarest)
  BY <1>9, ReducedWatches DEF kafkarest, ReducedKafkarest
<1>13. Watches(kafka, ReducedKafka)
  BY <1>10, ReducedWatches DEF kafka, ReducedKafka
<1>14. Watches(ReducedSchemarepository, ReducedSchemarepository)
  <2>1. schemarepository.reads \subseteq schemarepository.notifies
    BY DEF schemarepository, Managed
  <2> QED
    BY <2>1, ReducedParts DEF schemarepository, ReducedSchemarepository, Watches
<1>15. \A m \in DatastoreCatalogs : Watches(m, m)
  BY <1>1, <1>2, <1>4
     DEF DatastoreCatalogs, userread, userwrite, userresponseread, userresponsewrite,
         messagestatsread, mobileread, mobilewrite, mobileresponseread,
         mobileresponsewrite, relateddatawrite, membershipwrite, metadatawrite,
         connectwrite, kpiread, usagestatsread, usagestatswrite
<1> QED
  BY <1>3, <1>5, <1>6, <1>7, <1>7a, <1>8, <1>9, <1>10, <1>11, <1>12, <1>13, <1>14, <1>15
     DEF PartlyWatchedCatalogs, WholeCatalogs

-----------------------------------------------------------------------------
\* The content tells the reduced graphs from each other and from the whole.
LEMMA ReducedContent ==
    /\ ReducedRelateddata.content = {"package", "conf", "logback"}
    /\ ReducedKafkarest.content = {"package", "unit", "default"}
    /\ ReducedKafka.content = {"package", "dropin"}
    /\ ReducedSchemarepository.content = {"package", "default"}
  BY Lists DEF Application, Managed, Reduced, relateddataread, kafkarest, kafka, schemarepository,
               ReducedRelateddata, ReducedKafkarest, ReducedKafka, ReducedSchemarepository

LEMMA WholeContent ==
    \A g \in DatastoreCatalogs \cup PartlyWatchedCatalogs \cup WholeCatalogs :
        "conf" \in g.content /\ ("logback" \in g.content => "default" \in g.content)
<1> USE Lists DEF Application, Managed
<1>1. \A g \in {StandardApplication, lockingservicequeryserver, dsreader, etlservice,
                 etlservicemaintainer, schemarepository} :
          "conf" \in g.content /\ "logback" \notin g.content
  BY DEF StandardApplication, lockingservicequeryserver, dsreader, etlservice,
         etlservicemaintainer, schemarepository
<1>2. \A g \in PartlyWatchedCatalogs : "conf" \in g.content /\ "logback" \notin g.content
  BY DEF PartlyWatchedCatalogs, selectionengine, bigbrother, schemaregistry, zookeeper,
         heartbeat
<1>3. /\ {"conf", "default"} \subseteq relateddataread.content
      /\ \A g \in {kafkarest, kafka} : "conf" \in g.content /\ "logback" \notin g.content
  BY DEF relateddataread, kafkarest, kafka
<1>4. DatastoreCatalogs \subseteq {StandardApplication, lockingservicequeryserver, dsreader,
                                  etlservice, etlservicemaintainer}
  BY DEF DatastoreCatalogs, userread, userwrite, userresponseread, userresponsewrite,
         messagestatsread, mobileread, mobilewrite, mobileresponseread,
         mobileresponsewrite, relateddatawrite, membershipwrite, metadatawrite,
         connectwrite, kpiread, usagestatsread, usagestatswrite
<1> QED
  BY <1>1, <1>2, <1>3, <1>4 DEF WholeCatalogs

\* Each graph a node may be given is watched as far as its manifest says.
LEMMA CatalogWatches ==
    ASSUME NEW g \in Catalogs
    PROVE  Watches(Manifest(g), g)
<1>1. CASE g \in DatastoreCatalogs \cup PartlyWatchedCatalogs \cup WholeCatalogs
  <2>1. Manifest(g) = g
    BY <1>1, WholeContent, ReducedContent DEF Manifest
  <2> QED
    BY <1>1, <2>1, ManifestsWatch
<1>2. CASE g = ReducedRelateddata
  <2>1. Manifest(g) = relateddataread
    BY <1>2, ReducedContent DEF Manifest
  <2> QED
    BY <1>2, <2>1, ManifestsWatch
<1>3. CASE g = ReducedKafkarest
  <2>1. Manifest(g) = kafkarest
    BY <1>3, ReducedContent DEF Manifest
  <2> QED
    BY <1>3, <2>1, ManifestsWatch
<1>4. CASE g = ReducedKafka
  <2>1. Manifest(g) = kafka
    BY <1>4, ReducedContent DEF Manifest
  <2> QED
    BY <1>4, <2>1, ManifestsWatch
<1>5. CASE g = ReducedSchemarepository
  <2>1. Manifest(g) = g
    BY <1>5, ReducedContent DEF Manifest
  <2> QED
    BY <1>5, <2>1, ManifestsWatch
<1> QED
  BY <1>1, <1>2, <1>3, <1>4, <1>5, KnownManifests DEF AllCatalogs

\* For any versions and every manifest: a daemon is out of date with the disk
\* only through an event that is queued or was dropped, or in a read that its
\* manifest leaves without a notify.
THEOREM StaleWhereUnwatched == Spec => []StaleOnlyWhereUnwatched
<1>1. TypeOK /\ NoSilentStaleness => StaleOnlyWhereUnwatched
  <2> SUFFICES ASSUME TypeOK, NoSilentStaleness,
                      NEW e \in graph.reads, Live(e[2]), seen[e[2]][e[1]] # actual[e[1]]
               PROVE  e \in pending \cup lost \/ <<Manifest(graph), e>> \in UnwatchedReads
    BY DEF StaleOnlyWhereUnwatched
  <2>1. e \in graph.notifies \/ <<Manifest(graph), e>> \in UnwatchedReads
    BY CatalogWatches DEF TypeOK, Watches
  <2> QED
    BY <2>1 DEF NoSilentStaleness
<1> QED
  BY <1>1, TypeCorrect, StalenessHasACause, PTL

-----------------------------------------------------------------------------
\* The broker's drop-in notifies daemon-reload, which is declared first.
LEMMA ReloadPrecedesBroker ==
    ASSUME NEW g \in {kafka, ReducedKafka}
    PROVE  /\ <<"dropin", "reload">> \in g.notifies
           /\ <<"reload", "service">> \in g.order
           /\ "reload" \in Members(g) /\ "service" \in Members(g)
           /\ "reload" \in g.execs
<1> DEFINE declared == <<"package", "conf", "dropin", "reload", "service">>
<1>1. /\ kafka.order = ManifestOrder(declared)
      /\ kafka.notifies = {<<"dropin", "reload">>}
      /\ kafka.execs = {"reload"} /\ kafka.services = {"service"}
  BY Lists DEF kafka, Application, Managed
<1>2. <<"reload", "service">> \in ManifestOrder(declared)
  <2>1. <<4, 5>> \in {q \in (1..Len(declared)) \X (1..Len(declared)) : q[1] < q[2]}
    OBVIOUS
  <2>2. declared[4] = "reload" /\ declared[5] = "service"
    OBVIOUS
  <2> HIDE DEF declared
  <2> QED
    BY <2>1, <2>2 DEF ManifestOrder
<1>3. /\ ReducedKafka.order = {e \in kafka.order : e[1] # "conf" /\ e[2] # "conf"}
      /\ ReducedKafka.notifies = {e \in kafka.notifies : e[1] # "conf" /\ e[2] # "conf"}
      /\ ReducedKafka.execs = kafka.execs /\ ReducedKafka.services = kafka.services
  BY ReducedParts DEF ReducedKafka, kafka
<1> HIDE DEF declared
<1> QED
  BY <1>1, <1>2, <1>3 DEF Members

\* For any versions: the agent starts the broker only after systemd has
\* re-read the drop-in, or the event that asked for it was lost.  An event that
\* is still queued would mean that the reload, which precedes the service in
\* manifest order, has not been evaluated.
THEOREM BrokerReloaded == Spec => BrokerStartsReloaded
<1> DEFINE e == <<"dropin", "reload">>
           Reloaded ==
             (/\ graph \in {kafka, ReducedKafka}
              /\ "service" \notin up /\ "service" \in up' /\ phase' = "run") =>
                 \/ seen["reload"]["dropin"] = actual["dropin"]
                 \/ <<"dropin", "reload">> \in lost
<1>1. TypeOK /\ EventInv /\ NoSilentStaleness /\ [Next]_vars => [Reloaded]_vars
  <2> SUFFICES ASSUME TypeOK, EventInv, NoSilentStaleness, [Next]_vars,
                      graph \in {kafka, ReducedKafka}, "service" \notin up, "service" \in up',
                      phase' = "run"
               PROVE  \/ seen["reload"]["dropin"] = actual["dropin"]
                      \/ <<"dropin", "reload">> \in lost
    OBVIOUS
  <2>1. /\ e \in graph.notifies /\ e[1] = "dropin" /\ e[2] = "reload"
        /\ graph \in Catalogs
        /\ "reload" \in Execs
    BY ReloadPrecedesBroker, GraphFacts DEF TypeOK
  <2>2. ASSUME NEW s \in Services, ApplyService(s)
        PROVE  e \notin pending
    <3>1. s = "service"
      BY <2>2 DEF ApplyService
    <3>2. status["reload"] # "todo"
      BY <2>2, <3>1, ReloadPrecedesBroker DEF ApplyService, Evaluate, IsNext
    <3> QED
      BY <2>1, <3>2 DEF EventInv, EventsWithinRun
  <2>3. \E s \in Services : ApplyService(s)
    BY NextCases DEF HieraChange, ServiceDies, GoesDown, StartRun, Skip, ApplyContent,
       ContentFails, ServiceFails, ExecIdle, ExecRuns, ExecFails, EndRun, AgentCrash,
       Reboot, vars
  <2>4. e \notin pending
    BY <2>2, <2>3
  <2>5. seen["reload"]["dropin"] # actual["dropin"] => e \in lost
    BY <2>1, <2>4 DEF NoSilentStaleness, Live
  <2> QED
    BY <2>5
<1> QED
  BY <1>1, TypeCorrect, EventDiscipline, StalenessHasACause, PTL
     DEF Spec, BrokerStartsReloaded

-----------------------------------------------------------------------------
LEMMA Order2 ==
    ASSUME NEW a, NEW b
    PROVE  {a} \X {b}
               \subseteq ManifestOrder(<<a, b>>)
<1> DEFINE ev == <<a, b>>
<1>1. Len(ev) = 2
  OBVIOUS
<1>2. \A i, j \in 1..2 : i < j => <<ev[i], ev[j]>> \in ManifestOrder(ev)
  <2> HIDE DEF ev
  <2> QED
    BY <1>1, Earlier
<1> QED
  BY <1>2

LEMMA Order3 ==
    ASSUME NEW a, NEW b, NEW c
    PROVE  {a} \X {b, c} \cup {b} \X {c}
               \subseteq ManifestOrder(<<a, b, c>>)
<1> DEFINE ev == <<a, b, c>>
<1>1. Len(ev) = 3
  OBVIOUS
<1>2. \A i, j \in 1..3 : i < j => <<ev[i], ev[j]>> \in ManifestOrder(ev)
  <2> HIDE DEF ev
  <2> QED
    BY <1>1, Earlier
<1> QED
  BY <1>2

LEMMA Order4 ==
    ASSUME NEW a, NEW b, NEW c, NEW d
    PROVE  {a} \X {b, c, d} \cup {b} \X {c, d} \cup {c} \X {d}
               \subseteq ManifestOrder(<<a, b, c, d>>)
<1> DEFINE ev == <<a, b, c, d>>
<1>1. Len(ev) = 4
  OBVIOUS
<1>2. \A i, j \in 1..4 : i < j => <<ev[i], ev[j]>> \in ManifestOrder(ev)
  <2> HIDE DEF ev
  <2> QED
    BY <1>1, Earlier
<1> QED
  BY <1>2

LEMMA Order5 ==
    ASSUME NEW a, NEW b, NEW c, NEW d, NEW e
    PROVE  {a} \X {b, c, d, e} \cup {b} \X {c, d, e}
               \cup {c} \X {d, e} \cup {d} \X {e}
               \subseteq ManifestOrder(<<a, b, c, d, e>>)
<1> DEFINE ev == <<a, b, c, d, e>>
<1>1. Len(ev) = 5
  OBVIOUS
<1>2. \A i, j \in 1..5 : i < j => <<ev[i], ev[j]>> \in ManifestOrder(ev)
  <2> HIDE DEF ev
  <2> QED
    BY <1>1, Earlier
<1> QED
  BY <1>2

LEMMA Order6 ==
    ASSUME NEW a, NEW b, NEW c, NEW d, NEW e, NEW f
    PROVE  {a} \X {b, c, d, e, f} \cup {b} \X {c, d, e, f}
               \cup {c} \X {d, e, f} \cup {d} \X {e, f} \cup {e} \X {f}
               \subseteq ManifestOrder(<<a, b, c, d, e, f>>)
<1> DEFINE ev == <<a, b, c, d, e, f>>
<1>1. Len(ev) = 6
  OBVIOUS
<1>2. \A i, j \in 1..6 : i < j => <<ev[i], ev[j]>> \in ManifestOrder(ev)
  <2> HIDE DEF ev
  <2> QED
    BY <1>1, Earlier
<1> QED
  BY <1>2

\* No manifest declares a resource twice.
LEMMA ManifestsDeclare ==
    /\ Declares(<<"package", "conf">>)
    /\ Declares(<<"package", "conf", "service">>)
    /\ Declares(<<"mongodb", "package", "conf", "service">>)
    /\ Declares(<<"package", "dropin", "conf">>)
    /\ Declares(<<"package", "dropin", "conf", "service">>)
    /\ Declares(<<"package", "conf", "default", "service">>)
    /\ Declares(<<"package", "conf", "logback", "default", "service">>)
    /\ Declares(<<"package", "conf", "dropin", "reload", "service">>)
    /\ Declares(<<"package", "conf", "runclass", "unit", "default", "service">>)
<1>1. Declares(<<"package", "conf">>)
  <2> DEFINE ev == <<"package", "conf">>
  <2>1. /\ DOMAIN ev = 1..2 /\ Len(ev) = 2
        /\ DeclaresOnce(ev, 2)
    BY DEF DeclaresOnce
  <2> HIDE DEF ev
  <2>2. Declares(ev)
    BY <2>1, DeclaredOnce
  <2> QED
    BY <2>2 DEF ev
<1>2. Declares(<<"package", "conf", "service">>)
  <2> DEFINE ev == <<"package", "conf", "service">>
  <2>1. /\ DOMAIN ev = 1..3 /\ Len(ev) = 3
        /\ DeclaresOnce(ev, 3)
    BY DEF DeclaresOnce
  <2> HIDE DEF ev
  <2>2. Declares(ev)
    BY <2>1, DeclaredOnce
  <2> QED
    BY <2>2 DEF ev
<1>2a. Declares(<<"mongodb", "package", "conf", "service">>)
  <2> DEFINE ev == <<"mongodb", "package", "conf", "service">>
  <2>1. /\ DOMAIN ev = 1..4 /\ Len(ev) = 4
        /\ DeclaresOnce(ev, 4)
    BY DEF DeclaresOnce
  <2> HIDE DEF ev
  <2>2. Declares(ev)
    BY <2>1, DeclaredOnce
  <2> QED
    BY <2>2 DEF ev
<1>3. Declares(<<"package", "dropin", "conf">>)
  <2> DEFINE ev == <<"package", "dropin", "conf">>
  <2>1. /\ DOMAIN ev = 1..3 /\ Len(ev) = 3
        /\ DeclaresOnce(ev, 3)
    BY DEF DeclaresOnce
  <2> HIDE DEF ev
  <2>2. Declares(ev)
    BY <2>1, DeclaredOnce
  <2> QED
    BY <2>2 DEF ev
<1>4. Declares(<<"package", "dropin", "conf", "service">>)
  <2> DEFINE ev == <<"package", "dropin", "conf", "service">>
  <2>1. /\ DOMAIN ev = 1..4 /\ Len(ev) = 4
        /\ DeclaresOnce(ev, 4)
    BY DEF DeclaresOnce
  <2> HIDE DEF ev
  <2>2. Declares(ev)
    BY <2>1, DeclaredOnce
  <2> QED
    BY <2>2 DEF ev
<1>5. Declares(<<"package", "conf", "default", "service">>)
  <2> DEFINE ev == <<"package", "conf", "default", "service">>
  <2>1. /\ DOMAIN ev = 1..4 /\ Len(ev) = 4
        /\ DeclaresOnce(ev, 4)
    BY DEF DeclaresOnce
  <2> HIDE DEF ev
  <2>2. Declares(ev)
    BY <2>1, DeclaredOnce
  <2> QED
    BY <2>2 DEF ev
<1>6. Declares(<<"package", "conf", "logback", "default", "service">>)
  <2> DEFINE ev == <<"package", "conf", "logback", "default", "service">>
  <2>1. /\ DOMAIN ev = 1..5 /\ Len(ev) = 5
        /\ DeclaresOnce(ev, 5)
    BY DEF DeclaresOnce
  <2> HIDE DEF ev
  <2>2. Declares(ev)
    BY <2>1, DeclaredOnce
  <2> QED
    BY <2>2 DEF ev
<1>7. Declares(<<"package", "conf", "dropin", "reload", "service">>)
  <2> DEFINE ev == <<"package", "conf", "dropin", "reload", "service">>
  <2>1. /\ DOMAIN ev = 1..5 /\ Len(ev) = 5
        /\ DeclaresOnce(ev, 5)
    BY DEF DeclaresOnce
  <2> HIDE DEF ev
  <2>2. Declares(ev)
    BY <2>1, DeclaredOnce
  <2> QED
    BY <2>2 DEF ev
<1>8. Declares(<<"package", "conf", "runclass", "unit", "default", "service">>)
  <2> DEFINE ev == <<"package", "conf", "runclass", "unit", "default", "service">>
  <2>1. /\ DOMAIN ev = 1..6 /\ Len(ev) = 6
        /\ DeclaresOnce(ev, 6)
    BY DEF DeclaresOnce
  <2> HIDE DEF ev
  <2>2. Declares(ev)
    BY <2>1, DeclaredOnce
  <2> QED
    BY <2>2 DEF ev
<1> QED
  BY <1>1, <1>2, <1>2a, <1>3, <1>4, <1>5, <1>6, <1>7, <1>8

LEMMA ApplicationOrdered ==
    ASSUME NEW evaluation, NEW requires, NEW notifies, NEW fixed, NEW boot,
           NEW m, m = Managed(evaluation, requires, notifies, fixed, boot),
           Declares(evaluation), EdgesAlongOrder(m)
    PROVE  Ordered(m)
<1>1. Members(m) \subseteq Listed(evaluation)
  BY DEF Managed, Members
<1>2. m.order = ManifestOrder(evaluation)
  BY DEF Managed
<1> QED
  BY <1>1, <1>2, FS_Subset DEF Declares, Ordered

LEMMA ReducedOrdered ==
    ASSUME NEW evaluation, NEW requires, NEW notifies, NEW repeats,
           NEW m, m = Application(evaluation, requires, notifies),
           Ordered(m)
    PROVE  Ordered(Reduced(m, repeats))
<1> DEFINE g == Reduced(m, repeats)
<1>1. g.requires = {e \in m.requires : e[1] \notin repeats /\ e[2] \notin repeats}
  BY DEF Application, Managed, Reduced
<1>2. /\ g.content = m.content \ repeats
      /\ g.services = m.services /\ g.execs = m.execs
      /\ g.notifies = {e \in m.notifies : e[1] \notin repeats /\ e[2] \notin repeats}
      /\ g.order = {e \in m.order : e[1] \notin repeats /\ e[2] \notin repeats}
  BY ReducedParts
<1> HIDE DEF g
<1>3. EdgesAlongOrder(g)
  BY <1>1, <1>2 DEF Ordered, EdgesAlongOrder, Edges, Members
<1>4. IsFiniteSet(Members(g))
  <2>1. Members(g) \subseteq Members(m)
    BY <1>2 DEF Members
  <2> QED
    BY <2>1, FS_Subset DEF Ordered
<1>5. StrictOrder(g.order)
  BY <1>2 DEF Ordered, StrictOrder
<1> QED
  BY <1>3, <1>4, <1>5 DEF Ordered, g

\* Every manifest is a catalog the compiler accepts: its require and notify
\* edges join resources it declares, along an order without cycles, so that
\* what is shown of well-formed catalogs is about each of them.
THEOREM ManifestsOrdered == \A g \in AllCatalogs \cup WholeCatalogs : Ordered(g)
<1> USE Lists
        DEF OnPackage, Restarting, EdgesAlongOrder, Edges, Members, Application, Managed
<1>1. EdgesAlongOrder(StandardApplication)
  BY Order4 DEF StandardApplication
<1>2. EdgesAlongOrder(lockingservicequeryserver)
  BY Order3 DEF lockingservicequeryserver
<1>3. EdgesAlongOrder(schemarepository)
  BY Order4 DEF schemarepository
<1>4. EdgesAlongOrder(dsreader)
  BY Order3 DEF dsreader
<1>5. EdgesAlongOrder(etlservice) /\ EdgesAlongOrder(etlservicemaintainer)
  BY Order2 DEF etlservice, etlservicemaintainer
<1>6. EdgesAlongOrder(selectionengine)
  BY Order4 DEF selectionengine
<1>7. EdgesAlongOrder(bigbrother)
  BY Order4 DEF bigbrother
<1>8. EdgesAlongOrder(schemaregistry)
  BY Order3 DEF schemaregistry
<1>9. EdgesAlongOrder(zookeeper)
  BY Order3 DEF zookeeper
<1>10. EdgesAlongOrder(heartbeat)
  BY Order3 DEF heartbeat
<1>11. EdgesAlongOrder(relateddataread)
  BY Order5 DEF relateddataread
<1>12. EdgesAlongOrder(kafka)
  BY Order5 DEF kafka
<1>13. EdgesAlongOrder(kafkarest)
  BY Order6 DEF kafkarest
<1> HIDE DEF Managed, EdgesAlongOrder
<1>14. /\ Ordered(StandardApplication) /\ Ordered(lockingservicequeryserver)
       /\ Ordered(schemarepository) /\ Ordered(dsreader)
  BY <1>1, <1>2, <1>3, <1>4, ManifestsDeclare, ApplicationOrdered
     DEF StandardApplication, lockingservicequeryserver, schemarepository, dsreader
<1>15. /\ Ordered(etlservice) /\ Ordered(etlservicemaintainer)
       /\ Ordered(selectionengine) /\ Ordered(bigbrother) /\ Ordered(schemaregistry)
  BY <1>5, <1>6, <1>7, <1>8, ManifestsDeclare, ApplicationOrdered
     DEF etlservice, etlservicemaintainer, selectionengine, bigbrother, schemaregistry
<1>16. /\ Ordered(zookeeper) /\ Ordered(heartbeat) /\ Ordered(relateddataread)
       /\ Ordered(kafka) /\ Ordered(kafkarest)
  BY <1>9, <1>10, <1>11, <1>12, <1>13, ManifestsDeclare, ApplicationOrdered
     DEF zookeeper, heartbeat, relateddataread, kafka, kafkarest
<1>17. /\ Ordered(ReducedRelateddata) /\ Ordered(ReducedKafkarest)
       /\ Ordered(ReducedKafka) /\ Ordered(ReducedSchemarepository)
  BY <1>14, <1>16, ReducedOrdered
     DEF relateddataread, kafkarest, kafka, schemarepository, ReducedRelateddata,
         ReducedKafkarest, ReducedKafka, ReducedSchemarepository
<1>18. \A g \in DatastoreCatalogs : Ordered(g)
  BY <1>14, <1>15
     DEF DatastoreCatalogs, userread, userwrite, userresponseread, userresponsewrite,
         messagestatsread, mobileread, mobilewrite, mobileresponseread,
         mobileresponsewrite, relateddatawrite, membershipwrite, metadatawrite,
         connectwrite, kpiread, usagestatsread, usagestatswrite
<1> QED
  BY <1>14, <1>15, <1>16, <1>17, <1>18
     DEF AllCatalogs, PartlyWatchedCatalogs, WholeCatalogs
=============================================================================
