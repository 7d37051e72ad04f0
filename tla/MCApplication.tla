--------------------------- MODULE MCApplication ---------------------------
(***************************************************************************)
(* A node with one daemon: every shape of application manifest, each under *)
(* hiera changes, failures, crashes and reboots.                           *)
(***************************************************************************)
EXTENDS PuppetAgent, ManifestCatalog, TLC

CONSTANTS v1, v2

MCVersions == {v1, v2}
MCSymmetry == Permutations(MCVersions)

MCContent == {"package", "conf", "default", "dropin", "logback", "unit", "mongodb"}
MCServices == {"service"}
MCExecs == {"reload"}

\* Manifests that follow the same pattern are the same graph.
DatastoreCatalogs ==
    {userread, userwrite, userresponseread, userresponsewrite, messagestatsread,
     mobileread, mobilewrite, mobileresponseread, mobileresponsewrite,
     relateddatawrite, membershipwrite, metadatawrite, connectwrite, kpiread,
     usagestatsread, usagestatswrite, lockingservicequeryserver,
     dsreader, etlservice, etlservicemaintainer}

\* Manifests that leave some of what the daemon reads without a notify.
PartlyWatchedCatalogs ==
    {selectionengine, bigbrother, schemaregistry, zookeeper, heartbeat}

\* Manifests with more files, without those that have the edges of another.
ReducedRelateddata == Reduced(relateddataread, {"default"})
ReducedKafkarest == Reduced(kafkarest, {"conf", "runclass"})
ReducedKafka == Reduced(kafka, {"conf"})
ReducedSchemarepository == Reduced(schemarepository, {"conf"})

AllCatalogs ==
    DatastoreCatalogs \cup PartlyWatchedCatalogs
        \cup {ReducedKafka, ReducedRelateddata, ReducedKafkarest, ReducedSchemarepository}

\* The manifests that the runs only see reduced.
WholeCatalogs == {relateddataread, kafkarest, kafka, schemarepository}

\* The node is given one of these manifests.
ASSUME KnownManifests == Catalogs \subseteq AllCatalogs \cup WholeCatalogs

SmallCatalogs == {lockingservicequeryserver, bigbrother, schemaregistry, etlservice}

\* The manifest a graph stands for.
Manifest(g) ==
    CASE g = ReducedRelateddata -> relateddataread
      [] g = ReducedKafkarest   -> kafkarest
      [] g = ReducedKafka       -> kafka
      [] OTHER                  -> g

\* A daemon is out of date with the disk only through an event that is queued
\* or was dropped, or in one of the reads its manifest is known not to watch:
\* a notify lost from any other manifest would show here.
StaleOnlyWhereUnwatched ==
    \A e \in graph.reads :
        /\ Live(e[2])
        /\ seen[e[2]][e[1]] # actual[e[1]]
        => e \in pending \cup lost \/ <<Manifest(graph), e>> \in UnwatchedReads

\* The broker is started by the agent only after systemd has re-read the
\* drop-in that carries its environment, unless that reload was lost: nothing
\* but manifest order puts daemon-reload before the service.
BrokerStartsReloaded ==
    [][(/\ graph \in {kafka, ReducedKafka}
        /\ "service" \notin up /\ "service" \in up' /\ phase' = "run") =>
          \/ seen["reload"]["dropin"] = actual["dropin"]
          \/ <<"dropin", "reload">> \in lost]_vars
=============================================================================
