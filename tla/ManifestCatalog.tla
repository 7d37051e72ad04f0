-------------------------- MODULE ManifestCatalog --------------------------
(***************************************************************************)
(* The resource graphs of the manifests that manage a daemon, one          *)
(* definition per manifest, as PuppetAgent wants them.  Files with the     *)
(* same edges are one resource: "conf" stands for application.conf,        *)
(* logback.xml and what else a manifest declares the same way.  apt::pin,  *)
(* motd and the directories that only files require are left out.          *)
(***************************************************************************)
EXTENDS DeclarationOrder

\* An application whose daemon "service" reads all of its content that hiera
\* may change, which is all but what is "fixed" by the manifest; a daemon and
\* the files below /opt/<app> need the package on disk.
Managed(evaluation, requires, notifies, fixed, boot) ==
    LET members == Listed(evaluation)
        content == members \ {"service", "reload"}
    IN [content   |-> content,
        versioned |-> content \ fixed,
        services  |-> members \cap {"service"},
        boot      |-> members \cap boot,
        execs     |-> members \cap {"reload"},
        requires  |-> requires,
        notifies  |-> notifies,
        needs     |-> {"package"} \X (members \cap {"conf", "logback", "service"}),
        reads     |-> (content \ fixed) \X (members \cap {"service"}),
        order     |-> ManifestOrder(evaluation)]

\* All of it in hiera, and the service with enable => true.
Application(evaluation, requires, notifies) ==
    Managed(evaluation, requires, notifies, {}, {"service"})

OnPackage(resources) == {"package"} \X resources
Restarting(content) == content \X {"service"}

-----------------------------------------------------------------------------
\* DataStore applications.

\* (variant with a mistake: the configuration files do not notify)
StandardWithoutConfNotify ==
    Application(<<"package", "conf", "default", "service">>,
                OnPackage({"conf", "service"}),
                Restarting({"package", "default"}))

\* The pattern most manifests follow; /etc/default/<app> notifies but does
\* not require the package.
StandardApplication ==
    Application(<<"package", "conf", "default", "service">>,
                OnPackage({"conf", "service"}),
                Restarting({"package", "conf", "default"}))

userread            == StandardApplication
userwrite           == StandardApplication
userresponseread    == StandardApplication
userresponsewrite   == StandardApplication
messagestatsread    == StandardApplication
mobileread          == StandardApplication
mobilewrite         == StandardApplication
mobileresponseread  == StandardApplication
mobileresponsewrite == StandardApplication
relateddatawrite    == StandardApplication
membershipwrite     == StandardApplication
metadatawrite       == StandardApplication
connectwrite        == StandardApplication
kpiread             == StandardApplication
usagestatsread      == StandardApplication
usagestatswrite     == StandardApplication

\* (variant with a mistake: logback.xml has lost its notify too)
RelateddatareadSilent ==
    Application(<<"package", "conf", "logback", "default", "service">>,
                OnPackage({"conf", "logback", "service"}),
                Restarting({"package", "default"}))

\* application.conf has no notify here, logback.xml has one.
relateddataread ==
    Application(<<"package", "conf", "logback", "default", "service">>,
                OnPackage({"conf", "logback", "service"}),
                Restarting({"package", "logback", "default"}))

\* No file requires the package.
schemarepository ==
    Application(<<"package", "conf", "default", "service">>,
                OnPackage({"service"}),
                Restarting({"package", "conf", "default"}))

lockingservicequeryserver ==
    Application(<<"package", "conf", "service">>,
                OnPackage({"service"}),
                Restarting({"package", "conf"}))

\* (variant with a mistake: the configuration files do not notify either)
SelectionengineWithoutConfNotify ==
    Application(<<"package", "dropin", "conf", "service">>,
                OnPackage({"conf", "service"}),
                Restarting({"package"}))

\* The systemd drop-in neither requires nor notifies anything.
selectionengine ==
    Application(<<"package", "dropin", "conf", "service">>,
                OnPackage({"conf", "service"}),
                Restarting({"package", "conf"}))

\* The package, which requires the class of the database as a whole, does not
\* notify, and the service requires nothing by itself and is not enabled.
bigbrother ==
    Managed(<<"mongodb", "package", "conf", "service">>,
            OnPackage({"conf"}) \cup {<<"mongodb", "package">>},
            Restarting({"conf"}),
            {"mongodb"}, {})

\* The service resources of these manifests are commented out.
dsreader ==
    Application(<<"package", "dropin", "conf">>, OnPackage({"conf"}), {})

etlservice           == Application(<<"package", "conf">>, OnPackage({"conf"}), {})
etlservicemaintainer == Application(<<"package", "conf">>, OnPackage({"conf"}), {})

-----------------------------------------------------------------------------
\* Queue and infrastructure daemons.

\* (variant with a mistake: daemon-reload declared after the service)
KafkaReloadLast ==
    Application(<<"package", "conf", "dropin", "service", "reload">>,
                {"conf", "dropin"} \X {"service"},
                {<<"dropin", "reload">>})

\* No content restarts the broker: an operator does.  daemon-reload is
\* notified by the drop-in and precedes the service by manifest order alone.
\* The log directories have the edges of "conf".
kafka ==
    Application(<<"package", "conf", "dropin", "reload", "service">>,
                {"conf", "dropin"} \X {"service"},
                {<<"dropin", "reload">>})

\* "runclass" and "unit" are files outside the package's directory; the
\* rsyslog snippet "default" restarts the daemon, the package does not.
kafkarest ==
    Application(<<"package", "conf", "runclass", "unit", "default", "service">>,
                OnPackage({"conf"}) \cup {"unit", "default"} \X {"service"},
                Restarting({"conf", "runclass", "default"}))

schemaregistry ==
    Application(<<"package", "conf", "service">>, {}, {})

\* Class['zookeeper::install'] -> Class['zookeeper::config'].
zookeeper ==
    Application(<<"package", "conf", "service">>, OnPackage({"conf", "service"}), {})

\* ensure => installed, which never upgrades, and no enable.
heartbeat ==
    Managed(<<"package", "conf", "service">>,
            OnPackage({"conf"}) \cup {<<"conf", "service">>}, {},
            {"package"}, {})

-----------------------------------------------------------------------------
\* Classes that meet on one node.

\* Both applications' resources in one graph; "batch_*" or "stats_*" are the
\* second one's.
WithSecond(first, evaluation, content, service, requires, notifies, needs, reads) ==
    [content   |-> first.content \cup content,
     versioned |-> first.versioned \cup content,
     services  |-> first.services \cup {service},
     boot      |-> first.boot \cup {service},
     execs     |-> first.execs,
     requires  |-> first.requires \cup requires,
     notifies  |-> first.notifies \cup notifies,
     needs     |-> first.needs \cup needs,
     reads     |-> first.reads \cup reads,
     order     |-> ManifestOrder(evaluation)]

\* The batch class installs no package: it links to the binaries of the read
\* application, whose class it requires as a whole, and only its own files
\* notify its service.
WithBatch(read, evaluation) ==
    WithSecond(read,
               evaluation \o <<"batch_init", "batch_conf", "batch_service">>,
               {"batch_init", "batch_conf"},
               "batch_service",
               Listed(evaluation) \X {"batch_init", "batch_conf", "batch_service"},
               {"batch_init", "batch_conf"} \X {"batch_service"},
               {"package", "batch_init"} \X {"batch_service"},
               {"package", "batch_init", "batch_conf"} \X {"batch_service"})

\* (variants with a mistake: the init script notifies nothing, or the service
\* of the read application)
UserreadbatchSilentInit ==
    WithSecond(userread,
               <<"package", "conf", "default", "service",
                 "batch_init", "batch_conf", "batch_service">>,
               {"batch_init", "batch_conf"},
               "batch_service",
               {"package", "conf", "default", "service"}
                   \X {"batch_init", "batch_conf", "batch_service"},
               {<<"batch_conf", "batch_service">>},
               {"package", "batch_init"} \X {"batch_service"},
               {"package", "batch_init", "batch_conf"} \X {"batch_service"})
UserreadbatchWrongNotify ==
    WithSecond(userread,
               <<"package", "conf", "default", "batch_init", "service",
                 "batch_conf", "batch_service">>,
               {"batch_init", "batch_conf"},
               "batch_service",
               {"package", "conf", "default", "service"} \X {"batch_conf", "batch_service"},
               {<<"batch_init", "service">>, <<"batch_conf", "batch_service">>},
               {"package", "batch_init"} \X {"batch_service"},
               {"package", "batch_init", "batch_conf"} \X {"batch_service"})

userreadbatch ==
    WithBatch(userread, <<"package", "conf", "default", "service">>)

relateddatareadbatch ==
    WithBatch(relateddataread, <<"package", "conf", "logback", "default", "service">>)

\* (variant with a mistake: the configuration notifies user-read as well)
StatscollectorWrongNotify ==
    WithSecond(userread,
               <<"package", "conf", "default",
                 "stats_package", "stats_conf", "service", "stats_service">>,
               {"stats_package", "stats_conf"},
               "stats_service",
               {"stats_package"} \X {"stats_conf", "stats_service"},
               {"stats_package", "stats_conf"} \X {"service"},
               {"stats_package"} \X {"stats_conf", "stats_service"},
               {"stats_package", "stats_conf"} \X {"stats_service"})

\* The package of the stats collector notifies the service of user-read,
\* which therefore waits for it, and no package restarts the collector.
statscollector ==
    WithSecond(userread,
               <<"package", "conf", "default",
                 "stats_package", "service", "stats_conf", "stats_service">>,
               {"stats_package", "stats_conf"},
               "stats_service",
               {"stats_package"} \X {"stats_conf", "stats_service"},
               {<<"stats_package", "service">>, <<"stats_conf", "stats_service">>},
               {"stats_package"} \X {"stats_conf", "stats_service"},
               {"stats_package", "stats_conf"} \X {"stats_service"})

\* A graph without the resources whose edges repeat those of another one.
Reduced(g, repeats) ==
    LET Kept(edges) == {e \in edges : e[1] \notin repeats /\ e[2] \notin repeats}
    IN [g EXCEPT !.content = @ \ repeats, !.versioned = @ \ repeats,
                 !.requires = Kept(@), !.notifies = Kept(@), !.needs = Kept(@),
                 !.reads = Kept(@), !.order = Kept(@)]

-----------------------------------------------------------------------------
\* What a daemon reads and its manifest does not watch, manifest by manifest.
UnwatchedReads ==
    ({relateddataread, relateddatareadbatch} \X {<<"conf", "service">>})
    \cup ({userreadbatch, relateddatareadbatch} \X {<<"package", "batch_service">>})
    \cup ({selectionengine} \X {<<"dropin", "service">>})
    \cup ({bigbrother} \X {<<"package", "service">>})
    \cup ({kafkarest} \X Restarting({"package", "unit"}))
    \cup ({kafka} \X Restarting({"package", "conf", "dropin"}))
    \cup ({schemaregistry, zookeeper} \X Restarting({"package", "conf"}))
    \cup ({heartbeat} \X {<<"conf", "service">>})
    \cup ({statscollector} \X {<<"stats_package", "stats_service">>})
=============================================================================
