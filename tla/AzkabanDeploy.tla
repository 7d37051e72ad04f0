--------------------------- MODULE AzkabanDeploy ---------------------------
(***************************************************************************)
(* azkaban::config on the Azkaban node: the packages and configuration of  *)
(* one project are put on disk, zipped and uploaded to the Azkaban server, *)
(* and its flow is scheduled.  The zip, the upload and the schedule are    *)
(* refreshonly execs; what they do to the archive and to the server is     *)
(* added here to the steps of the agent (PuppetAgent).                     *)
(***************************************************************************)
EXTENDS PuppetAgent, DeclarationOrder

\* "jobs" are the packages under components['jobs'], which install below
\* /opt/azkaban-config-<project>; "conf" are the files and templates of a flow
\* that lie there too, "appconf" those that lie below the directory of the
\* flow's own package, "confpackage"; "schedulefile" holds its span.
FlowParts == {"confpackage", "conf", "appconf", "schedulefile"}
DeployContent == {"jobs"} \cup FlowParts
DeployExecs == {"schedule", "archive", "upload"}

\* What the zip sees: the directory of the project.
ProjectContent == {"jobs", "conf"}

\* (variant with a mistake: the upload is declared before the zip)
UploadBeforeArchive ==
    <<"jobs", "confpackage", "conf", "appconf", "schedulefile",
      "schedule", "upload", "archive">>

\* The order of declaration: the schedule of a flow precedes the upload of
\* its project, which is declared after the loop over flows.
DeployOrder ==
    <<"jobs", "confpackage", "conf", "appconf", "schedulefile",
      "schedule", "archive", "upload">>

\* One project with one flow.  Each part of the flow is declared if hiera has
\* it, whatever else it has: there are flows with files and without a package.
FlowContent(parts) == {"jobs"} \cup (parts \cap FlowParts)

\* What a file requires and what it notifies does not depend on where it lies.
ProjectGraph(content, notifies) ==
    [content   |-> content,
     versioned |-> content,
     services  |-> {},
     boot      |-> {},
     execs     |-> DeployExecs,
     requires  |-> ({"jobs", "confpackage"} \X {"conf", "appconf"}) \cap (content \X content),
     notifies  |-> notifies \cap (content \X DeployExecs),
     needs     |-> ({"jobs"} \X {"conf", "archive"})
                       \cup ({<<"confpackage", "appconf">>} \cap (content \X content)),
     reads     |-> {},
     order     |-> ManifestOrder(DeployOrder)]

\* (variants with a mistake: what the comment of the class says, only
\* packages notify the upload; the schedule file notifies nobody)
ConfigOnlyPackagesNotify(parts) ==
    ProjectGraph(FlowContent(parts),
                 ({"jobs"} \X {"archive", "upload"}) \cup {<<"schedulefile", "schedule">>})
ConfigSilentSchedule(parts) ==
    ProjectGraph(FlowContent(parts), {"jobs", "conf", "appconf"} \X {"archive", "upload"})

config(parts) ==
    ProjectGraph(FlowContent(parts),
                 ({"jobs", "conf", "appconf"} \X {"archive", "upload"})
                     \cup {<<"schedulefile", "schedule">>})

\* The node is given nothing but this project, with a flow of any parts.
ASSUME ProjectCatalogs ==
    /\ Content = DeployContent
    /\ Services = {}
    /\ Execs = DeployExecs
    /\ Catalogs \subseteq {config(parts) : parts \in SUBSET FlowParts}

VARIABLES
    archive,    \* /tmp/<project>.zip
    published,  \* the project on the Azkaban server
    scheduled,  \* the span the flow is scheduled with on the server
    compiled    \* history: the project, as the zip sees it, of every catalog compiled

deployVars == <<archive, published, scheduled, compiled>>
allVars == <<vars, deployVars>>

\* The project of a snapshot is the part of it that lies in the directory that
\* is zipped.
Project(snapshot) ==
    [c \in ProjectContent |-> IF c \in graph.content THEN snapshot[c] ELSE Absent]
NoProject == [c \in ProjectContent |-> Absent]

DeployTypeOK ==
    /\ TypeOK
    /\ archive \in [ProjectContent -> Versions \cup {Absent}]
    /\ published \in [ProjectContent -> Versions \cup {Absent}]
    /\ scheduled \in Versions \cup {Absent}
    /\ compiled \subseteq [ProjectContent -> Versions \cup {Absent}]

DeployInit ==
    /\ Init
    /\ archive = NoProject
    /\ published = NoProject
    /\ scheduled = Absent
    /\ compiled = {}

-----------------------------------------------------------------------------
Compile ==
    /\ StartRun
    /\ compiled' = compiled \cup {Project(desired)}
    /\ UNCHANGED <<archive, published, scheduled>>

\* (variant with a mistake: the zip is made of /opt)
ArchiveEverything ==
    /\ ExecRuns("archive")
    /\ archive' = actual
    /\ UNCHANGED <<published, scheduled, compiled>>

\* zip -FSr in /opt/azkaban-config-<project>: the archive is made to match that
\* directory.  The flow's own package and the files below it are not in it.
CreateArchive ==
    /\ ExecRuns("archive")
    /\ archive' = Project(actual)
    /\ UNCHANGED <<published, scheduled, compiled>>

\* azkaban upload -c, the client that pip installs: the project is created if
\* need be; what is uploaded is the archive, whichever run made it.
UploadProject ==
    /\ ExecRuns("upload")
    /\ archive # NoProject
    /\ published' = archive
    /\ UNCHANGED <<archive, scheduled, compiled>>

\* azkaban_cli_td schedule, the repository's own client: only a flow the server
\* knows can be scheduled.
ScheduleFlow ==
    /\ ExecRuns("schedule")
    /\ published # NoProject
    /\ scheduled' = actual["schedulefile"]
    /\ UNCHANGED <<archive, published, compiled>>

\* The command of exec e cannot succeed in this state.
Hopeless(e) ==
    \/ e = "upload" /\ archive = NoProject
    \/ e = "schedule" /\ published = NoProject

\* Steps of the agent that touch neither the archive nor the server.
DeployStep ==
    \/ Compile
    \/ CreateArchive
    \/ UploadProject
    \/ ScheduleFlow
    \/ /\ \/ EndRun
          \/ \E r \in Resources : Skip(r)
          \/ \E c \in Content : ApplyContent(c)
          \/ \E c \in Content : ContentFails(c) /\ ~Applicable(c)
          \/ \E e \in Execs : ExecIdle(e)
          \/ \E e \in Execs : ExecFails(e) /\ Hopeless(e)
       /\ UNCHANGED deployVars

DeployDisturbance ==
    /\ \/ \E c \in Content : HieraChange(c)
       \/ \E c \in Content : ContentFails(c)
       \/ \E e \in Execs : ExecFails(e)
       \/ AgentCrash
       \/ Reboot
    /\ UNCHANGED deployVars

DeployNext == DeployStep \/ DeployDisturbance

DeploySpec == DeployInit /\ [][DeployNext]_allVars

\* The agent's runs go on.  On a calm node nothing fails that can succeed,
\* and hiera may still change.
FairDeploySpec == DeploySpec /\ WF_allVars(DeployStep)

CalmNext ==
    \/ DeployStep
    \/ UNCHANGED deployVars /\ \E c \in Content : HieraChange(c)

CalmSpec == DeployInit /\ [][CalmNext]_allVars /\ WF_allVars(DeployStep)

-----------------------------------------------------------------------------
\* The jobs and files on the server differ from those in the project's directory
\* only while an event for the zip or the upload is queued, or after one was
\* dropped -- by a failure of a file that is never zipped, for one.  Which
\* event it was cannot be told from what is stale: the two execs are not
\* joined by an edge, and a failed zip is followed by the upload of the old
\* one.
PublishedStaleHasCause ==
    (\E c \in ProjectContent : published[c] # actual[c]) =>
        \E e \in pending \cup lost : e[2] \in {"archive", "upload"}

\* The schedule on the server is the one on disk unless its event is queued
\* or was dropped.
ScheduleStaleHasCause ==
    ("schedulefile" \in graph.content /\ scheduled # actual["schedulefile"]) =>
        <<"schedulefile", "schedule">> \in pending \cup lost

\* An upload publishes the project of its own run's catalog, as far as the zip
\* sees it, unless the zip of that run did not come about.
UploadPublishesRun ==
    [][published' # published =>
          \/ published' = Project(catalog)
          \/ status["archive"] \in {"failed", "skipped"}]_allVars

\* The deployment implements the server's view of it: although the files are
\* written one by one, in runs that fail, crash and begin again, and zipped and
\* uploaded by execs that no edge joins, an archive is always the jobs and the
\* zipped files of one catalog, that of its run, never those of two; the server
\* only ever has what was in one, and the flow only ever a span that was compiled
\* last when it was scheduled.
Server == INSTANCE ProjectServer WITH
    Projects <- [ProjectContent -> Versions \cup {Absent}],
    Spans <- Versions,
    NoSpan <- Absent,
    latest <- IF compiled = {} THEN NoProject ELSE Project(catalog),
    span <- IF compiled = {} THEN Absent ELSE catalog["schedulefile"]
ImplementsProjectServer == Server!Spec

\* Once hiera is left alone and nothing fails that can succeed, the server
\* gets the jobs and zipped files hiera asks for, unless an event of the zip or
\* of the upload was dropped before.
Deployed ==
    (\E e \in lost : e[2] # "schedule")
        \/ \A c \in ProjectContent \cap graph.content : published[c] = desired[c]
EventuallyDeployed == <>[][DeployStep]_allVars => <>[]Deployed

\* The comment of config.pp (line 64): a flow whose schedule is not empty is
\* scheduled, here with the span hiera asks for once hiera is left alone.
FlowScheduled ==
    "schedulefile" \in graph.content => scheduled = desired["schedulefile"]
ScheduleApplied == <>[][DeployStep]_allVars => <>[]FlowScheduled
=============================================================================
