------------------------ MODULE AzkabanDeployProofs ------------------------
(***************************************************************************)
(* What the deployment of a project guarantees whatever versions hiera     *)
(* asks for, whichever flows the project has, and whatever fails.  Every   *)
(* step of the deployment is a step of the agent, so that what             *)
(* PuppetAgentProofs shows of the agent holds here too.                    *)
(***************************************************************************)
EXTENDS AzkabanDeploy, PuppetAgentProofs

\* What the manifest declares earlier is evaluated earlier.
LEMMA DeclaredInOrder ==
    /\ \A i, j \in 1..8 : i < j => <<DeployOrder[i], DeployOrder[j]>> \in ManifestOrder(DeployOrder)
    /\ DeployOrder[1] = "jobs" /\ DeployOrder[2] = "confpackage"
    /\ DeployOrder[3] = "conf" /\ DeployOrder[4] = "appconf"
    /\ DeployOrder[5] = "schedulefile" /\ DeployOrder[6] = "schedule"
    /\ DeployOrder[7] = "archive" /\ DeployOrder[8] = "upload"
<1>1. Len(DeployOrder) = 8
  BY DEF DeployOrder
<1>2. ASSUME NEW i \in 1..8, NEW j \in 1..8, i < j
      PROVE  <<DeployOrder[i], DeployOrder[j]>> \in ManifestOrder(DeployOrder)
  BY <1>1, <1>2, Earlier
<1>3. /\ DeployOrder[1] = "jobs" /\ DeployOrder[2] = "confpackage"
      /\ DeployOrder[3] = "conf" /\ DeployOrder[4] = "appconf"
      /\ DeployOrder[5] = "schedulefile" /\ DeployOrder[6] = "schedule"
      /\ DeployOrder[7] = "archive" /\ DeployOrder[8] = "upload"
  BY DEF DeployOrder
<1> QED
  BY <1>2, <1>3

\* The declaration order says: content, then the zip, then the upload.
LEMMA DeclaredBefore ==
    ASSUME NEW parts
    PROVE  /\ \A c \in DeployContent : <<c, "archive">> \in config(parts).order
           /\ <<"archive", "upload">> \in config(parts).order
<1> DEFINE g == config(parts)
<1>1. g.order = ManifestOrder(DeployOrder)
  BY DEF config, ProjectGraph
<1>2. <<"jobs", "archive">> \in g.order
  BY <1>1, DeclaredInOrder
<1>3. <<"confpackage", "archive">> \in g.order
  BY <1>1, DeclaredInOrder
<1>4. <<"conf", "archive">> \in g.order /\ <<"appconf", "archive">> \in g.order
  BY <1>1, DeclaredInOrder
<1>5. <<"schedulefile", "archive">> \in g.order
  BY <1>1, DeclaredInOrder
<1>6. <<"archive", "upload">> \in g.order
  BY <1>1, DeclaredInOrder
<1> QED
  BY <1>2, <1>3, <1>4, <1>5, <1>6 DEF DeployContent, FlowParts

\* The content that notifies the zip and the upload.
Notifiers == {"jobs", "conf", "appconf"}

\* What the manifest declares, in the form the proofs use.
LEMMA ProjectFacts ==
    ASSUME NEW g \in Catalogs
    PROVE  /\ g.content \subseteq DeployContent
           /\ g.execs = DeployExecs
           /\ "jobs" \in g.content
           /\ \A c \in Notifiers \cap g.content :
                  <<c, "archive">> \in g.notifies /\ <<c, "upload">> \in g.notifies
           /\ \A e \in g.notifies :
                  e[2] \in {"archive", "upload"} => e[1] \in Notifiers
           /\ "schedulefile" \in g.content =>
                  <<"schedulefile", "schedule">> \in g.notifies
           /\ \A e \in g.notifies : e[2] = "schedule" => e[1] = "schedulefile"
           /\ g.notifies \subseteq g.content \X DeployExecs
           /\ \A c \in DeployContent : <<c, "archive">> \in g.order
           /\ <<"archive", "upload">> \in g.order
<1>1. PICK parts \in SUBSET FlowParts : g = config(parts)
  BY ProjectCatalogs
<1>2. /\ g.content = FlowContent(parts)
      /\ g.execs = DeployExecs
      /\ g.notifies = (({"jobs", "conf", "appconf"} \X {"archive", "upload"})
                          \cup {<<"schedulefile", "schedule">>})
                          \cap (g.content \X DeployExecs)
  BY <1>1 DEF config, ProjectGraph
<1>3. g.content \subseteq DeployContent /\ "jobs" \in g.content
  BY <1>2 DEF FlowContent, DeployContent
<1>4. /\ \A c \in Notifiers \cap g.content :
             <<c, "archive">> \in g.notifies /\ <<c, "upload">> \in g.notifies
      /\ "schedulefile" \in g.content => <<"schedulefile", "schedule">> \in g.notifies
  BY <1>2 DEF DeployExecs, Notifiers
<1>5. /\ \A e \in g.notifies :
             e[2] \in {"archive", "upload"} => e[1] \in Notifiers
      /\ \A e \in g.notifies : e[2] = "schedule" => e[1] = "schedulefile"
  BY <1>2 DEF Notifiers
<1> QED
  BY <1>1, <1>2, <1>3, <1>4, <1>5, DeclaredBefore

\* The actions of a step of the deployment: the three that work on the
\* archive and the server, the compilation, and those that leave both alone.
LEMMA DeployNextCases ==
    ASSUME DeployNext
    PROVE  \/ Compile
           \/ CreateArchive
           \/ UploadProject
           \/ ScheduleFlow
           \/ /\ \/ \E c \in Content : HieraChange(c)
                 \/ \E r \in Resources : Skip(r)
                 \/ \E c \in Content : ApplyContent(c)
                 \/ \E c \in Content : ContentFails(c)
                 \/ \E e \in Execs : ExecIdle(e)
                 \/ \E e \in Execs : ExecFails(e)
                 \/ EndRun
                 \/ AgentCrash
                 \/ Reboot
              /\ UNCHANGED deployVars
  BY DEF DeployNext, DeployStep, DeployDisturbance

\* The deployment is the agent of PuppetAgent with two things added to its
\* steps, the archive and the server: it has no behaviour of its own.
THEOREM DeployIsAnAgent == DeploySpec => Spec
<1>1. DeployInit => Init
  BY DEF DeployInit
<1>2. [DeployNext]_allVars => [Next]_vars
  <2>1. ASSUME UNCHANGED allVars PROVE UNCHANGED vars
    BY <2>1 DEF allVars
  <2>2. {"archive", "upload", "schedule"} \subseteq Execs
    BY ProjectCatalogs DEF DeployExecs
  <2>3. ASSUME DeployNext PROVE Next
    <3>1. CASE Compile
      BY <3>1 DEF Compile, Next, AgentStep
    <3>2. CASE CreateArchive
      BY <2>2, <3>2 DEF CreateArchive, Next, AgentStep
    <3>3. CASE UploadProject
      BY <2>2, <3>3 DEF UploadProject, Next, AgentStep
    <3>4. CASE ScheduleFlow
      BY <2>2, <3>4 DEF ScheduleFlow, Next, AgentStep
    <3>5. ASSUME NEW c \in Content, ContentFails(c) PROVE Next
      <4>1. CASE Applicable(c)
        BY <3>5, <4>1 DEF Next, Disturbance
      <4>2. CASE ~Applicable(c)
        BY <3>5, <4>2 DEF Next, AgentStep
      <4> QED
        BY <4>1, <4>2
    <3>6. CASE \/ EndRun
               \/ \E r \in Resources : Skip(r)
               \/ \E c \in Content : ApplyContent(c)
               \/ \E e \in Execs : ExecIdle(e)
      BY <3>6 DEF Next, AgentStep
    <3>7. CASE \/ \E c \in Content : HieraChange(c)
               \/ \E e \in Execs : ExecFails(e)
               \/ AgentCrash
               \/ Reboot
      BY <3>7 DEF Next, Disturbance
    <3> QED
      BY <2>3, <3>1, <3>2, <3>3, <3>4, <3>5, <3>6, <3>7, DeployNextCases
  <2> QED
    BY <2>1, <2>3
<1> QED
  BY <1>1, <1>2, PTL DEF DeploySpec, Spec

\* The types of the agent's variables and of the archive and the server:
\* nothing but versions hiera asked for, or nothing at all, gets published.
THEOREM DeployTypeCorrect == DeploySpec => []DeployTypeOK
<1> DEFINE Projects == [ProjectContent -> Versions \cup {Absent}]
           OwnTypes == /\ archive \in Projects
                       /\ published \in Projects
                       /\ scheduled \in Versions \cup {Absent}
                       /\ compiled \subseteq Projects
<1>1. ProjectContent \subseteq Content /\ "schedulefile" \in Content
  BY ProjectCatalogs DEF DeployContent, FlowParts, ProjectContent
<1>2. DeployInit => OwnTypes
  BY DEF DeployInit, NoProject
<1>3. ASSUME NEW s \in Snapshot PROVE Project(s) \in Projects
  BY <1>1 DEF Project, Snapshot
<1>4. TypeOK /\ OwnTypes /\ [DeployNext]_allVars => OwnTypes'
  <2> SUFFICES ASSUME TypeOK, OwnTypes, [DeployNext]_allVars PROVE OwnTypes'
    OBVIOUS
  <2>1. actual \in Snapshot /\ desired \in Snapshot
    BY DEF TypeOK, Snapshot
  <2>2. actual["schedulefile"] \in Versions \cup {Absent}
    BY <1>1, <2>1 DEF Snapshot
  <2>3. CASE Compile
    BY <1>3, <2>1, <2>3 DEF Compile
  <2>4. CASE CreateArchive
    BY <1>3, <2>1, <2>4 DEF CreateArchive
  <2>5. CASE UploadProject
    BY <2>5 DEF UploadProject
  <2>6. CASE ScheduleFlow
    BY <2>2, <2>6 DEF ScheduleFlow
  <2>7. CASE UNCHANGED deployVars
    BY <2>7 DEF deployVars
  <2> QED
    BY <2>3, <2>4, <2>5, <2>6, <2>7, DeployNextCases DEF allVars
<1>5. DeployTypeOK <=> TypeOK /\ OwnTypes
  BY DEF DeployTypeOK
<1> QED
  BY <1>2, <1>4, <1>5, DeployIsAnAgent, TypeCorrect, PTL DEF DeploySpec

-----------------------------------------------------------------------------
\* When the zip is made, the project on disk is that of the catalog: whatever
\* the zip sees notifies it, and so was applied in this run.
LEMMA ZipsTheCatalog ==
    ASSUME TypeOK, AppliedIsCatalog, Evaluate("archive")
    PROVE  Project(actual) = Project(catalog)
<1>1. /\ graph \in Catalogs
      /\ phase = "run"
      /\ "archive" \in Resources
    BY ProjectCatalogs DEF TypeOK, Evaluate, IsNext, Resources, DeployExecs
<1>2. graph.notifies \subseteq Edges(graph)
  BY DEF Edges
<1>3. graph.content \subseteq Resources /\ ProjectContent \subseteq Notifiers
  BY <1>1, GraphFacts DEF Members, ProjectContent, Notifiers
<1>4. \A c \in ProjectContent \cap graph.content : status[c] = "ok"
  BY <1>1, <1>2, <1>3, ProjectFacts DEF Evaluate, DependenciesOk
<1>5. \A c \in ProjectContent \cap graph.content : actual[c] = catalog[c]
  BY <1>1, <1>4 DEF AppliedIsCatalog
<1> QED
  BY <1>5 DEF Project

-----------------------------------------------------------------------------
\* What is on the server was, as far as the zip sees it, the project of one
\* catalog: no mix of the zipped files of one hiera state and the job packages
\* of another gets there, by way of an old archive either.
PublishedWasCompiled ==
    /\ archive # NoProject => archive \in compiled
    /\ published # NoProject => published \in compiled

\* The catalog of the current run is one of those compiled.
RunIsCompiled == phase = "run" => Project(catalog) \in compiled

LEMMA ArchiveIsWhole == DeploySpec => [](RunIsCompiled /\ PublishedWasCompiled)
<1> DEFINE Inv == RunIsCompiled /\ PublishedWasCompiled
<1>1. DeployInit => Inv
  BY DEF DeployInit, Init, RunIsCompiled, PublishedWasCompiled
<1>2. /\ TypeOK /\ AppliedIsCatalog
      /\ Inv /\ [DeployNext]_allVars
      => Inv'
  <2> SUFFICES ASSUME TypeOK, AppliedIsCatalog, Inv, [DeployNext]_allVars
               PROVE  Inv'
    OBVIOUS
  <2> USE DEF RunIsCompiled, PublishedWasCompiled, NoProject
  <2>1. CASE Compile
    BY <2>1 DEF Compile, StartRun, Project
  <2>2. CASE CreateArchive
    <3>1. Evaluate("archive") /\ phase = "run"
      BY <2>2 DEF CreateArchive, ExecRuns, Evaluate, IsNext
    <3>2. archive' = Project(catalog)
      BY <2>2, <3>1, ZipsTheCatalog DEF CreateArchive
    <3>3. UNCHANGED <<phase, catalog, graph, published, compiled>>
      BY <2>2 DEF CreateArchive, ExecRuns
    <3> QED
      BY <3>1, <3>2, <3>3 DEF Project
  <2>3. CASE UploadProject
    BY <2>3 DEF UploadProject, ExecRuns, Project
  <2>4. CASE ScheduleFlow
    BY <2>4 DEF ScheduleFlow, ExecRuns, Project
  <2>5. ASSUME UNCHANGED deployVars, UNCHANGED <<graph, catalog>>,
               phase' \in {phase, "idle"}
        PROVE  Inv'
    BY <2>5 DEF deployVars, Project
  <2>6. ASSUME NEW c \in Content, HieraChange(c), UNCHANGED deployVars PROVE Inv'
    BY <2>5, <2>6 DEF HieraChange
  <2>7. ASSUME NEW r \in Resources, Skip(r), UNCHANGED deployVars PROVE Inv'
    BY <2>5, <2>7 DEF Skip
  <2>8. ASSUME NEW c \in Content, ApplyContent(c) \/ ContentFails(c),
               UNCHANGED deployVars
        PROVE  Inv'
    BY <2>5, <2>8 DEF ApplyContent, ContentFails
  <2>9. ASSUME NEW e \in Execs, ExecIdle(e) \/ ExecFails(e), UNCHANGED deployVars
        PROVE  Inv'
    BY <2>5, <2>9 DEF ExecIdle, ExecFails
  <2>10. CASE (EndRun \/ AgentCrash \/ Reboot) /\ UNCHANGED deployVars
    BY <2>5, <2>10 DEF EndRun, AgentCrash, Reboot
  <2>11. CASE UNCHANGED allVars
    BY <2>5, <2>11 DEF allVars, vars
  <2> QED
    BY <2>1, <2>2, <2>3, <2>4, <2>6, <2>7, <2>8, <2>9, <2>10, <2>11,
       DeployNextCases
<1> QED
  BY <1>1, <1>2, DeployIsAnAgent, TypeCorrect, AppliedStays, PTL DEF DeploySpec

\* For any versions and flows: the jobs and the zipped files in the archive, and
\* those on the server, were compiled together in one catalog, whatever failed,
\* crashed or changed in hiera between the zip and the upload.
THEOREM PublishedIsWhole == DeploySpec => []PublishedWasCompiled
  BY ArchiveIsWhole, PTL

-----------------------------------------------------------------------------
\* What a step does under the mapping of Server: nothing, unless it compiles a
\* catalog or runs one of the execs.
Unseen == UNCHANGED <<graph, catalog, deployVars>>

\* What is compiled is a project, and not the one the server begins without.
LEMMA CompiledIsSomething ==
    ASSUME graph \in Catalogs, NEW s \in [Content -> Versions]
    PROVE  /\ Project(s) \in [ProjectContent -> Versions \cup {Absent}]
           /\ Project(s) # NoProject
           /\ s["schedulefile"] \in Versions
           /\ s["schedulefile"] # Absent
<1>1. /\ "jobs" \in graph.content /\ "jobs" \in ProjectContent
      /\ ProjectContent \subseteq Content /\ "schedulefile" \in Content
  BY ProjectCatalogs, ProjectFacts DEF ProjectContent, DeployContent, FlowParts
<1>2. /\ s["jobs"] \in Versions /\ s["schedulefile"] \in Versions
      /\ \A c \in ProjectContent : s[c] \in Versions
  BY <1>1
<1>3. Project(s)["jobs"] = s["jobs"] /\ NoProject["jobs"] = Absent
  BY <1>1 DEF Project, NoProject
<1>4. Project(s) \in [ProjectContent -> Versions \cup {Absent}]
  BY <1>2 DEF Project
<1> QED
  BY <1>2, <1>3, <1>4, AbsentIsNoVersion

\* A flow is scheduled because its schedule file was written, in this run and
\* with the content of its catalog.
LEMMA SchedulesTheCatalog ==
    ASSUME TypeOK, AppliedIsCatalog, ExecRuns("schedule")
    PROVE  actual["schedulefile"] = catalog["schedulefile"]
<1>1. /\ graph \in Catalogs /\ pending \subseteq graph.notifies
      /\ phase = "run" /\ DependenciesOk("schedule")
  BY DEF TypeOK, ExecRuns, Evaluate, IsNext
<1>2. PICK e \in graph.notifies : e[2] = "schedule"
  BY <1>1 DEF ExecRuns, Incoming
<1>3. e[1] = "schedulefile"
  BY <1>1, <1>2, ProjectFacts
<1>4. /\ graph.notifies \subseteq graph.content \X DeployExecs
      /\ graph.notifies \subseteq Edges(graph)
      /\ graph.content \subseteq Resources
  <2>2. graph.notifies \subseteq graph.content \X DeployExecs
    BY <1>1, ProjectFacts
  <2>3. graph.notifies \subseteq Edges(graph)
    BY DEF Edges
  <2>4. graph.content \subseteq Resources
    BY <1>1, GraphFacts DEF Members
  <2> QED
    BY <2>2, <2>3, <2>4
<1>5. e = <<"schedulefile", "schedule">> /\ "schedulefile" \in graph.content
  BY <1>2, <1>3, <1>4
<1>6. status["schedulefile"] = "ok"
  BY <1>1, <1>4, <1>5 DEF DependenciesOk
<1> QED
  BY <1>1, <1>5, <1>6 DEF AppliedIsCatalog

\* For any versions and flows, the deployment is what the server sees of it in
\* ProjectServer: the archive is the last project compiled, whole, and the
\* flow has the span compiled last; all else of a run is a stutter.
THEOREM DeployRefines == DeploySpec => ImplementsProjectServer
<1> DEFINE Stays == UNCHANGED Server!vars
           IInv == /\ TypeOK
                   /\ AppliedIsCatalog
                   /\ RunIsCompiled
<1>1. DeployInit => Server!Init
  BY DEF DeployInit, Server!Init
<1>2. Unseen => Stays
  BY DEF Unseen, Server!vars, deployVars, Project
<1>3. IInv /\ [DeployNext]_allVars => [Server!Next]_(Server!vars)
  <2> SUFFICES ASSUME IInv, [DeployNext]_allVars PROVE Server!Next \/ Stays
    OBVIOUS
  <2>1. graph \in Catalogs /\ desired \in [Content -> Versions]
        /\ catalog \in [Content -> Versions]
    BY DEF TypeOK
  \* When an exec runs, there is a last catalog, and it is this run's.
  <2>2. ASSUME NEW x \in Execs, ExecRuns(x)
        PROVE  /\ Evaluate(x)
               /\ compiled # {}
               /\ UNCHANGED <<graph, catalog>>
    BY <2>2 DEF ExecRuns, Evaluate, IsNext, RunIsCompiled
  <2>3. {"schedule", "archive", "upload"} \subseteq Execs
    BY ProjectCatalogs DEF DeployExecs
  <2>4. CASE Compile
    <3>1. /\ catalog' = desired /\ graph' = graph
          /\ compiled' # {}
          /\ UNCHANGED <<archive, published, scheduled>>
      BY <2>4 DEF Compile, StartRun
    <3>2. Project(catalog)' = Project(desired)
      BY <3>1 DEF Project
    <3> QED
      BY <2>1, <3>1, <3>2, CompiledIsSomething DEF Server!Next, Server!Compile
  <2>5. CASE CreateArchive
    <3>1. /\ Evaluate("archive") /\ compiled # {} /\ compiled' = compiled
          /\ UNCHANGED <<graph, catalog, published, scheduled>>
          /\ archive' = Project(actual)
      BY <2>2, <2>3, <2>5 DEF CreateArchive
    <3>2. archive' = Project(catalog) /\ Project(catalog)' = Project(catalog)
      BY <3>1, ZipsTheCatalog DEF Project
    <3> QED
      BY <2>1, <3>1, <3>2, CompiledIsSomething DEF Server!Next, Server!Zip
  <2>6. CASE UploadProject
    <3>1. /\ compiled # {} /\ compiled' = compiled
          /\ UNCHANGED <<graph, catalog, archive, scheduled>>
          /\ archive # NoProject /\ published' = archive
      BY <2>2, <2>3, <2>6 DEF UploadProject
    <3>2. Project(catalog)' = Project(catalog)
      BY <3>1 DEF Project
    <3> QED
      BY <3>1, <3>2 DEF Server!Next, Server!Upload
  <2>7. CASE ScheduleFlow
    <3>1. /\ compiled # {} /\ compiled' = compiled
          /\ UNCHANGED <<graph, catalog, archive, published>>
          /\ published # NoProject /\ scheduled' = actual["schedulefile"]
      BY <2>2, <2>3, <2>7 DEF ScheduleFlow
    <3>2. Project(catalog)' = Project(catalog)
      BY <3>1 DEF Project
    <3>3. scheduled' = catalog["schedulefile"]
      BY <2>7, <3>1, SchedulesTheCatalog DEF ScheduleFlow
    <3> QED
      BY <2>1, <3>1, <3>2, <3>3, CompiledIsSomething DEF Server!Next, Server!Schedule
  <2>8. ASSUME UNCHANGED deployVars, UNCHANGED <<graph, catalog>> PROVE Stays
    BY <1>2, <2>8 DEF Unseen
  <2>9. ASSUME NEW c \in Content, HieraChange(c), UNCHANGED deployVars PROVE Stays
    BY <2>8, <2>9 DEF HieraChange
  <2>10. ASSUME NEW r \in Resources, Skip(r), UNCHANGED deployVars PROVE Stays
    BY <2>8, <2>10 DEF Skip
  <2>11. ASSUME NEW c \in Content, ApplyContent(c) \/ ContentFails(c),
                UNCHANGED deployVars
         PROVE  Stays
    BY <2>8, <2>11 DEF ApplyContent, ContentFails
  <2>12. ASSUME NEW e \in Execs, ExecIdle(e) \/ ExecFails(e), UNCHANGED deployVars
         PROVE  Stays
    BY <2>8, <2>12 DEF ExecIdle, ExecFails
  <2>13. CASE (EndRun \/ AgentCrash \/ Reboot) /\ UNCHANGED deployVars
    BY <2>8, <2>13 DEF EndRun, AgentCrash, Reboot
  <2>14. CASE UNCHANGED allVars
    BY <2>8, <2>14 DEF allVars, vars
  <2> QED
    BY <2>4, <2>5, <2>6, <2>7, <2>9, <2>10, <2>11, <2>12, <2>13, <2>14,
       DeployNextCases
<1>4. ImplementsProjectServer <=> Server!Init /\ [][Server!Next]_(Server!vars)
  BY DEF ImplementsProjectServer, Server!Spec
<1> QED
  BY <1>1, <1>3, <1>4, DeployIsAnAgent, TypeCorrect, AppliedStays,
     ArchiveIsWhole, PTL DEF DeploySpec

-----------------------------------------------------------------------------
\* What a step does to the events of the execs.  One that runs no exec keeps
\* them all, queued or as lost, and queues those of what it writes.
QuietStep ==
    \/ StartRun
    \/ \E c \in Content : HieraChange(c) \/ ApplyContent(c) \/ ContentFails(c)
    \/ \E r \in Resources : Skip(r)
    \/ \E e \in Execs : ExecIdle(e) \/ ExecFails(e)
    \/ EndRun \/ AgentCrash \/ Reboot
    \/ UNCHANGED vars

KeepsEvents ==
    /\ graph' = graph
    /\ \A e \in pending \cup lost : e[2] \in Execs => e \in pending' \cup lost'
    /\ \A c \in Content : actual'[c] # actual[c] =>
           c \in graph.content /\ Outgoing(c) \subseteq pending'

LEMMA QuietStepKeepsEvents ==
    ASSUME TypeOK, QuietStep
    PROVE  KeepsEvents
<1>1. actual \in [Content -> Versions \cup {Absent}]
  BY DEF TypeOK, Snapshot
<1>2. CASE StartRun \/ EndRun \/ UNCHANGED vars
  BY <1>2 DEF StartRun, EndRun, vars, KeepsEvents
<1>3. ASSUME NEW c \in Content, HieraChange(c) \/ ContentFails(c) PROVE KeepsEvents
  BY <1>3 DEF HieraChange, ContentFails, KeepsEvents
<1>4. ASSUME NEW c \in Content, ApplyContent(c) PROVE KeepsEvents
  BY <1>1, <1>4 DEF ApplyContent, KeepsEvents
<1>5. ASSUME NEW r \in Resources, Skip(r) PROVE KeepsEvents
  BY <1>5 DEF Skip, Dropped, Incoming, Live, KeepsEvents
<1>6. ASSUME NEW e \in Execs, ExecIdle(e) \/ ExecFails(e) PROVE KeepsEvents
  BY <1>6 DEF ExecIdle, ExecFails, KeepsEvents
<1>7. CASE AgentCrash \/ Reboot
  BY <1>7 DEF AgentCrash, Reboot, Dropped, Live, KeepsEvents
<1> QED
  BY <1>2, <1>3, <1>4, <1>5, <1>6, <1>7 DEF QuietStep

\* An exec that runs uses up its own events and no other.
LEMMA RunUsesItsEvents ==
    ASSUME NEW x \in Execs, ExecRuns(x)
    PROVE  /\ graph' = graph /\ actual' = actual /\ phase' = phase /\ catalog' = catalog
           /\ \A e \in pending \cup lost : e[2] # x => e \in pending' \cup lost'
  BY DEF ExecRuns, Incoming, LostBy

LEMMA DeploySteps ==
    ASSUME [DeployNext]_allVars
    PROVE  \/ CreateArchive
           \/ UploadProject
           \/ ScheduleFlow
           \/ QuietStep /\ UNCHANGED <<archive, published, scheduled>>
<1>1. CASE Compile
  BY <1>1 DEF Compile, QuietStep
<1>2. CASE UNCHANGED allVars
  BY <1>2 DEF allVars, deployVars, QuietStep
<1> QED
  BY <1>1, <1>2, DeployNextCases DEF QuietStep, deployVars

\* For any versions and flows: the schedule on the server is the one on disk
\* unless its event is queued or was dropped.
THEOREM ScheduleHasCause == DeploySpec => []ScheduleStaleHasCause
<1> DEFINE ev == <<"schedulefile", "schedule">>
<1>1. DeployInit => ScheduleStaleHasCause
  BY ProjectCatalogs DEF DeployInit, Init, Nothing, ScheduleStaleHasCause, DeployContent, FlowParts
<1>2. TypeOK /\ ScheduleStaleHasCause /\ [DeployNext]_allVars => ScheduleStaleHasCause'
  <2> SUFFICES ASSUME TypeOK, ScheduleStaleHasCause, [DeployNext]_allVars
               PROVE  ScheduleStaleHasCause'
    OBVIOUS
  <2>1. /\ graph \in Catalogs
        /\ "schedulefile" \in Content
        /\ {"schedule", "archive", "upload"} \subseteq Execs
        /\ ev[2] = "schedule"
    BY ProjectCatalogs DEF TypeOK, DeployContent, FlowParts, DeployExecs
  <2>2. CASE CreateArchive
    BY <2>1, <2>2, RunUsesItsEvents DEF CreateArchive, ScheduleStaleHasCause
  <2>3. CASE UploadProject
    BY <2>1, <2>3, RunUsesItsEvents DEF UploadProject, ScheduleStaleHasCause
  <2>4. CASE ScheduleFlow
    BY <2>1, <2>4, RunUsesItsEvents DEF ScheduleFlow, ScheduleStaleHasCause
  <2>5. CASE QuietStep /\ UNCHANGED <<archive, published, scheduled>>
    <3>1. KeepsEvents
      BY <2>5, QuietStepKeepsEvents
    <3>2. "schedulefile" \in graph.content => ev \in Outgoing("schedulefile")
      BY <2>1, ProjectFacts DEF Outgoing
    <3> QED
      BY <2>1, <2>5, <3>1, <3>2 DEF KeepsEvents, ScheduleStaleHasCause
  <2> QED
    BY <2>2, <2>3, <2>4, <2>5, DeploySteps
<1> QED
  BY <1>1, <1>2, DeployIsAnAgent, TypeCorrect, PTL DEF DeploySpec

-----------------------------------------------------------------------------
\* The zip and the upload have no edge between them.  What joins them is that
\* the same content notifies both and that the zip comes first: until the zip
\* is evaluated the two have the same events queued, and after it only the
\* upload can have any.
EventsPaired ==
    \A c \in Notifiers :
        /\ <<c, "archive">> \in pending => <<c, "upload">> \in pending
        /\ status["archive"] = "todo" /\ <<c, "upload">> \in pending =>
               <<c, "archive">> \in pending

LEMMA EventsStayPaired == Spec => []EventsPaired
<1>1. Init => EventsPaired
  BY DEF Init, EventsPaired
<1>2. TypeOK /\ EventInv /\ EventsPaired /\ [Next]_vars => EventsPaired'
  <2> SUFFICES ASSUME TypeOK, EventInv, EventsPaired, [Next]_vars
               PROVE  EventsPaired'
    OBVIOUS
  <2>1. /\ graph \in Catalogs
        /\ Services = {}
        /\ Execs = DeployExecs
        /\ {"archive", "upload"} \subseteq Resources
        /\ {"archive", "upload"} \subseteq Members(graph)
        /\ "archive" # "upload"
        /\ Content \cap {"archive", "upload"} = {}
        /\ status \in [Resources -> {"todo", "ok", "failed", "skipped"}]
        /\ pending \subseteq graph.notifies
    BY ProjectCatalogs, ProjectFacts, KindsDisjoint
       DEF TypeOK, DeployExecs, Resources, Members
  <2>2. EventsWithinRun /\ EvaluatedInOrder
    BY DEF EventInv
  <2>3. \A c \in Notifiers :
            <<c, "archive">> \in pending => status["archive"] = "todo"
    BY <2>2 DEF EventsWithinRun
  <2>4. IsNext("upload") => status["archive"] # "todo"
    BY <2>1, ProjectFacts DEF IsNext
  \* r is reported and its events are gone.
  <2>5. ASSUME NEW r \in Resources, IsNext(r),
               NEW res \in {"ok", "failed", "skipped"}, Report(r, res),
               pending' = pending \ Incoming(r)
        PROVE  EventsPaired'
    <3>1. CASE r = "archive"
      BY <2>1, <2>5, <3>1 DEF Report, Incoming, EventsPaired
    <3>2. CASE r = "upload"
      BY <2>1, <2>3, <2>4, <2>5, <3>2 DEF Report, Incoming, EventsPaired
    <3>3. CASE r \notin {"archive", "upload"}
      BY <2>1, <2>5, <3>3 DEF Report, Incoming, EventsPaired
    <3> QED
      BY <3>1, <3>2, <3>3
  <2>6. ASSUME NEW c \in Content, HieraChange(c) PROVE EventsPaired'
    BY <2>6 DEF HieraChange, EventsPaired
  <2>7. CASE StartRun
    BY <2>7 DEF StartRun, EventsPaired
  <2>8. ASSUME NEW r \in Resources, Skip(r) PROVE EventsPaired'
    BY <2>5, <2>8 DEF Skip
  <2>9. ASSUME NEW c \in Content, ApplyContent(c) PROVE EventsPaired'
    <3>1. status'["archive"] = status["archive"]
      BY <2>1, <2>9 DEF ApplyContent, Report, Resources
    <3>2. \A d \in Notifiers :
              <<d, "archive">> \in Outgoing(c) <=> <<d, "upload">> \in Outgoing(c)
      <4>1. ASSUME NEW d \in Notifiers, c = d
            PROVE  <<d, "archive">> \in Outgoing(c) /\ <<d, "upload">> \in Outgoing(c)
        BY <2>1, <2>9, <4>1, ProjectFacts DEF ApplyContent, Outgoing
      <4> QED
        BY <4>1 DEF Outgoing
    <3> QED
      BY <2>9, <3>1, <3>2 DEF ApplyContent, EventsPaired
  <2>10. ASSUME NEW c \in Content, ContentFails(c) PROVE EventsPaired'
    <3>1. status'["archive"] = status["archive"]
      BY <2>1, <2>10 DEF ContentFails, Report, Resources
    <3> QED
      BY <2>10, <3>1 DEF ContentFails, EventsPaired
  <2>11. ASSUME NEW e \in Execs, ExecIdle(e) \/ ExecRuns(e) \/ ExecFails(e)
         PROVE  EventsPaired'
    <3>1. e \in Resources /\ IsNext(e)
      BY <2>11 DEF ExecIdle, ExecRuns, ExecFails, Evaluate, Resources
    <3>2. pending' = pending \ Incoming(e)
      BY <2>11 DEF ExecIdle, ExecRuns, ExecFails
    <3>3. Report(e, "ok") \/ Report(e, "failed")
      BY <2>11 DEF ExecIdle, ExecRuns, ExecFails
    <3> QED
      BY <2>5, <3>1, <3>2, <3>3
  <2>12. CASE EndRun
    <3>1. \A c \in Notifiers :
              <<c, "archive">> \notin pending /\ <<c, "upload">> \notin pending
      BY <2>1, <2>2, <2>12 DEF EndRun, EventsWithinRun
    <3> QED
      BY <2>12, <3>1 DEF EndRun, EventsPaired
  <2>13. CASE AgentCrash \/ Reboot
    BY <2>13 DEF AgentCrash, Reboot, EventsPaired
  <2>14. CASE UNCHANGED vars
    BY <2>14 DEF vars, EventsPaired
  <2> QED
    BY NextCases, <2>1, <2>6, <2>7, <2>8, <2>9, <2>10, <2>11, <2>12, <2>13, <2>14
<1> QED
  BY <1>1, <1>2, TypeCorrect, EventDiscipline, PTL DEF Spec

\* The archive differs from the disk only while an event of the zip is queued
\* or after one was dropped; nothing is on disk that is not declared.
DeclaredOnDisk == \A c \in Content : c \notin graph.content => actual[c] = Absent

ArchiveStaleHasCause ==
    (\E c \in ProjectContent : archive[c] # actual[c]) =>
        \E e \in pending \cup lost : e[2] = "archive"

StalenessInv == DeclaredOnDisk /\ ArchiveStaleHasCause /\ PublishedStaleHasCause

\* For any versions and flows: the jobs and files on the server are those in the
\* project's directory unless an event of the zip or of the upload is queued or was dropped.
\* A zip that runs leaves the event of its upload behind; an upload leaves
\* what is wrong with the archive, whose event is then still there.
THEOREM PublishedHasCause == DeploySpec => []PublishedStaleHasCause
<1> USE DEF StalenessInv
<1>a. ProjectContent \subseteq Content /\ ProjectContent \subseteq Notifiers
  BY ProjectCatalogs DEF DeployContent, FlowParts, ProjectContent, Notifiers
<1>1. DeployInit => StalenessInv
  BY <1>a DEF DeployInit, Init, Nothing, NoProject, DeclaredOnDisk,
              ArchiveStaleHasCause, PublishedStaleHasCause
<1>2. TypeOK /\ EventsPaired /\ StalenessInv /\ [DeployNext]_allVars => StalenessInv'
  <2> SUFFICES ASSUME TypeOK, EventsPaired, StalenessInv, [DeployNext]_allVars
               PROVE  StalenessInv'
    OBVIOUS
  <2>1. /\ graph \in Catalogs
        /\ {"schedule", "archive", "upload"} \subseteq Execs
        /\ pending \subseteq graph.notifies
        /\ \A e \in graph.notifies : e[2] \in Receivers /\ e = <<e[1], e[2]>>
    BY ProjectCatalogs, GraphFacts DEF TypeOK, DeployExecs
  <2>2. CASE CreateArchive
    <3>1. /\ ExecRuns("archive")
          /\ archive' = Project(actual)
          /\ published' = published
      BY <2>2 DEF CreateArchive
    <3>2. graph' = graph /\ actual' = actual
      BY <2>1, <3>1, RunUsesItsEvents
    <3>3. \A c \in ProjectContent : archive'[c] = actual'[c]
      BY <1>a, <3>1, <3>2 DEF Project, DeclaredOnDisk
    <3>4. PICK e \in pending : e[2] = "archive"
      BY <3>1 DEF ExecRuns, Incoming
    <3>5. e[1] \in Notifiers /\ e = <<e[1], "archive">>
      BY <2>1, <3>4, ProjectFacts
    <3>6. <<e[1], "upload">> \in pending /\ <<e[1], "upload">>[2] = "upload"
      BY <3>4, <3>5 DEF EventsPaired
    <3>7. \E u \in pending' \cup lost' : u[2] = "upload"
      BY <2>1, <3>1, <3>6, RunUsesItsEvents
    <3> QED
      BY <3>2, <3>3, <3>7
         DEF DeclaredOnDisk, ArchiveStaleHasCause, PublishedStaleHasCause
  <2>3. CASE UploadProject
    <3>1. /\ ExecRuns("upload")
          /\ published' = archive
          /\ archive' = archive
      BY <2>3 DEF UploadProject
    <3>2. graph' = graph /\ actual' = actual
      BY <2>1, <3>1, RunUsesItsEvents
    <3>3. ASSUME NEW c \in ProjectContent, archive[c] # actual[c]
          PROVE  \E e \in pending' \cup lost' : e[2] = "archive"
      BY <2>1, <3>1, <3>3, RunUsesItsEvents DEF ArchiveStaleHasCause
    <3> QED
      BY <3>1, <3>2, <3>3
         DEF DeclaredOnDisk, ArchiveStaleHasCause, PublishedStaleHasCause
  <2>4. CASE ScheduleFlow
    <3>1. ExecRuns("schedule") /\ UNCHANGED <<archive, published>>
      BY <2>4 DEF ScheduleFlow
    <3> QED
      BY <2>1, <3>1, RunUsesItsEvents
         DEF DeclaredOnDisk, ArchiveStaleHasCause, PublishedStaleHasCause
  <2>5. CASE QuietStep /\ UNCHANGED <<archive, published, scheduled>>
    <3>1. KeepsEvents
      BY <2>5, QuietStepKeepsEvents
    <3>2. DeclaredOnDisk'
      BY <3>1 DEF KeepsEvents, DeclaredOnDisk
    <3>3. ASSUME NEW c \in ProjectContent, actual'[c] # actual[c]
          PROVE  \E e \in pending' \cup lost' : e[2] = "archive"
      <4>1. <<c, "archive">> \in Outgoing(c) /\ <<c, "archive">>[2] = "archive"
        BY <1>a, <2>1, <3>1, <3>3, ProjectFacts DEF KeepsEvents, Outgoing
      <4> QED
        BY <1>a, <3>1, <3>3, <4>1 DEF KeepsEvents
    <3>4. ASSUME NEW e \in pending \cup lost, e[2] \in {"archive", "upload"}
          PROVE  e \in pending' \cup lost'
      BY <2>1, <3>1, <3>4 DEF KeepsEvents
    <3> QED
      BY <2>5, <3>2, <3>3, <3>4 DEF ArchiveStaleHasCause, PublishedStaleHasCause
  <2> QED
    BY <2>2, <2>3, <2>4, <2>5, DeploySteps
<1> QED
  BY <1>1, <1>2, DeployIsAnAgent, TypeCorrect, EventsStayPaired, PTL DEF DeploySpec

-----------------------------------------------------------------------------
\* Once the zip is evaluated and went well, an upload that is still to come
\* will find the catalog of its own run in the archive.
ArchiveOfThisRun ==
    (status["archive"] = "ok" /\ \E e \in pending : e[2] = "upload") =>
        archive = Project(catalog)

LEMMA ArchiveIsOfThisRun == DeploySpec => []ArchiveOfThisRun
<1>1. DeployInit => ArchiveOfThisRun
  BY DEF DeployInit, Init, ArchiveOfThisRun
<1>2. /\ TypeOK /\ EventInv /\ EventsPaired /\ AppliedIsCatalog
      /\ ArchiveOfThisRun /\ [DeployNext]_allVars
      => ArchiveOfThisRun'
  <2> SUFFICES ASSUME TypeOK, EventInv, EventsPaired, AppliedIsCatalog,
                      ArchiveOfThisRun, [DeployNext]_allVars
               PROVE  ArchiveOfThisRun'
    OBVIOUS
  <2>1. /\ graph \in Catalogs
        /\ {"schedule", "archive", "upload"} \subseteq Resources
        /\ "archive" \in Members(graph)
        /\ Content \subseteq DeployContent
        /\ Content \cap Execs = {}
        /\ Execs = DeployExecs
        /\ pending \subseteq graph.notifies
        /\ \A e \in graph.notifies : e = <<e[1], e[2]>>
        /\ status \in [Resources -> {"todo", "ok", "failed", "skipped"}]
    BY ProjectCatalogs, ProjectFacts, GraphFacts, KindsDisjoint
       DEF TypeOK, DeployExecs, Resources, Members
  <2>2. CASE CreateArchive
    <3>1. Evaluate("archive")
      BY <2>2 DEF CreateArchive, ExecRuns
    <3>2. archive' = Project(catalog)
      BY <2>2, <3>1, ZipsTheCatalog DEF CreateArchive
    <3>3. UNCHANGED <<catalog, graph>>
      BY <2>2 DEF CreateArchive, ExecRuns
    <3> QED
      BY <3>2, <3>3 DEF ArchiveOfThisRun, Project
  \* The archive and the catalog stay, and the zip is not reported ok now.
  <2>3. ASSUME UNCHANGED <<archive, catalog, graph>>,
               status'["archive"] # "ok" \/ pending' \subseteq pending,
               status'["archive"] = "ok" => status["archive"] = "ok"
        PROVE  ArchiveOfThisRun'
    BY <2>3 DEF ArchiveOfThisRun, Project
  <2>4. CASE UploadProject \/ ScheduleFlow
    BY <2>1, <2>3, <2>4 DEF UploadProject, ScheduleFlow, ExecRuns, Report
  <2>5. CASE Compile
    BY <2>1, <2>5 DEF Compile, StartRun, EventInv, IdleForgets, ArchiveOfThisRun
  <2>6. ASSUME NEW c \in Content, HieraChange(c), UNCHANGED deployVars
        PROVE  ArchiveOfThisRun'
    BY <2>3, <2>6 DEF HieraChange, deployVars
  <2>7. ASSUME NEW r \in Resources, Skip(r), UNCHANGED deployVars
        PROVE  ArchiveOfThisRun'
    BY <2>1, <2>3, <2>7 DEF Skip, Report, deployVars
  <2>8. ASSUME NEW c \in Content, ApplyContent(c), UNCHANGED deployVars
        PROVE  ArchiveOfThisRun'
    <3>1. status["archive"] = "todo"
      <4>1. <<c, "archive">> \in graph.order
        BY <2>1, ProjectFacts
      <4>2. c \in Members(graph) /\ status[c] = "todo"
        BY <2>8 DEF ApplyContent, Evaluate, IsNext
      <4> QED
        BY <2>1, <4>1, <4>2 DEF EventInv, EvaluatedInOrder
    <3>2. status'["archive"] = status["archive"]
      BY <2>1, <2>8 DEF ApplyContent, Report, DeployExecs
    <3> QED
      BY <3>1, <3>2 DEF ArchiveOfThisRun
  <2>9. ASSUME NEW c \in Content, ContentFails(c), UNCHANGED deployVars
        PROVE  ArchiveOfThisRun'
    BY <2>1, <2>3, <2>9 DEF ContentFails, Report, deployVars
  <2>10. ASSUME NEW e \in Execs, ExecIdle(e), UNCHANGED deployVars
         PROVE  ArchiveOfThisRun'
    <3>1. CASE e = "archive"
      <4>1. status["archive"] = "todo" /\ Incoming("archive") = {} /\ pending' = pending
        BY <2>10, <3>1 DEF ExecIdle, Evaluate, IsNext
      <4>2. \A c \in Notifiers : <<c, "upload">> \notin pending
        <5> SUFFICES ASSUME NEW c \in Notifiers, <<c, "upload">> \in pending
                     PROVE  FALSE
          OBVIOUS
        <5>1. <<c, "archive">> \in pending
          BY <4>1 DEF EventsPaired
        <5> QED
          BY <4>1, <5>1 DEF Incoming
      <4>3. \A u \in pending : u[2] # "upload"
        BY <2>1, <4>2, ProjectFacts
      <4> QED
        BY <4>1, <4>3 DEF ArchiveOfThisRun
    <3>2. CASE e # "archive"
      BY <2>1, <2>3, <2>10, <3>2 DEF ExecIdle, Report, deployVars
    <3> QED
      BY <3>1, <3>2
  <2>11. ASSUME NEW e \in Execs, ExecFails(e), UNCHANGED deployVars
         PROVE  ArchiveOfThisRun'
    BY <2>1, <2>3, <2>11 DEF ExecFails, Report, deployVars
  <2>12. CASE EndRun \/ AgentCrash \/ Reboot
    BY <2>1, <2>12 DEF EndRun, AgentCrash, Reboot, ArchiveOfThisRun
  <2>13. CASE UNCHANGED allVars
    BY <2>3, <2>13 DEF allVars, vars, deployVars
  <2> QED
    BY <2>2, <2>4, <2>5, <2>6, <2>7, <2>8, <2>9, <2>10, <2>11, <2>12, <2>13,
       DeployNextCases
<1> QED
  BY <1>1, <1>2, DeployIsAnAgent, TypeCorrect, EventDiscipline, EventsStayPaired,
     AppliedStays, PTL DEF DeploySpec

\* For any versions and flows: an upload publishes the catalog of the run it
\* is part of, however old its event and whatever hiera says by then, unless
\* the zip of that run failed or was skipped.
THEOREM UploadsItsRun == DeploySpec => UploadPublishesRun
<1> DEFINE Publishes ==
      published' # published =>
          \/ published' = Project(catalog)
          \/ status["archive"] \in {"failed", "skipped"}
<1>1. TypeOK /\ ArchiveOfThisRun /\ [DeployNext]_allVars => [Publishes]_allVars
  <2> SUFFICES ASSUME TypeOK, ArchiveOfThisRun, [DeployNext]_allVars
               PROVE  Publishes
    OBVIOUS
  <2>1. CASE UploadProject
    <3>1. /\ graph \in Catalogs
          /\ "archive" \in Resources /\ "archive" \in Members(graph)
          /\ status \in [Resources -> {"todo", "ok", "failed", "skipped"}]
      BY ProjectCatalogs, ProjectFacts DEF TypeOK, DeployExecs, Resources, Members
    <3>2. status["archive"] \in {"ok", "failed", "skipped"}
      BY <2>1, <3>1, ProjectFacts DEF UploadProject, ExecRuns, Evaluate, IsNext
    <3>3. \E e \in pending : e[2] = "upload"
      BY <2>1 DEF UploadProject, ExecRuns, Incoming
    <3> QED
      BY <2>1, <3>2, <3>3 DEF UploadProject, ArchiveOfThisRun
  <2>2. CASE published' = published
    BY <2>2
  <2> QED
    BY <2>1, <2>2, DeploySteps DEF CreateArchive, ScheduleFlow
<1> QED
  BY <1>1, DeployIsAnAgent, TypeCorrect, ArchiveIsOfThisRun, PTL
     DEF DeploySpec, UploadPublishesRun

-----------------------------------------------------------------------------
\* The order of declaration has no cycle: each resource is declared once.
LEMMA DeploysOnce == Declares(DeployOrder)
<1>1. DOMAIN DeployOrder = 1..8 /\ Len(DeployOrder) = 8 /\ DeclaresOnce(DeployOrder, 8)
  BY DEF DeployOrder, DeclaresOnce
<1> QED
  BY <1>1, DeclaredOnce

\* A project is a catalog the compiler accepts, whichever parts its flow has:
\* its edges join declared resources, along an order without cycles.
THEOREM ProjectsOrdered ==
    \A parts \in SUBSET FlowParts : Ordered(config(parts))
<1> SUFFICES ASSUME NEW parts \in SUBSET FlowParts
             PROVE  Ordered(config(parts))
  OBVIOUS
<1> DEFINE g == config(parts)
<1>1. /\ g.content = FlowContent(parts)
      /\ g.services = {} /\ g.execs = DeployExecs
      /\ g.requires = ({"jobs", "confpackage"} \X {"conf", "appconf"})
                          \cap (g.content \X g.content)
      /\ g.notifies = (({"jobs", "conf", "appconf"} \X {"archive", "upload"})
                          \cup {<<"schedulefile", "schedule">>})
                          \cap (g.content \X DeployExecs)
      /\ g.order = ManifestOrder(DeployOrder)
  BY DEF config, ProjectGraph
<1> HIDE DEF g
<1>2. Members(g) = g.content \cup DeployExecs
  BY <1>1 DEF Members
<1>3. /\ {"jobs", "confpackage"} \X {"conf", "appconf"} \subseteq g.order
      /\ {"jobs", "conf", "appconf"} \X {"archive", "upload"} \subseteq g.order
      /\ <<"schedulefile", "schedule">> \in g.order
  <2>1. <<"jobs", "conf">> \in g.order /\ <<"confpackage", "conf">> \in g.order
    BY <1>1, DeclaredInOrder
  <2>2. <<"jobs", "appconf">> \in g.order /\ <<"confpackage", "appconf">> \in g.order
    BY <1>1, DeclaredInOrder
  <2>3. <<"jobs", "archive">> \in g.order /\ <<"jobs", "upload">> \in g.order
    BY <1>1, DeclaredInOrder
  <2>4. <<"conf", "archive">> \in g.order /\ <<"conf", "upload">> \in g.order
    BY <1>1, DeclaredInOrder
  <2>5. <<"appconf", "archive">> \in g.order /\ <<"appconf", "upload">> \in g.order
    BY <1>1, DeclaredInOrder
  <2>6. <<"schedulefile", "schedule">> \in g.order
    BY <1>1, DeclaredInOrder
  <2> QED
    BY <2>1, <2>2, <2>3, <2>4, <2>5, <2>6
<1>4. EdgesAlongOrder(g)
  BY <1>1, <1>2, <1>3 DEF EdgesAlongOrder, Edges
<1>5. Members(g) \subseteq Listed(DeployOrder)
  <2>1. Listed(DeployOrder) = {"jobs", "confpackage", "conf", "appconf", "schedulefile",
                               "schedule", "archive", "upload"}
    BY DEF Listed, DeployOrder
  <2> QED
    BY <1>1, <1>2, <2>1 DEF FlowContent, FlowParts, DeployExecs
<1>6. IsFiniteSet(Members(g))
  BY <1>5, DeploysOnce, FS_Subset DEF Declares
<1>7. StrictOrder(g.order)
  BY <1>1, DeploysOnce DEF Declares
<1> QED
  BY <1>4, <1>6, <1>7 DEF Ordered, g
=============================================================================
