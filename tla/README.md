# A verification of the staging environment's control repository

The repository (`../src`) is the Puppet control repository of a big-data
staging environment: roles and profiles, one module per daemon of the platform
(DataStore applications, Kafka, ZooKeeper, Hadoop, HBase, Flink, Azkaban,
Elasticsearch), and the scripts those modules install: an init script, an
Azkaban client, Nagios plugins and maintenance jobs.  This directory models the
parts that keep state or make decisions, model-checks them with TLC on small
instances, and proves the most important invariants with TLAPS for every value
of the constants.

Contents: [inventory](#inventory), [modules and code](#modules-and-code),
[runs](#runs), [fairness](#fairness), [proofs](#proofs),
[divergences found](#divergences-found), [not modelled](#not-modelled),
[plan](#plan).

## Inventory

Puppet itself, Azkaban, systemd, ps and the kernel are not in the repository.
They are modelled from how the repository uses them and their definitions are
marked external in `PROJECT.json`.

| Component (source) | State | Operations | Talks to | What is hard | What makes it correct | Modelled in |
|---|---|---|---|---|---|---|
| Agent run (`configuration/site.pp`) | content on disk, daemons up and what they have loaded, queued notify events, status of the run | compile, apply, skip, fail, restart, end of run, crash, reboot | hiera, the daemons | a failure or crash between writing a file and restarting its daemon; hiera that moves during a run | a daemon is out of date only for a known reason; nothing is started on half a configuration; the node converges | `PuppetAgent` |
| DataStore application manifests (`datastore/manifests/applications`) | none: edges | none | the agent | a missing or misdirected notify or require shows only after a particular change | every read of a daemon is watched, failures stay in their class | `ManifestCatalog`, `MCApplication`, `MCSharedNode` |
| Kafka, REST proxy, schema registry, ZooKeeper, heartbeat manifests | none: edges | none | systemd | `daemon-reload` is ordered before the broker by nothing but the order of declaration | the broker is started with its drop-in re-read | `ManifestCatalog`, `MCApplication` |
| Azkaban deployment (`azkaban/manifests/config.pp`, `upload.pp`, `schedule.pp`) | zip of the project, project and schedule on the server | zip, upload, schedule, each on an event only | agent, Azkaban server | refreshonly execs that fail are not repeated; three execs with no edges between them; the zip sees one directory only | the server has the jobs and files of one catalog, the current one, scheduled | `AzkabanDeploy` |
| Init script of the batch readers (`datastore/templates/etc/user-read-batch/init.erb`) | pid file, processes | start, stop, restart, status | agent, operator, init | no lock, pids reused, daemons that die or shut down slowly | one daemon, always found again; a restart launches one | `InitScript` |
| Disk check (`profiles/files/nrpeplugins/check_io.py`) | two samples per disk, status, alarm | validate, select, sample, sleep, sample, compare, time out | kernel counters, nrpe | alarm at any statement, disks that come and go, counters that wrap | OK is earned, critical is reported | `CheckIo` |
| HBase daily compaction (`hbase/files/maintenance/maintenance_daily.sh`) | answer about the active master | ask, decide, compact | HBase masters, cron on each | failover between question and compaction, no master at all | the active master compacts once, nobody else | `HBaseMaintenance` |
| Azkaban client (`azkaban/files/azkaban_cli_td`) | where its loop is | build, create, schedule, with retries | Azkaban server, other clients, people who create and delete projects | a loop without a bound; two clients create one project | the loop ends, one of the clients with `--create` wins, the error shown is the real one | `AzkabanClient`; the outcome of a schedule in `AzkabanDeploy` |
| Checks of the Puppet agent (`check_puppet_agent_process.sh`, `check_puppet_agent_last_run.py`) | the agent's pid file and summary | look for the process, read the last run, judge | agent, nrpe | an agent that dies, is silent, or fails every time; a summary that is partial, empty or missing | a dead or failing agent is reported for good, a healthy one is not | `AgentMonitor` |
| ZooKeeper check (`check_zookeeper.py`) | statistics of the servers that answered | ask, ask again with `stat`, parse, judge | the ensemble, nrpe, Cacti, Ganglia | servers that fail or answer in part, leadership that moves, thresholds in both directions | no false OK, critical reported, a leader found | `CheckZookeeper` |
| Data disk check (`check_cluster_health.py`) | mounts, then fstab | settings, mounts, fstab | mount, fstab | mounts and fstab read at different moments | OK means that the disks are mounted | `CheckClusterHealth` |
| Azkaban job checks (`check_azkaban_job.sh`, `check_camus.sh`) | answers of up to three requests | log in, ask for the running flow, its times, the last executions | Azkaban server | no answer is looked at, so that a failed login or request becomes a value; executions come and go between the requests; one too many is fetched | what is answered is judged as it is, and no OK hides a request that failed but for the cases listed | `CheckAzkabanJob` |
| Elasticsearch fact (`es/facts.d/esnodes.py`) | the first answer | ask the containers in turn, print | containers of the host | containers that start and stop meanwhile | one container is enough for the fact | `EsNodes` |
| Hadoop daemon script, other Nagios plugins, Elasticsearch containers, node classification, queue lag metric | - | - | - | - | - | not modelled, see below |
| HBase, Hadoop, Flink manifests; base profile; reports; Docker tools; Azkaban server | - | - | - | - | - | not modelled, see below |

Every component with its files is listed in `PROJECT.json`, and so is every
hazard, each at its line, with the properties that would catch it.

## Modules and code

### PuppetAgent

One node.  A resource graph has content (packages and files), services and
refreshonly execs; `requires` and `notifies` are the explicit edges, `order`
adds the order of declaration that Puppet 4 and later follow (`ManifestOrder`,
in `DeclarationOrder`), `needs` says what
must exist on disk for a resource to be applicable (a file's directory comes out
of the package), `reads` says what the daemon loads when it starts, `versioned`
which content hiera can change, and `boot` which services the manifest enables.
`actual` is the disk, `seen[r]` the content daemon `r` has loaded (or exec `r`
has last run on), `pending` the queued events and `lost` the events that were
dropped while their receiver was live.

| In the code | In the model |
|---|---|
| a commit to the hieradata | `HieraChange`, of `versioned` content |
| `include role::...` in `site.pp`, compiled into a catalog | `StartRun` copies `desired` to `catalog`: later changes of hiera belong to the next run |
| `package`, `file` | `ApplyContent`, `ContentFails` |
| `service { ensure => running }` with `notify` and mostly `enable => true` | `ApplyService` (start, or restart when events are queued; enabled if in `boot`), `ServiceFails` |
| `exec { refreshonly => true }` | `ExecIdle`, `ExecRuns`, `ExecFails` |
| `require`, `notify` on something that failed | `Skip`, which throws queued events away |
| the agent is killed, the node reboots | `AgentCrash` forgets the queue; `Reboot` starts what is enabled |

### ManifestCatalog

One definition per manifest that manages a daemon, with the edges the manifest
declares; manifests with the same edges share `StandardApplication`.  Files that
a manifest declares the same way are one resource (`conf` for
`application.conf`, `logback.xml` and others, and the log directories that the
broker's service requires), and pins, motd entries and directories that only files
require are left out.  `Managed` builds a graph from its edges, the content that
is `fixed` by the manifest and not in hiera, and what is enabled; `Application` is
the usual case.  Points where manifests differ from the
pattern:

* `relateddataread.pp` lines 36 to 43: `application.conf` has no `notify`;
* `userreadbatch.pp`: the class requires the whole class of user-read, runs from
  links into its package, and is not restarted when that package is upgraded;
* `statscollector.pp` line 27: the package notifies the service of user-read
  instead of its own;
* `selectionengine.pp`: the systemd drop-in notifies nothing;
* `bigbrother.pp`: the package does not notify and requires the class of the
  database; the service is not enabled, so that it is down after a reboot until
  the next run (`ha/manifests/init.pp` likewise, whose package is installed once
  and never upgraded);
* `dsreader.pp`, `etlservice.pp`, `etlservicemaintainer.pp`: the service is
  commented out;
* `kafka`, `schemaregistry`, `zookeeper`, `ha`: no content restarts the daemon.

`UnwatchedReads` lists what follows from this: the reads of a daemon that its
manifest does not watch.  The runs show the list to be complete, and the
mutants that the runs notice a notify missing from anywhere else.

### AzkabanDeploy

EXTENDS `PuppetAgent`: the graph of `azkaban::config` for one project with one
flow, whose parts are there or not, each by itself: a package of its own
(`confpackage`), files below the project's directory (`conf`), files below the
package's (`appconf`), a schedule.  `archive` is `/tmp/<project>.zip`,
`published` and `scheduled` what the server has, `compiled` the history of
the projects compiled.  The agent's exec steps are refined: `CreateArchive` makes
the zip match `/opt/azkaban-config-<project>`, which holds the jobs' packages and
`conf` and nothing else (`ProjectContent`; `upload.pp` line 9 is run there);
`UploadProject` uploads whatever zip there is, with the client of pip;
`ScheduleFlow` works only for a flow the server knows.  `appconf` notifies zip and
upload as `conf` does, although neither sees it.  The declaration order
(`DeployOrder`) is the source's: schedule of the flow (`config.pp` line 77) before
the upload of the project (line 85), in which the zip precedes the upload.

`ProjectServer` is what the server sees of it, without agent, events and files: a
project is compiled, what the zip sees of the last one is zipped in one step, the
zip is uploaded, and the flow is scheduled with the span compiled last.
`AzkabanDeploy!Server` maps the deployment to it: what was compiled last is the
current catalog, of which the files on disk are only a part most of the time.

### InitScript

Callers run the script command by command; between two commands a daemon may
die or finish shutting down, another program may be given its pid, or another
caller may run.  `StartCheck`, `Launch`, `WritePid`, `StartVerify` are `start`;
`StopCheck`, `Kill`, `StopWait`, `RemovePid` are `stop`; a restart is a stop,
`RestartCheck` and a start.  The wait loop of ten seconds is one step that may be
taken early (the daemon is gone) or late (it gives up).  `raced` remembers that
two invocations have overlapped.  `status` changes nothing and is left out; so is
the instant in which the shell has emptied the pid file and not yet written it.

`SingleDaemon` is what the script promises whoever calls it, without pid file, ps
and wait loop: a start or restart creates a daemon only when there is none, a
stop that succeeds leaves none, and calls that overlap void this until the next
boot.  `InitScript!Single` maps the script to it: the daemons are the live ones
and those shutting down, a call is answered by its exit status.

### CheckIo

`main` statement by statement, a clock in half seconds, and the alarm
(`ScriptTimeout`) that may be raised at any statement.  `work` is the history of
what the counters really did.  argparse's own errors, the verbose mode and
exceptions that no modelled input raises are left out.  The script is Python 2:
a negative `sleep` raises IOError, which `main` reports with status 1.

### HBaseMaintenance

The script on each master host, started by cron at the same minute:
`GetActiveMaster`, `Decide`, `Compact`, `Finish`, with `CommandFails` for
`set -e`, and `Failover` at any moment.  The unquoted test of line 10 is modelled
by what `[` does when the answer is empty.

### CheckZookeeper

`get_cluster_stats` asks one server after the other (`Mntr`, `Stat` for a server
that does not know `mntr`, `SocketError`), while servers fail and leadership
moves (`EnsembleChanges`).  `Reply` is a single `recv`: the reply, or a beginning
of it, in which the key is missing, its number has lost digits or, in `mntr`'s
parser, become a text, which Python 2 has greater than any number.  A reply to
`stat` that ends before the colon of its first line ends the plugin.  `Nagios`,
`Cacti` and `Ganglia` are the three handlers.  Exceptions that nothing catches
end the plugin with status 1 (`ZkCrash`).

### CheckClusterHealth, EsNodes

`CheckClusterHealth`: the settings as one nondeterministic step, then mounts and
fstab, between which `DisksMove` may act.  `EsNodes`: `Ask` for one container
after the other and `PrintFact`, which reads the body of the answer only then.

### CheckAzkabanJob

The requests of both job checks: `Login`, `AskRunning`, `AskStart`, `AskEnd` and
`JudgeDuration` for durations, `JudgeFailures` for the last executions.  Each
answer comes out of `curl -s | jq`, and the scripts look at nothing but the text
that jq printed: `null` for an answer without the field, which is the one to a
request without a session, and nothing at all without an answer.  `session` and
`blind` say whether the login has succeeded and whether any request was refused
or not answered.  So a refused login reads as "not running" or as no failures; an
unanswered `getRunning` goes on with an execution of no name (`found = 0`); a start
time that is missing, or that of an execution that is still `PREPARING`, counts
from 1970 (`jobStart = 0`, and the clock begins at `Epoch`); an unanswered end time
makes `check_camus.sh` run off its end with status 0.  Executions are submitted,
start and end, started or not, between any two requests; several may be active,
and `getRunning` names any of them.

### AgentMonitor

The agent starts, with a pid file the plugin can read or not, dies, and ends runs
of three kinds; its summary is lost or written in part; and the two plugins (`CheckProcess`, `CheckLastRun`) look now and then.
`LastRunVerdict` is the order in which the second one tests its options, the
file, the sections of the summary, the age and the failures.

### AzkabanClient

Clients in the loop of `build_project`: `Upload`, `Create`, and `RequestFails`,
after which the server may have done what was asked or not.  `Catch` is the except
clause: a missing project is created, if `--create` is given, and any other error
ends the client.  `created` is the history of who has created the project,
`UsersMove` another user of the server who creates or deletes it.
`upload_project`, whose except clause does not look at the error, is not in the
usage that docopt parses (lines 6 to 15): no command line reaches it, and the
manifests upload with the client that pip installs.

### Instances and proofs

`MCApplication`, `MCSharedNode`, `MCAzkabanDeploy`, `MCInitScript`, `MCCheckIo`
and `MCHBaseMaintenance` give the constants values.  `MCPlugins` puts the nrpe
plugins and the Elasticsearch fact on one host, `MCHostTools` the maintenance
script, the agent's checks and the Azkaban client: they share nothing, so a
behaviour starts one of them and the others wait in an initial state.
`PuppetAgentProofs`, `ApplicationProofs` and `SharedNodeProofs` (the manifests),
`AzkabanDeployProofs`, `InitScriptProofs`, `CheckIoProofs`, `PluginsProofs` (the other
plugins and the composition of `MCPlugins`) and `HostToolsProofs` (the composition of
`MCHostTools`) hold the theorems.  Operators marked "variant with a
mistake" are the mutated forms of a definition, one for each property, that show
that the property can be broken by a plausible error in the code.

## Runs

| Run | Question | Instance and bounds |
|---|---|---|
| `ApplicationSafety` | Can a daemon be silently out of date, after a clean run even, or be started on half a configuration, under any failure, skip, crash or reboot? Is the list of unwatched reads complete? Is the broker's drop-in re-read before the agent starts it? | every shape of manifest with one daemon, two versions of each resource; 920,976 states |
| `ApplicationLiveness` | Does the node reach what hiera asks for once it is left alone? | four shapes that differ in what the service requires and notifies, no symmetry |
| `SharedNode` | Where does a failure spread when two classes share a node, and who restarts whom? | user-read with its batch reader, and with the stats collector; 903,069 states |
| `AzkabanSafety` | Does the deployment implement a server that is only given the jobs and files of one catalog? Are they, or the schedule, out of date only for a reason? | a flow with files that are zipped, one with a package and files of its own, one with a schedule; at most three different catalogs; 942,404 states |
| `AzkabanLiveness` | Does the project reach the server? | a flow with files that are zipped, and one with files that are not; two catalogs |
| `AzkabanScheduleLost` | Is a flow with a schedule scheduled? **Violated** | flow with a schedule, nothing fails that can succeed |
| `InitScriptSafety` | Does the script implement a single daemon: never two, none out of reach of a stop, no restart without a launch? Does a stale pid file, or an earlier race, keep the daemon from being started? | two callers, three pids that other programs may be given |
| `Plugins` | Is OK earned and critical reported by the disk check? By the ZooKeeper check, and is a leader found? Are lost data disks, long and failing flows reported, and what becomes of requests that fail? Does a host know its cluster? | disk check: two disks, timeouts and periods of one to three seconds, valid and invalid thresholds, counters from zero and just below their size; two servers, values 0 to 2 and texts, thresholds rising, falling and equal, every handler; two data disks; critical counts 2 to 4 of up to five executions of any status, durations of up to two; three containers, a node of each kind; about 1.7 million states |
| `CheckIoPerSecond` | Are thresholds per second compared with values per second? **Violated** | disk check as above |
| `HostTools` | Does exactly the active master compact in a day without a failover? Are a dead and a failing agent noticed for good, and does an alarm clear? Do builds end, does one of them succeed with `--create`, and do they show the real error? | three hosts; ages up to 4 with thresholds 1 and 2; two clients at one project |
| `HBaseActive` | Does only the active master compact? **Violated** | three hosts |
| `AgentProcess` | Does the process check report an agent that died? **Violated** | ages up to 3 |

Why the bounds are enough:

* *Two versions* of each resource are all that staleness needs: a value is the
  catalog's or it is not.  Versions are symmetric.
* *OneBump*: on nodes with two classes and in the Azkaban runs the hieradata
  differs from a release in at most one resource.  Manifests with one daemon are
  explored with every combination.
* *Reduced* graphs leave out a resource whose edges repeat those of another one
  or are a part of them.  `Reduced(kafka, {"conf"})` keeps the drop-in, which has
  the edges of the broker's configuration and the reload on top.
* *FewCatalogs*: two catalogs are enough for an old project and a new one, three
  for an archive left over from the first while the third is compiled.
* *Three pids* allow a daemon that shuts down, its successor and a third that an
  error would launch; *two callers* race, and the proofs cover any number.
* *Two disks*: one critical and one that vanishes or wraps.  Counters are 64 and
  16 values wide and `sys.maxsize` is 31, in the proportion of the kernel's 64-bit
  and 32-bit counters to 2^63 - 1 as far as signs and the direction of the errors
  go; a second has two clock ticks and the busy counter four units.
* *Three hosts*: the active master and two that may take over.
* *Two servers*: one that is critical and one that fails, or leads in its place.
  Values 0 to 2 lie below, on and above each threshold; `Text` lies above all.
* *Two data disks*: one lost and one left, or none left.
* *Critical counts 2, 3, 4*: `check_azkaban_job.sh` drops the execution with index 3;
  below, at and above it.  Five finished executions are one more than are fetched.
* *Ages*: one value per answer (fresh, above the warning, above the critical
  threshold) and one more, at which the clock stops.
* *Two executions* for the duration checks: the one that was named, and another that
  runs beside it or after it.
* *Two clients*: one creates the project between two requests of the other; the
  proofs cover any number.

Deadlock is checked everywhere but in `CheckIoPerSecond`, `Plugins` and
`HostTools`, whose programs end.

What the properties do not promise is part of the result.  After a crash between
writing a file and restarting its daemon, the daemon stays on the old content for
good (`lost`): the next run finds the file in sync.  Nothing is said of daemons
once two invocations of the init script have overlapped, except that starting
works again; two starts at the same time do launch two daemons, of which one is
in no pid file.  A restart may report success without a launch when a program
has been given the pid of a daemon that died.

The checks of the Azkaban flows promise little once a request has failed
(`blind`).  With every request answered `LongRunReported` has the verdict follow
from how long the named execution has run, and `FailuresJudged` from the last
finished ones, but for the cases they name.  Without: an alarm of the duration
check may be about nothing at all (an unanswered request counts from 1970), and
with a session it is never too mild; without a session it says OK whatever runs,
and the camus check does so after any request that failed.  Nor
does the failures check ever raise an alarm that the executions do not give,
but it says OK when it got none.

## Fairness

* `PuppetAgent!FairSpec`: weak fairness of `AgentStep`.  The agent daemon starts a
  run every half hour and a run goes through its catalog.  Nothing is assumed of
  the environment; `Convergence` speaks of behaviours that end in agent steps
  only, and excepts what was in `lost`.
* `AzkabanDeploy!FairDeploySpec` is the same for `DeployStep`.  `CalmSpec` adds
  that nothing fails that can succeed, so that a flow left unscheduled there is
  not for want of luck.  The state constraints of the liveness runs cut off
  behaviours in which hiera changes again and again; the steps that
  `EventuallyDeployed` is about are those after the last change.
* `InitScript!FairSpec`: weak fairness of the steps of each invocation, of each
  caller's `start` (the agent calls it on each run that finds the service
  stopped) and of a signalled daemon's end.
* `AgentMonitor!MonFairness`: nrpe runs both plugins again and again, and time
  passes.  Nothing is assumed of the agent.
* `AzkabanClient!CliFairness`: a client that is in its loop goes on, as a request
  is answered or fails.  `UploadEnds` excepts a project that is deleted again and
  again, which nothing keeps from happening.

## Proofs

TLAPS checks every theorem for all values of the constants, from the assumptions
the modules declare.  TLC evaluates each of them on the instances.

| Assumption | Says | Why the code justifies it |
|---|---|---|
| `KindsDisjoint`, `AbsentIsNoVersion` | content, services and execs have different names; "nothing on disk" is no version | Puppet's types have name spaces of their own |
| `CatalogsWellFormed` | edges join declared resources, what is enabled is a service, the evaluation order of the finitely many resources respects them and has no cycle | Puppet refuses other catalogs; `ManifestsOrdered`, `SharedManifestsOrdered` and `ProjectsOrdered` show it of every graph of the project |
| `KnownManifests` (`MCApplication`, `MCSharedNode`) | the node is given one of the manifests, as a whole or as the runs see it | `site.pp` includes nothing else with a daemon |
| `ProjectCatalogs` | the node of a project is given a graph of `config` and nothing else | `azkaban::config` |
| `PidsAssumption`, `NoneIsNoHost` | "no pid", "no host" are no pid and no host; pids of other programs are pids | |
| `SizesAssumption` | counters have a positive size, and what a disk does in a second is less than it | a counter does not wrap twice between two samples |
| `ArgsAssumption`, `OptionsAssumption`, `ChecksAssumption` | command lines have the types that the option parsers let through; critical durations are shorter than the time since 1970 | argparse, optparse, positional arguments |
| `ClientsAssumption` | a project without an archive, or none, is no client's | |
| `AgesAssumption` | the warning age is below the critical one | `-w`, `-c` of the nrpe command |
| `DataDisksAssumption`, `NodesAssumption` | finitely many data disks, none of them the empty name; nodes have names and kinds | |

All safety properties of the passing runs are stated by a theorem.

`PuppetAgentProofs`, for any set of catalogs:

* `TypeCorrect`: events travel along declared edges only, and only declared
  services run.
* `EventDiscipline`: `EventsWithinRun` is not inductive by itself.  `EventInv`
  adds that evaluation went in order (a resource is evaluated only when all
  before it are) and that an idle agent remembers no status; an applied sender is
  then before its receiver, which is still to come.  `EventsStayInRun` states the
  property itself.
* `StalenessHasACause` (`NoSilentStaleness`): a watched resource on disk differs
  from what its live receiver has loaded only while the event is in `pending`
  or `lost`.  The step that changes a file queues its events at once; every step
  that uses up an event either loads the disk or moves the event to `lost`.  It
  rests on `EventDiscipline`.
* `AppliedStays`: what a run has applied is the catalog's until it ends
  (`AppliedIsCatalog`).
* `CleanRunSuffices` (`CleanRunConverges`): when all of a run went well, the disk is
  the catalog (`AppliedStays`), no event is queued (`EventDiscipline`: its receiver
  would be still to come), and so each live receiver has loaded the disk
  (`StalenessHasACause`), but for events lost before.  This is what convergence
  comes to in a single run, without fairness.
* `RunsAreNeverStuck` (`RunGoesOn`) and `RunsAdvance` (`RunAdvances`): the rest of the
  argument for `Convergence` that is not about fairness.  As long as something is left
  to evaluate, some resource has nothing left before it, because a finite order
  without cycles has a first element (lemma `FirstElement`, from the
  well-foundedness of strict inclusion); and each step of the agent in a run ends it
  or leaves strictly less to evaluate, whatever happens to the node meanwhile.
* `WholeConfigLoaded` (`AgentLoadsWholeConfig`) and `WrittenOnRequired`
  (`WritesOnRequired`): action properties, both from `AppliedStays` through the
  lemma `DependenciesOnDisk`.

`ApplicationProofs` and `SharedNodeProofs` carry this over to the manifests, for any
versions, and to the whole manifests where the runs see reduced ones:

* `StaleWhereUnwatched` (`StaleOnlyWhereUnwatched`), once for each of the two modules:
  every manifest notifies its daemon of each read that is not in `UnwatchedReads`
  (`CatalogWatches`, manifest by manifest); the rest is `NoSilentStaleness`.
* `BrokerReloaded` (`BrokerStartsReloaded`): the event of the drop-in cannot be queued
  when the broker is evaluated, because `daemon-reload` is declared before it
  (`ReloadPrecedesBroker`) and queued events have their receiver still to come.
* `ManifestsOrdered` and `SharedManifestsOrdered`: every manifest is what
  `CatalogsWellFormed` asks: the order of declaration has no cycle, since nothing is
  declared twice (`DeclaredOnce`, in `PuppetAgentProofs`), and respects every edge,
  the notify from the stats collector to user-read included.
* `SkipsHaveACause` (`SkipsExplained`) is not inductive: in a state where
  `stats_package` were skipped for a failure in its class, the service of user-read
  would be skipped without a cause that `Explains` allows.  `SkipsExplainedInv` adds
  that what is skipped depends on something, which `stats_package` does not.

`AzkabanDeployProofs`, for any versions and any mix of projects, whatever parts
their flows have:

* `DeployIsAnAgent`: every step is a step of `PuppetAgent`, so that the theorems
  above hold of the deployment.  `DeployTypeCorrect` adds the types of the archive
  and the server.
* `DeployRefines` (`ImplementsProjectServer`): each step maps to a step of
  `ProjectServer` or a stutter.  `Zip` needs that the project's directory is the
  catalog's when the zip runs (lemma `ZipsTheCatalog`): all that lies in it notifies
  the zip.  `Schedule` needs that the exec runs only for an event of the
  schedule file, which was then applied in this run (`SchedulesTheCatalog`).  That
  there is a compiled catalog at all is `RunIsCompiled`.
* `PublishedIsWhole`: the jobs and files in the archive or on the server are those of
  one catalog, never of two, the same fact over the history `compiled`.
* `PublishedHasCause` (`PublishedStaleHasCause`): needs that the archive itself
  differs from the disk only for a queued or dropped event of the zip, and that the
  zip and the upload, which no edge joins, have the same events queued until the
  zip is evaluated (`EventsStayPaired`); a zip that runs then leaves its upload
  queued.
* `UploadsItsRun` (`UploadPublishesRun`): from `ArchiveOfThisRun`: once the zip went
  well, or was idle, an upload that is queued finds the catalog of its run.
* `ScheduleHasCause` (`ScheduleStaleHasCause`).
* `ProjectsOrdered`: every graph of `config` is what `CatalogsWellFormed` asks.

`InitScriptProofs`, for any callers and pids, with pids reused at will:

* `AtMostOneDaemon`, `EveryDaemonNamed`: from `SafetyInv`, which adds to the two
  properties that invocations that have not raced are alone, that nothing runs
  when one is about to launch or to remove the pid file, and that only its own
  daemon runs when it is about to write the pid.  The lemma `NothingRunning`
  carries the argument: a check that finds nothing under the pid of the file has
  seen that there is no daemon, since every daemon is named.
* `RestartHasLaunched` (`RestartLaunches`): from `RestartInv`: a restart gets to
  its start only after every daemon was gone.
* `Refinement` (`ImplementsSingleDaemon`): every step maps to a step of
  `SingleDaemon` or to a stutter.  It needs `SafetyInv` for the launch (nothing
  runs) and for the end of a stop (nothing is left), and `CommandInv`: each
  command of the script belongs to the request its caller made, so that a launch
  serves a start or restart and a caller that is idle is not being served.

`CheckIoProofs`, for any disks, command lines, loads and counter sizes:
`CriticalIsReported` and `OkOnlyWhenSampled`, from `IoInv`.  It says that the
difference of two samples is what the disk did unless the counter shows less than
before (by the lemma `Modulo`), that nothing is judged before the second sample,
and that the status is the highest level of any disk or an early exit.

`PluginsProofs`, the other plugins, each from an inductive invariant of its own:

* `SeverityIsReported` and `LeaderIsFound`, for any servers, values and command
  lines, from `ZkInv`: what is kept of a server whose reply was whole is what it had
  when it answered and, in a steady ensemble, what it is; the exit status is the
  handler's verdict on that.
* `DisksAreJudged`, for any finite set of data disks, from `ChInv` (what was read is
  the present state, unless something moved since).
* `HostHasFact`, for any nodes, from `EsInv` (a container that was always up and has
  been asked implies an answer, and that has what was there all along).
* `LongRunsAreReported` (`LongRunReported`), for any executions, clock and limits,
  from `AzInv`: until a request has failed, the start time that the script has is that
  of the execution it has named, or none when that had not started; with a session
  the duration check ends only with nothing active or through `JudgeDuration`, in which
  a missing start time makes the duration longer and never shorter.
* `FailuresAreJudged` (`FailuresJudged`), for any history and limits.  The script
  counts failures in the list of fetched executions, the property in the history of
  finished ones, when at most the latest execution is active.  The two sets of
  positions are then equal, or one is included in the other when one too many is
  counted, so that no induction over the sequence is needed; that no alarm is about
  more than was fetched holds of any history and any request that fails.
* `PluginsAreSeparate`: a behaviour of the host with all plugins satisfies the
  specification of every one of them.  `PluginsTypes` (`PluginsTypeOK`) and
  `PluginsTellTheTruth` follow for the composed specification that the run checks.

`HostToolsProofs`:

* `MaintenanceTypes`, which includes that a compacting host was answered itself or
  nobody, and `MasterCompactsOnce` (`CompactedOnce`), for any number of hosts, from
  `RoundInv`: without a failover every answer is the master.
* `MonTypes`, for any ages and limits.
* `CreateUploads` and `BuildShowsItsError`, for any number of clients, from `CliInv`:
  while no user has meddled, the project exists once a client has created it
  (`ProjectHasCreator`) and only then or from the beginning, so that a client about to
  create, or beaten, has found it missing, and somebody who created it went on to an
  upload (`CreateHasCause`, lemma `WinnersStay`): the clients do not beat each other all.
* `ToolsAreSeparate`, `ToolsTypes` (`HostToolsTypeOK`) and `ToolsKeepPromises`, as for
  the plugins.

Only model-checked: the liveness properties, since fairness is out of the prover's
reach (`Convergence`, `EventuallyDeployed`, `StartsAgain`, `SilenceNoticed`,
`FailuresNoticed`, `AlarmClears`, `UploadEnds`), and the properties that the code
violates (`ThresholdsPerSecond`, `OnlyOnActiveMaster`, `DeadAgentReported`,
`ScheduleApplied`).

## Divergences found

With a run that shows them:

* `AzkabanScheduleLost`: a flow that is new to the server is not scheduled.  Its
  schedule exec runs before the first upload, fails, and is not notified again.
* `CheckIoPerSecond`: thresholds documented per second are compared with the
  sectors of the whole averaging period, two seconds by default.
* `HBaseActive`: "execute only if on active master" does not hold.  Without an
  active master the unquoted test fails, and every host compacts; after a failover
  the wrong one does.
* `AgentProcess`: `check_puppet_agent_process.sh:13` asks `ps` for pid 2 as well,
  because `2&>` passes an argument `2`; a dead agent that left its pid file is
  reported as running.

Seen while modelling, without a run of their own:

* `check_io.py:260` refuses an averaging period above the timeout only; line 261
  asks for one at least a second below.  An equal one can only time out.
* `check_io.py:111`: a wrapped counter is corrected by `sys.maxsize`, half its
  size; `CriticalReported` and `OkIsEarned` except such counters.
* `azkaban/manifests/config.pp:12` says that only the installation of a package
  triggers an upload; files and templates notify it too (lines 42 and 57).
* `hbase/manifests/maintenance/master.pp`: `"$maintenance['location']/..."`
  in double quotes interpolates the whole hash, so the cron command is not the
  script's path.  The model is of the script as it is meant to be called.
* `azkaban/manifests/database.pp:28` uses a variable that nothing defines.
* `check_puppet_agent_last_run.py:49` catches TypeError and says that the agent might
  be failing completely, with status 2; the summary of such a run lacks keys, which
  is a KeyError.  It ends the plugin with status 1, and keeps an agent that dies after
  it at a warning (`SilenceNoticed` excepts it).
* `check_azkaban_job.sh:41` says that a flow is not running when the login was refused,
  since the answer to a request without a session has no `execIds` either.
* `check_zookeeper.py:295`: servers that do not answer are left out; when none
  answers the plugin says OK.  The comment there says that the cluster can still
  work without some.  Equal thresholds report nothing (line 56), and the line of a
  server that is not serving raises an uncaught ValueError (line 196).
* `check_cluster_health.py:45`: a host that has lost all its data disks is healthy.
* `check_camus.sh:26`: a flow that has run for exactly 300 seconds is critical.
* `check_azkaban_job.sh:52`: the execution dropped from one too many is always the
  fourth.
* `check_azkaban_job.sh:26` and `check_camus.sh:10`: without an answer the duration
  counts from 1970, which is critical with nothing running, and the camus check ends
  with status 0 and no message while the flow runs.
* `azkaban_cli_td:345`: `upload_project` is there, and its options are described, but
  `upload` is in no line of the usage, so that docopt refuses it.
* `azkaban/manifests/config.pp:42`: files outside of the project's directory notify the
  zip and the upload, which send the server the same project once more.

## Not modelled

* `speedoffsetwatcher.pp` and `batchuser/*.pp` do not compile; the smoke tests
  and `batch` run nothing.
* HBase, Hadoop and Flink manifests start and notify no service: packages and
  templates only.  Azkaban's web server, executor and database follow the same
  package, file, service contract as the daemons that are modelled.
* Base profile, firewall, collectd, Docker tools: parameters handed to
  third-party modules.  Reports and the Puppet server's webhook: pure I/O.
* The text of templates and the values of the hieradata.
* Vendored Nagios plugins (Percona's `pmp-check-aws-rds.py`, the Nagios project's).
* `hadoop-daemon.sh`: nothing in the manifests calls it, and the daemons, and what
  is in their pid files, belong to `bin/hadoop`, which is not in the repository.
* The creation of the Elasticsearch containers: `docker::run` and pipework are not
  in the repository, and what the delay of ten seconds races with is theirs.
* `hostrole.rb` and `hiera.yaml`: a table of host names and a list of levels.
* `kafka_queue_lag.py.erb`, `check_etl_server.py` and the other plugins: they keep
  nothing and print what one command, or a few requests in a row, returned.
* Of `azkaban_cli_td`: `upload_project`, which no command line reaches; run, log, info,
  and the parsing of project files, which print or compute.

## Plan

Done: the inventory, `PuppetAgent` with the manifests, `AzkabanDeploy` and the
`ProjectServer` it implements, `InitScript` and the `SingleDaemon` it implements,
`CheckIo`, `HBaseMaintenance`, `AgentMonitor`, `AzkabanClient`, `CheckZookeeper`,
`CheckClusterHealth`, `CheckAzkabanJob`, `EsNodes`, the proofs above.

Abstract specifications worth stating next: a node as the set of daemons with the
version each runs, which `PuppetAgent` implements (`Converge`, `Lose`).

Theorems worth proving next: those of `AzkabanDeployProofs` for several projects on
one node, whose archives and events are kept apart by name.
