---------------------------- MODULE PuppetAgent ----------------------------
(***************************************************************************)
(* One node of the environment and the Puppet agent that keeps it in the   *)
(* state hiera describes.  The agent itself is Puppet, not this            *)
(* repository: what is modelled here is the contract the manifests are     *)
(* written against -- a run compiles a catalog, evaluates its resources    *)
(* in an order that respects require and notify, skips what depends on a   *)
(* failure, and queues the events of notify in memory until the receiver   *)
(* is evaluated.  The catalogs come from the manifests (ManifestCatalog).  *)
(***************************************************************************)
EXTENDS FiniteSets

CONSTANTS
    Content,    \* packages and files
    Services,   \* service resources
    Execs,      \* exec resources with refreshonly => true
    Versions,   \* the contents hiera may ask for
    Absent,     \* nothing on disk yet
    Catalogs    \* the resource graphs a node may be given

Resources == Content \cup Services \cup Execs
Receivers == Services \cup Execs

Snapshot == [Content -> Versions \cup {Absent}]
Nothing == [c \in Content |-> Absent]

\* A compiled catalog as a graph.  "requires" and "notifies" are the explicit
\* edges, "order" adds the manifest order, "needs" says which content has to
\* exist for a resource to be applicable at all (a file's directory comes
\* from its package), and "reads" what a daemon loads when it starts.
\* "versioned" is the content that hiera has a version of, and "boot" the
\* services with enable => true.
ResourceGraph ==
    [content   : SUBSET Content,
     versioned : SUBSET Content,
     services  : SUBSET Services,
     boot      : SUBSET Services,
     execs     : SUBSET Execs,
     requires  : SUBSET (Resources \X Resources),
     notifies  : SUBSET (Content \X Receivers),
     needs     : SUBSET (Content \X Resources),
     reads     : SUBSET (Content \X Receivers),
     order     : SUBSET (Resources \X Resources)]

Members(g) == g.content \cup g.services \cup g.execs
Edges(g) == g.requires \cup g.notifies

ASSUME KindsDisjoint ==
    /\ Content \cap Services = {}
    /\ Content \cap Execs = {}
    /\ Services \cap Execs = {}

ASSUME AbsentIsNoVersion == Absent \notin Versions

\* What the compiler guarantees of a catalog it hands out: every edge joins
\* two declared resources, and the evaluation order respects every edge and
\* has no cycle.
ASSUME CatalogsWellFormed ==
    /\ Catalogs \subseteq ResourceGraph
    /\ \A g \in Catalogs :
        /\ IsFiniteSet(Members(g))
        /\ g.boot \subseteq g.services
        /\ Edges(g) \subseteq Members(g) \X Members(g)
        /\ Edges(g) \subseteq g.order
        /\ \A r \in Resources : <<r, r>> \notin g.order
        /\ \A q, r, s \in Resources :
               <<q, r>> \in g.order /\ <<r, s>> \in g.order => <<q, s>> \in g.order

VARIABLES
    graph,      \* the node's resource graph
    desired,    \* content hiera asks for now
    catalog,    \* content of the catalog of the current run
    actual,     \* content on disk
    phase,      \* "idle" or "run"
    status,     \* evaluation status of each resource in the current run
    pending,    \* queued notify events <<sender, receiver>>
    lost,       \* events dropped before their live receiver acted on them
    up,         \* services running
    enabled,    \* services started at boot
    seen        \* content a daemon has loaded, or an exec last ran on

vars == <<graph, desired, catalog, actual, phase, status,
          pending, lost, up, enabled, seen>>

TypeOK ==
    /\ graph \in Catalogs
    /\ desired \in [Content -> Versions]
    /\ catalog \in [Content -> Versions]
    /\ actual \in Snapshot
    /\ phase \in {"idle", "run"}
    /\ status \in [Resources -> {"todo", "ok", "failed", "skipped"}]
    /\ pending \subseteq graph.notifies
    /\ lost \subseteq graph.notifies
    /\ up \subseteq graph.services
    /\ enabled \subseteq graph.boot
    /\ seen \in [Receivers -> Snapshot]

Init ==
    /\ graph \in Catalogs
    /\ \E v \in Versions : desired = [c \in Content |-> v]
    /\ catalog = desired
    /\ actual = Nothing
    /\ phase = "idle"
    /\ status = [r \in Resources |-> "todo"]
    /\ pending = {}
    /\ lost = {}
    /\ up = {}
    /\ enabled = {}
    /\ seen = [r \in Receivers |-> Nothing]

\* A receiver that acts on what it has read: a running daemon, or whatever an
\* exec has produced.
Live(r) == r \in Execs \/ r \in up

Incoming(r) == {e \in pending : e[2] = r}
Outgoing(c) == {e \in graph.notifies : e[1] = c}
LostBy(r) == {e \in lost : e[2] = r}
Dropped(events) == {e \in events : Live(e[2])}

\* Daemon s stops: it has nothing loaded, and misses nothing.
GoesDown(s) ==
    /\ up' = up \ {s}
    /\ seen' = [seen EXCEPT ![s] = Nothing]
    /\ lost' = lost \ LostBy(s)

-----------------------------------------------------------------------------
\* The environment.

\* (variant with a mistake: the run would read hiera as it goes)
HieraChangeSeenByRun(c) ==
    /\ c \in graph.versioned
    /\ \E v \in Versions \ {desired[c]} : desired' = [desired EXCEPT ![c] = v]
    /\ catalog' = desired'
    /\ UNCHANGED <<graph, actual, phase, status, pending, lost, up, enabled, seen>>

\* A commit to the hieradata changes what a resource should contain.
HieraChange(c) ==
    /\ c \in graph.versioned
    /\ \E v \in Versions \ {desired[c]} : desired' = [desired EXCEPT ![c] = v]
    /\ UNCHANGED <<graph, catalog, actual, phase, status,
                   pending, lost, up, enabled, seen>>

ServiceDies(s) ==
    /\ s \in up
    /\ GoesDown(s)
    /\ UNCHANGED <<graph, desired, catalog, actual, phase, status,
                   pending, enabled>>

-----------------------------------------------------------------------------
\* The agent's run.

StartRun ==
    /\ phase = "idle"
    /\ phase' = "run"
    /\ catalog' = desired
    /\ UNCHANGED <<graph, desired, actual, status,
                   pending, lost, up, enabled, seen>>

\* r is the next resource: everything ordered before it has been evaluated.
IsNext(r) ==
    /\ phase = "run"
    /\ r \in Members(graph)
    /\ status[r] = "todo"
    /\ \A q \in Members(graph) : <<q, r>> \in graph.order => status[q] # "todo"

\* (variant with a mistake: a dependency counts however it ended)
DependenciesEvaluated(r) ==
    \A q \in Resources : <<q, r>> \in Edges(graph) => status[q] # "todo"

DependenciesOk(r) ==
    \A q \in Resources : <<q, r>> \in Edges(graph) => status[q] = "ok"

Applicable(r) ==
    \A c \in Content : <<c, r>> \in graph.needs => actual[c] # Absent

Evaluate(r) == IsNext(r) /\ DependenciesOk(r)

Report(r, result) == status' = [status EXCEPT ![r] = result]

\* A dependency failed or was skipped: the resource is skipped and every
\* event queued for it is discarded.
Skip(r) ==
    /\ IsNext(r)
    /\ ~DependenciesOk(r)
    /\ Report(r, "skipped")
    /\ pending' = pending \ Incoming(r)
    /\ lost' = lost \cup Dropped(Incoming(r))
    /\ UNCHANGED <<graph, desired, catalog, actual, phase, up, enabled, seen>>

\* (variant with a mistake: ensure => present, which never upgrades)
InstallOnce(c) ==
    /\ c \in graph.content
    /\ Evaluate(c)
    /\ Applicable(c)
    /\ actual' = [actual EXCEPT ![c] = IF @ = Absent THEN catalog[c] ELSE @]
    /\ pending' = IF actual[c] # Absent THEN pending ELSE pending \cup Outgoing(c)
    /\ Report(c, "ok")
    /\ UNCHANGED <<graph, desired, catalog, phase, lost, up, enabled, seen>>

\* A package is installed or a file written; a change queues its events.
ApplyContent(c) ==
    /\ c \in graph.content
    /\ Evaluate(c)
    /\ Applicable(c)
    /\ actual' = [actual EXCEPT ![c] = catalog[c]]
    /\ pending' = IF actual[c] = catalog[c] THEN pending
                                            ELSE pending \cup Outgoing(c)
    /\ Report(c, "ok")
    /\ UNCHANGED <<graph, desired, catalog, phase, lost, up, enabled, seen>>

\* apt is out of reach, the directory is missing, the template fails, ...
ContentFails(c) ==
    /\ c \in graph.content
    /\ Evaluate(c)
    /\ Report(c, "failed")
    /\ UNCHANGED <<graph, desired, catalog, actual, phase,
                   pending, lost, up, enabled, seen>>

\* (variant with a mistake: the events of a running service are used up
\* without a restart)
ApplyServiceWithoutRestart(s) ==
    /\ s \in graph.services
    /\ Evaluate(s)
    /\ Applicable(s)
    /\ up' = up \cup {s}
    /\ enabled' = enabled \cup ({s} \cap graph.boot)
    /\ seen' = IF s \in up THEN seen ELSE [seen EXCEPT ![s] = actual]
    /\ pending' = pending \ Incoming(s)
    /\ Report(s, "ok")
    /\ UNCHANGED <<graph, desired, catalog, actual, phase, lost>>

\* ensure => running, enable => true where the manifest says so, then the
\* queued events: a service that is down is started, one with events is
\* restarted, and either way reads what is on disk at that moment.
ApplyService(s) ==
    /\ s \in graph.services
    /\ Evaluate(s)
    /\ Applicable(s)
    /\ up' = up \cup {s}
    /\ enabled' = enabled \cup ({s} \cap graph.boot)
    /\ seen' = IF s \in up /\ Incoming(s) = {} THEN seen
                                               ELSE [seen EXCEPT ![s] = actual]
    /\ lost' = IF s \in up /\ Incoming(s) = {} THEN lost
                                               ELSE lost \ LostBy(s)
    /\ pending' = pending \ Incoming(s)
    /\ Report(s, "ok")
    /\ UNCHANGED <<graph, desired, catalog, actual, phase>>

\* The init script reports failure: on a start the service stays down, on a
\* restart the old process is gone or is still there with what it had read.
\* The events are used up in both cases.
ServiceFails(s) ==
    /\ s \in graph.services
    /\ Evaluate(s)
    /\ \/ GoesDown(s)
       \/ /\ s \in up
          /\ Incoming(s) # {}
          /\ lost' = lost \cup Incoming(s)
          /\ UNCHANGED <<up, seen>>
    /\ s \in up => Incoming(s) # {}
    /\ pending' = pending \ Incoming(s)
    /\ Report(s, "failed")
    /\ UNCHANGED <<graph, desired, catalog, actual, phase, enabled>>

\* A refreshonly exec does nothing unless an event is queued for it.
ExecIdle(e) ==
    /\ e \in graph.execs
    /\ Evaluate(e)
    /\ Incoming(e) = {}
    /\ Report(e, "ok")
    /\ UNCHANGED <<graph, desired, catalog, actual, phase,
                   pending, lost, up, enabled, seen>>

ExecRuns(e) ==
    /\ e \in graph.execs
    /\ Evaluate(e)
    /\ Incoming(e) # {}
    /\ seen' = [seen EXCEPT ![e] = actual]
    /\ pending' = pending \ Incoming(e)
    /\ lost' = lost \ LostBy(e)
    /\ Report(e, "ok")
    /\ UNCHANGED <<graph, desired, catalog, actual, phase, up, enabled>>

\* The command exits non-zero: the event is used up, and the next run sees
\* its sender in sync and sends no other.
ExecFails(e) ==
    /\ e \in graph.execs
    /\ Evaluate(e)
    /\ Incoming(e) # {}
    /\ pending' = pending \ Incoming(e)
    /\ lost' = lost \cup Incoming(e)
    /\ Report(e, "failed")
    /\ UNCHANGED <<graph, desired, catalog, actual, phase, up, enabled, seen>>

EndRun ==
    /\ phase = "run"
    /\ \A r \in Members(graph) : status[r] # "todo"
    /\ phase' = "idle"
    /\ status' = [r \in Resources |-> "todo"]
    /\ UNCHANGED <<graph, desired, catalog, actual,
                   pending, lost, up, enabled, seen>>

\* (variant with a mistake: the queue survives the agent)
AgentCrashKeepsQueue ==
    /\ phase = "run"
    /\ phase' = "idle"
    /\ status' = [r \in Resources |-> "todo"]
    /\ UNCHANGED <<graph, desired, catalog, actual,
                   pending, lost, up, enabled, seen>>

\* The agent is killed: its queue lived in memory.
AgentCrash ==
    /\ phase = "run"
    /\ phase' = "idle"
    /\ status' = [r \in Resources |-> "todo"]
    /\ pending' = {}
    /\ lost' = lost \cup Dropped(pending)
    /\ UNCHANGED <<graph, desired, catalog, actual, up, enabled, seen>>

\* (variant with a mistake: a boot starts services nobody declared or enabled)
RebootStartsAll ==
    /\ phase' = "idle"
    /\ status' = [r \in Resources |-> "todo"]
    /\ pending' = {}
    /\ lost' = {e \in lost \cup pending : e[2] \in Execs}
    /\ up' = Services
    /\ seen' = [r \in Receivers |-> IF r \in Services THEN actual ELSE seen[r]]
    /\ UNCHANGED <<graph, desired, catalog, actual, enabled>>

\* The node goes down, during a run or not, and boots: every enabled service
\* starts with what is on disk.
Reboot ==
    /\ phase' = "idle"
    /\ status' = [r \in Resources |-> "todo"]
    /\ pending' = {}
    /\ lost' = {e \in lost \cup pending : e[2] \in Execs}
    /\ up' = enabled
    /\ seen' = [r \in Receivers |-> IF r \in enabled THEN actual
                                   ELSE IF r \in Execs THEN seen[r] ELSE Nothing]
    /\ UNCHANGED <<graph, desired, catalog, actual, enabled>>

-----------------------------------------------------------------------------
\* What changes the node or the outcome of a step from outside the agent.
Disturbance ==
    \/ \E c \in Content : HieraChange(c)
    \/ \E c \in Content : ContentFails(c) /\ Applicable(c)
    \/ \E s \in Services : ServiceDies(s)
    \/ \E s \in Services : ServiceFails(s) /\ Applicable(s)
    \/ \E e \in Execs : ExecFails(e)
    \/ AgentCrash
    \/ Reboot

\* What an undisturbed agent does; what is not applicable can only fail.
AgentStep ==
    \/ StartRun
    \/ EndRun
    \/ \E r \in Resources : Skip(r)
    \/ \E c \in Content : ApplyContent(c)
    \/ \E c \in Content : ContentFails(c) /\ ~Applicable(c)
    \/ \E s \in Services : ApplyService(s)
    \/ \E s \in Services : ServiceFails(s) /\ ~Applicable(s)
    \/ \E e \in Execs : ExecIdle(e)
    \/ \E e \in Execs : ExecRuns(e)

Next == AgentStep \/ Disturbance

Spec == Init /\ [][Next]_vars

\* The agent daemon runs periodically and a run goes through its catalog.
FairSpec == Spec /\ WF_vars(AgentStep)

-----------------------------------------------------------------------------
\* A daemon runs on content other than what is on disk only while the event
\* that will restart it is queued, or after that event was dropped: a
\* manifest that notifies can go stale through failures and crashes alone.
NoSilentStaleness ==
    \A e \in graph.notifies :
        Live(e[2]) /\ seen[e[2]][e[1]] # actual[e[1]] => e \in pending \cup lost

\* No event outlives the run that raised it, and none is queued for a
\* resource the run has already been past: each is acted on or dropped.
EventsWithinRun ==
    \A e \in pending :
        /\ phase = "run"
        /\ status[e[1]] = "ok"
        /\ status[e[2]] = "todo"

\* A run that has evaluated everything without a failure leaves the disk with
\* the catalog it compiled, whatever hiera asks for meanwhile, and whatever
\* lives and is notified has loaded that, but for events lost before.
CleanRunConverges ==
    (phase = "run" /\ \A r \in Members(graph) : status[r] = "ok") =>
        /\ \A c \in graph.content : actual[c] = catalog[c]
        /\ \A e \in graph.notifies \ lost : Live(e[2]) => seen[e[2]][e[1]] = catalog[e[1]]

\* The agent starts, restarts or runs a receiver only when everything that it
\* reads, and that its manifest requires for it or lets notify it, has the
\* content of the catalog: never on a half-applied configuration.  (A boot
\* after a crash may do that.)
AgentLoadsWholeConfig ==
    [][\A r \in Receivers :
        (phase = "run" /\ phase' = "run" /\ seen'[r] \notin {seen[r], Nothing}) =>
            \A c \in Content :
                <<c, r>> \in graph.reads \cap Edges(graph) => seen'[r][c] = catalog[c]]_vars

\* Content is written only on top of the catalog's version of what it
\* requires: no new configuration file beside the old package.
WritesOnRequired ==
    [][\A c, q \in Content :
        (actual'[c] # actual[c] /\ <<q, c>> \in graph.requires) =>
            actual[q] = catalog[q]]_vars

\* Once changes, failures and crashes stop, the disk follows hiera and every
\* service is up and runs on hiera's content, but for events already lost.
Converged ==
    /\ \A c \in graph.content : actual[c] = desired[c]
    /\ graph.services \subseteq up
    /\ \A e \in graph.notifies \ lost : seen[e[2]][e[1]] = desired[e[1]]

Convergence == <>[][AgentStep]_vars => <>[]Converged
=============================================================================
