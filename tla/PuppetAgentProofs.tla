------------------------- MODULE PuppetAgentProofs -------------------------
(***************************************************************************)
(* What the agent guarantees for every well-formed catalog.                *)
(***************************************************************************)
EXTENDS PuppetAgent, DeclarationOrder, FiniteSetTheorems, WellFoundedInduction, TLAPS

\* What membership in Catalogs says of a graph, in the form the proofs use.
LEMMA GraphFacts ==
    ASSUME NEW g \in Catalogs
    PROVE  /\ g.content \subseteq Content
           /\ g.services \subseteq Services
           /\ g.boot \subseteq g.services
           /\ g.execs \subseteq Execs
           /\ g.notifies \subseteq Content \X Receivers
           /\ Edges(g) \subseteq Members(g) \X Members(g)
           /\ Edges(g) \subseteq g.order
           /\ \A r \in Resources : <<r, r>> \notin g.order
           /\ Members(g) \subseteq Resources
           /\ \A c \in Content : c \in Members(g) => c \in g.content
<1>1. g \in ResourceGraph
  BY CatalogsWellFormed
<1>2. /\ g.content \in SUBSET Content
      /\ g.services \in SUBSET Services
      /\ g.execs \in SUBSET Execs
      /\ g.notifies \in SUBSET (Content \X Receivers)
  BY <1>1 DEF ResourceGraph
<1>3. /\ g.boot \subseteq g.services
      /\ Edges(g) \subseteq Members(g) \X Members(g)
      /\ Edges(g) \subseteq g.order
      /\ \A r \in Resources : <<r, r>> \notin g.order
  BY CatalogsWellFormed
<1>4. Members(g) \subseteq Resources
  BY <1>2 DEF Members, Resources
<1>5. \A c \in Content : c \in Members(g) => c \in g.content
  BY <1>2, KindsDisjoint DEF Members
<1> QED
  BY <1>2, <1>3, <1>4, <1>5

\* The actions of an evaluation step, one per disjunct of Next.
LEMMA NextCases ==
    ASSUME Next
    PROVE  \/ \E c \in Content : HieraChange(c)
           \/ \E s \in Services : ServiceDies(s)
           \/ StartRun
           \/ \E r \in Resources : Skip(r)
           \/ \E c \in Content : ApplyContent(c)
           \/ \E c \in Content : ContentFails(c)
           \/ \E s \in Services : ApplyService(s)
           \/ \E s \in Services : ServiceFails(s)
           \/ \E e \in Execs : ExecIdle(e)
           \/ \E e \in Execs : ExecRuns(e)
           \/ \E e \in Execs : ExecFails(e)
           \/ EndRun
           \/ AgentCrash
           \/ Reboot
  BY DEF Next, AgentStep, Disturbance

\* Every variable keeps its type: in particular, events travel along notify
\* edges only and only declared services run.
THEOREM TypeCorrect == Spec => []TypeOK
<1>1. Init => TypeOK
  <2> SUFFICES ASSUME Init PROVE TypeOK
    OBVIOUS
  <2>1. Nothing \in Snapshot
    BY DEF Nothing, Snapshot
  <2> QED
    BY <2>1 DEF Init, TypeOK
<1>2. TypeOK /\ [Next]_vars => TypeOK'
  <2> SUFFICES ASSUME TypeOK, [Next]_vars PROVE TypeOK'
    OBVIOUS
  <2> DEFINE g == graph
  <2>1. /\ g.content \subseteq Content
        /\ g.services \subseteq Services /\ g.boot \subseteq g.services
        /\ g.execs \subseteq Execs
        /\ Services \subseteq Receivers /\ Execs \subseteq Receivers
        /\ Content \subseteq Resources /\ Receivers \subseteq Resources
        /\ Nothing \in Snapshot
    BY GraphFacts DEF TypeOK, Receivers, Resources, Nothing, Snapshot
  <2> USE <2>1
  <2>2. ASSUME NEW c \in Content, HieraChange(c) PROVE TypeOK'
    BY <2>2 DEF TypeOK, HieraChange
  <2>3. ASSUME NEW s \in Services, ServiceDies(s) PROVE TypeOK'
    BY <2>3 DEF TypeOK, ServiceDies, GoesDown, LostBy
  <2>4. CASE StartRun
    BY <2>4 DEF TypeOK, StartRun
  <2>5. ASSUME NEW r \in Resources, Skip(r) PROVE TypeOK'
    BY <2>5 DEF TypeOK, Skip, Report, Incoming, Dropped
  <2>6. ASSUME NEW c \in Content, ApplyContent(c) PROVE TypeOK'
    BY <2>6 DEF TypeOK, ApplyContent, Report, Outgoing, Snapshot
  <2>7. ASSUME NEW c \in Content, ContentFails(c) PROVE TypeOK'
    BY <2>7 DEF TypeOK, ContentFails, Report
  <2>8. ASSUME NEW s \in Services, ApplyService(s) PROVE TypeOK'
    BY <2>8 DEF TypeOK, ApplyService, Report, Incoming, LostBy
  <2>9. ASSUME NEW s \in Services, ServiceFails(s) PROVE TypeOK'
    BY <2>9 DEF TypeOK, ServiceFails, Report, Incoming, GoesDown, LostBy
  <2>10. ASSUME NEW e \in Execs, ExecIdle(e) PROVE TypeOK'
    BY <2>10 DEF TypeOK, ExecIdle, Report
  <2>11. ASSUME NEW e \in Execs, ExecRuns(e) PROVE TypeOK'
    BY <2>11 DEF TypeOK, ExecRuns, Report, Incoming, LostBy
  <2>12. ASSUME NEW e \in Execs, ExecFails(e) PROVE TypeOK'
    BY <2>12 DEF TypeOK, ExecFails, Report, Incoming
  <2>13. CASE EndRun
    BY <2>13 DEF TypeOK, EndRun
  <2>14. CASE AgentCrash
    BY <2>14 DEF TypeOK, AgentCrash, Dropped
  <2>15. CASE Reboot
    BY <2>15 DEF TypeOK, Reboot
  <2>16. CASE UNCHANGED vars
    BY <2>16 DEF TypeOK, vars
  <2> QED
    BY NextCases, <2>2, <2>3, <2>4, <2>5, <2>6, <2>7, <2>8, <2>9, <2>10,
       <2>11, <2>12, <2>13, <2>14, <2>15, <2>16
<1> QED
  BY <1>1, <1>2, PTL DEF Spec

-----------------------------------------------------------------------------
\* What makes the event discipline inductive: a run evaluates a prefix of the
\* order, so the receivers of a resource still to be evaluated are still to
\* be evaluated too; between runs no status is left over.
EvaluatedInOrder ==
    \A q, r \in Members(graph) :
        <<q, r>> \in graph.order /\ status[r] # "todo" => status[q] # "todo"

IdleForgets == phase = "idle" => \A r \in Resources : status[r] = "todo"

EventInv == EventsWithinRun /\ EvaluatedInOrder /\ IdleForgets

\* An event that is queued joins a sender the run has applied and a receiver
\* it has yet to reach: none survives its run and none is queued for a
\* resource already passed.
THEOREM EventDiscipline == Spec => []EventInv
<1>1. Init => EventInv
  BY GraphFacts DEF Init, EventInv, EventsWithinRun, EvaluatedInOrder, IdleForgets
<1>2. TypeOK /\ EventInv /\ [Next]_vars => EventInv'
  <2> SUFFICES ASSUME TypeOK, EventInv, [Next]_vars PROVE EventInv'
    OBVIOUS
  <2>1. /\ graph \in Catalogs
        /\ graph.content \subseteq Content
        /\ graph.notifies \subseteq Content \X Receivers
        /\ pending \subseteq graph.notifies
        /\ Edges(graph) \subseteq Members(graph) \X Members(graph)
        /\ Edges(graph) \subseteq graph.order
        /\ \A r \in Resources : <<r, r>> \notin graph.order
        /\ Members(graph) \subseteq Resources
        /\ graph.notifies \subseteq Edges(graph)
        /\ status \in [Resources -> {"todo", "ok", "failed", "skipped"}]
    BY GraphFacts DEF TypeOK, Edges
  <2>a. \A e \in graph.notifies : e[1] \in Content /\ e[2] \in Receivers
    BY <2>1
  <2>b. Content \cap Receivers = {}
    BY KindsDisjoint DEF Receivers
  <2> USE DEF EventInv
  \* Reporting a result other than "todo" for the next resource keeps the
  \* evaluated resources a prefix of the order.
  <2>2. ASSUME NEW r \in Resources, IsNext(r), graph' = graph, phase' = phase,
               NEW res \in {"ok", "failed", "skipped"}, Report(r, res)
        PROVE  EvaluatedInOrder' /\ IdleForgets'
    BY <2>1, <2>2 DEF IsNext, Report, EvaluatedInOrder, IdleForgets
  \* Dropping the events of the resource reported keeps the others in place.
  <2>3. ASSUME NEW r \in Resources, IsNext(r), graph' = graph, phase' = phase,
               NEW res \in {"ok", "failed", "skipped"}, Report(r, res),
               pending' = pending \ Incoming(r)
        PROVE  EventsWithinRun'
    BY <2>1, <2>3 DEF IsNext, Report, EventsWithinRun, Incoming
  <2>4. ASSUME NEW c \in Content, HieraChange(c) PROVE EventInv'
    BY <2>4 DEF HieraChange, EventsWithinRun, EvaluatedInOrder, IdleForgets
  <2>5. ASSUME NEW s \in Services, ServiceDies(s) PROVE EventInv'
    BY <2>5 DEF ServiceDies, EventsWithinRun, EvaluatedInOrder, IdleForgets
  <2>6. CASE StartRun
    BY <2>1, <2>6 DEF StartRun, EventsWithinRun, EvaluatedInOrder, IdleForgets
  <2>7. ASSUME NEW r \in Resources, Skip(r) PROVE EventInv'
    BY <2>2, <2>3, <2>7 DEF Skip
  <2>8. ASSUME NEW c \in Content, ApplyContent(c) PROVE EventInv'
    <3>1. c \in Resources /\ IsNext(c)
      BY <2>8 DEF ApplyContent, Evaluate, Resources
    <3>2. EvaluatedInOrder' /\ IdleForgets'
      BY <2>2, <2>8, <3>1 DEF ApplyContent
    <3>3. \A e \in pending : e[1] # c /\ e[2] # c
      BY <2>1, <2>a, <2>b, <3>1 DEF IsNext, EventsWithinRun
    <3>4. \A e \in Outgoing(c) : e[1] = c /\ e[2] # c /\ status[e[2]] = "todo"
      BY <2>1, <3>1 DEF IsNext, Outgoing, EvaluatedInOrder
    <3>5. EventsWithinRun'
      BY <2>1, <2>8, <3>1, <3>3, <3>4
         DEF ApplyContent, EventsWithinRun, Report, IsNext, Outgoing
    <3> QED
      BY <3>2, <3>5
  <2>9. ASSUME NEW c \in Content, ContentFails(c) PROVE EventInv'
    <3>1. c \in Resources /\ IsNext(c)
      BY <2>9 DEF ContentFails, Evaluate, Resources
    <3>2. EvaluatedInOrder' /\ IdleForgets'
      BY <2>2, <2>9, <3>1 DEF ContentFails
    <3>3. \A e \in pending : e[1] # c /\ e[2] # c
      BY <2>1, <2>a, <2>b, <3>1 DEF IsNext, EventsWithinRun
    <3>4. EventsWithinRun'
      BY <2>1, <2>9, <3>1, <3>3 DEF ContentFails, EventsWithinRun, Report, IsNext
    <3> QED
      BY <3>2, <3>4
  <2>10. ASSUME NEW s \in Services, ApplyService(s) PROVE EventInv'
    <3>1. s \in Resources /\ IsNext(s)
      BY <2>10 DEF ApplyService, Evaluate, Resources
    <3> QED
      BY <2>2, <2>3, <2>10, <3>1 DEF ApplyService
  <2>11. ASSUME NEW s \in Services, ServiceFails(s) PROVE EventInv'
    <3>1. s \in Resources /\ IsNext(s)
      BY <2>11 DEF ServiceFails, Evaluate, Resources
    <3> QED
      BY <2>2, <2>3, <2>11, <3>1 DEF ServiceFails
  <2>12. ASSUME NEW e \in Execs, ExecIdle(e) PROVE EventInv'
    <3>1. e \in Resources /\ IsNext(e)
      BY <2>12 DEF ExecIdle, Evaluate, Resources
    <3>2. pending' = pending \ Incoming(e)
      BY <2>12 DEF ExecIdle
    <3> QED
      BY <2>2, <2>3, <2>12, <3>1, <3>2 DEF ExecIdle
  <2>13. ASSUME NEW e \in Execs, ExecRuns(e) PROVE EventInv'
    <3>1. e \in Resources /\ IsNext(e)
      BY <2>13 DEF ExecRuns, Evaluate, Resources
    <3> QED
      BY <2>2, <2>3, <2>13, <3>1 DEF ExecRuns
  <2>14. ASSUME NEW e \in Execs, ExecFails(e) PROVE EventInv'
    <3>1. e \in Resources /\ IsNext(e)
      BY <2>14 DEF ExecFails, Evaluate, Resources
    <3> QED
      BY <2>2, <2>3, <2>14, <3>1 DEF ExecFails
  <2>15. CASE EndRun
    <3>1. pending = {}
      BY <2>1, <2>15 DEF EndRun, EventsWithinRun
    <3> QED
      BY <2>1, <2>15, <3>1 DEF EndRun, EventsWithinRun, EvaluatedInOrder, IdleForgets
  <2>16. CASE AgentCrash
    BY <2>1, <2>16 DEF AgentCrash, EventsWithinRun, EvaluatedInOrder, IdleForgets
  <2>17. CASE Reboot
    BY <2>1, <2>17 DEF Reboot, EventsWithinRun, EvaluatedInOrder, IdleForgets
  <2>18. CASE UNCHANGED vars
    BY <2>18 DEF vars, EventsWithinRun, EvaluatedInOrder, IdleForgets
  <2> QED
    BY NextCases, <2>4, <2>5, <2>6, <2>7, <2>8, <2>9, <2>10, <2>11, <2>12,
       <2>13, <2>14, <2>15, <2>16, <2>17, <2>18
<1> QED
  BY <1>1, <1>2, TypeCorrect, PTL DEF Spec

\* Events are of the run that is under way, whatever crashes, fails or is
\* skipped: none is delivered by a later one.
THEOREM EventsStayInRun == Spec => []EventsWithinRun
BY EventDiscipline, PTL DEF EventInv

-----------------------------------------------------------------------------
\* For every catalog: a running daemon, or the product of an exec, differs
\* from the disk in something its manifest watches only while the event is
\* queued or after it was dropped by a failure, a skip or a crash.
THEOREM StalenessHasACause == Spec => []NoSilentStaleness
<1>1. Init => NoSilentStaleness
  <2> SUFFICES ASSUME Init PROVE NoSilentStaleness
    OBVIOUS
  <2>1. \A e \in graph.notifies : e[1] \in Content /\ e[2] \in Receivers
    BY GraphFacts DEF Init
  <2> QED
    BY <2>1 DEF Init, NoSilentStaleness
<1>2. TypeOK /\ NoSilentStaleness /\ [Next]_vars => NoSilentStaleness'
  <2> SUFFICES ASSUME TypeOK, NoSilentStaleness, [Next]_vars
               PROVE  NoSilentStaleness'
    OBVIOUS
  <2>1. /\ \A e \in graph.notifies : e[1] \in Content /\ e[2] \in Receivers
        /\ Services \cap Execs = {}
        /\ Receivers = Services \cup Execs
        /\ up \subseteq Services
        /\ enabled \subseteq Services
        /\ seen \in [Receivers -> Snapshot]
        /\ actual \in [Content -> Versions \cup {Absent}]
    BY GraphFacts, KindsDisjoint DEF TypeOK, Receivers, Snapshot
  <2> USE <2>1 DEF NoSilentStaleness, Live
  <2>2. ASSUME NEW c \in Content, HieraChange(c) PROVE NoSilentStaleness'
    BY <2>2 DEF HieraChange
  <2>3. ASSUME NEW s \in Services, ServiceDies(s) PROVE NoSilentStaleness'
    BY <2>3 DEF ServiceDies, GoesDown, LostBy
  <2>4. CASE StartRun
    BY <2>4 DEF StartRun
  <2>5. ASSUME NEW r \in Resources, Skip(r) PROVE NoSilentStaleness'
    BY <2>5 DEF Skip, Incoming, Dropped
  <2>6. ASSUME NEW c \in Content, ApplyContent(c) PROVE NoSilentStaleness'
    BY <2>6 DEF ApplyContent, Outgoing
  <2>7. ASSUME NEW c \in Content, ContentFails(c) PROVE NoSilentStaleness'
    BY <2>7 DEF ContentFails
  <2>8. ASSUME NEW s \in Services, ApplyService(s) PROVE NoSilentStaleness'
    BY <2>8 DEF ApplyService, Incoming, LostBy
  <2>9. ASSUME NEW s \in Services, ServiceFails(s) PROVE NoSilentStaleness'
    BY <2>9 DEF ServiceFails, Incoming, GoesDown, LostBy
  <2>10. ASSUME NEW e \in Execs, ExecIdle(e) PROVE NoSilentStaleness'
    BY <2>10 DEF ExecIdle
  <2>11. ASSUME NEW e \in Execs, ExecRuns(e) PROVE NoSilentStaleness'
    BY <2>11 DEF ExecRuns, Incoming, LostBy
  <2>12. ASSUME NEW e \in Execs, ExecFails(e) PROVE NoSilentStaleness'
    BY <2>12 DEF ExecFails, Incoming
  <2>13. CASE EndRun
    BY <2>13 DEF EndRun
  <2>14. CASE AgentCrash
    BY <2>14 DEF AgentCrash, Dropped
  <2>15. CASE Reboot
    BY <2>15 DEF Reboot
  <2>16. CASE UNCHANGED vars
    BY <2>16 DEF vars
  <2> QED
    BY NextCases, <2>2, <2>3, <2>4, <2>5, <2>6, <2>7, <2>8, <2>9, <2>10,
       <2>11, <2>12, <2>13, <2>14, <2>15, <2>16
<1> QED
  BY <1>1, <1>2, TypeCorrect, PTL DEF Spec

-----------------------------------------------------------------------------
\* What the run has applied is on disk, and stays until the run is over even
\* when hiera changes meanwhile.
AppliedIsCatalog ==
    phase = "run" =>
        \A c \in graph.content : status[c] = "ok" => actual[c] = catalog[c]

\* What a run has applied stays on disk with the content of its catalog until
\* the run is over.
THEOREM AppliedStays == Spec => []AppliedIsCatalog
<1>1. Init => AppliedIsCatalog
  BY DEF Init, AppliedIsCatalog
<1>2. TypeOK /\ EventInv /\ AppliedIsCatalog /\ [Next]_vars => AppliedIsCatalog'
  <2> SUFFICES ASSUME TypeOK, EventInv, AppliedIsCatalog, [Next]_vars
               PROVE  AppliedIsCatalog'
    OBVIOUS
  <2>1. /\ graph.content \subseteq Resources
        /\ status \in [Resources -> {"todo", "ok", "failed", "skipped"}]
        /\ actual \in [Content -> Versions \cup {Absent}]
        /\ graph.content \subseteq Content
    BY GraphFacts DEF TypeOK, Resources, Snapshot
  <2>2. IdleForgets
    BY DEF EventInv
  <2>a. /\ Content \subseteq Resources /\ Services \subseteq Resources
        /\ Execs \subseteq Resources
        /\ Services \cap Content = {} /\ Execs \cap Content = {}
    BY KindsDisjoint DEF Resources
  <2> USE <2>1, <2>a DEF AppliedIsCatalog
  <2>3. ASSUME NEW c \in Content, HieraChange(c) PROVE AppliedIsCatalog'
    BY <2>3 DEF HieraChange
  <2>4. ASSUME NEW s \in Services, ServiceDies(s) PROVE AppliedIsCatalog'
    BY <2>4 DEF ServiceDies
  <2>5. CASE StartRun
    BY <2>2, <2>5 DEF StartRun, IdleForgets
  <2>6. ASSUME NEW r \in Resources, Skip(r) PROVE AppliedIsCatalog'
    BY <2>6 DEF Skip, Report
  <2>7. ASSUME NEW c \in Content, ApplyContent(c) PROVE AppliedIsCatalog'
    BY <2>7 DEF ApplyContent, Report
  <2>8. ASSUME NEW c \in Content, ContentFails(c) PROVE AppliedIsCatalog'
    BY <2>8 DEF ContentFails, Report
  <2>9. ASSUME NEW s \in Services, ApplyService(s) PROVE AppliedIsCatalog'
    BY <2>9 DEF ApplyService, Report
  <2>10. ASSUME NEW s \in Services, ServiceFails(s) PROVE AppliedIsCatalog'
    BY <2>10 DEF ServiceFails, Report
  <2>11. ASSUME NEW e \in Execs, ExecIdle(e) PROVE AppliedIsCatalog'
    BY <2>11 DEF ExecIdle, Report
  <2>12. ASSUME NEW e \in Execs, ExecRuns(e) PROVE AppliedIsCatalog'
    BY <2>12 DEF ExecRuns, Report
  <2>13. ASSUME NEW e \in Execs, ExecFails(e) PROVE AppliedIsCatalog'
    BY <2>13 DEF ExecFails, Report
  <2>14. CASE EndRun
    BY <2>14 DEF EndRun
  <2>15. CASE AgentCrash
    BY <2>15 DEF AgentCrash
  <2>16. CASE Reboot
    BY <2>16 DEF Reboot
  <2>17. CASE UNCHANGED vars
    BY <2>17 DEF vars
  <2> QED
    BY NextCases, <2>3, <2>4, <2>5, <2>6, <2>7, <2>8, <2>9, <2>10, <2>11,
       <2>12, <2>13, <2>14, <2>15, <2>16, <2>17
<1> QED
  BY <1>1, <1>2, TypeCorrect, EventDiscipline, PTL DEF Spec

\* For every catalog: a run without a failure is all that a node needs.  No
\* event is left in its queue, since each waits for a receiver still to come, so
\* that what is out of date can only be so for a lost one.
THEOREM CleanRunSuffices == Spec => []CleanRunConverges
<1>1. TypeOK /\ EventInv /\ AppliedIsCatalog /\ NoSilentStaleness => CleanRunConverges
  <2> SUFFICES ASSUME TypeOK, EventInv, AppliedIsCatalog, NoSilentStaleness,
                      phase = "run", \A r \in Members(graph) : status[r] = "ok"
               PROVE  /\ \A c \in graph.content : actual[c] = catalog[c]
                      /\ \A e \in graph.notifies \ lost :
                             Live(e[2]) => seen[e[2]][e[1]] = catalog[e[1]]
    BY DEF CleanRunConverges
  <2>1. \A c \in graph.content : actual[c] = catalog[c]
    BY DEF AppliedIsCatalog, Members
  <2>2. \A e \in graph.notifies : e[1] \in graph.content /\ e[2] \in Members(graph)
    BY GraphFacts DEF TypeOK, Edges
  <2>3. pending = {}
    BY <2>2 DEF TypeOK, EventInv, EventsWithinRun
  <2> QED
    BY <2>1, <2>2, <2>3 DEF NoSilentStaleness
<1> QED
  BY <1>1, TypeCorrect, EventDiscipline, AppliedStays, StalenessHasACause, PTL

\* Of the resource being evaluated, every content its edges come from is on
\* disk as the catalog has it.
LEMMA DependenciesOnDisk ==
    ASSUME TypeOK, AppliedIsCatalog, NEW r \in Resources, Evaluate(r),
           NEW c \in Content, <<c, r>> \in Edges(graph)
    PROVE  actual[c] = catalog[c]
<1>1. c \in graph.content
  BY GraphFacts DEF TypeOK
<1>2. phase = "run" /\ status[c] = "ok"
  BY DEF Evaluate, IsNext, DependenciesOk, Resources
<1> QED
  BY <1>1, <1>2 DEF AppliedIsCatalog

\* For every catalog: the agent never lets a daemon or an exec read the disk
\* before all that it reads, and that has an edge to it, is the catalog's,
\* whatever failed, crashed or changed in hiera before and during the run.
THEOREM WholeConfigLoaded == Spec => AgentLoadsWholeConfig
<1> DEFINE Loads ==
      \A r \in Receivers :
        (phase = "run" /\ phase' = "run" /\ seen'[r] \notin {seen[r], Nothing}) =>
            \A c \in Content :
                <<c, r>> \in graph.reads \cap Edges(graph) => seen'[r][c] = catalog[c]
<1>1. TypeOK /\ AppliedIsCatalog /\ [Next]_vars => [Loads]_vars
  <2> SUFFICES ASSUME TypeOK, AppliedIsCatalog, [Next]_vars
               PROVE  Loads
    OBVIOUS
  <2>1. /\ seen \in [Receivers -> Snapshot]
        /\ Services \subseteq Receivers /\ Execs \subseteq Receivers
        /\ Receivers \subseteq Resources
    BY DEF TypeOK, Receivers, Resources
  <2>2. \A r \in Receivers, c \in Content :
            Evaluate(r) /\ <<c, r>> \in Edges(graph) => actual[c] = catalog[c]
    BY <2>1, DependenciesOnDisk
  <2> USE <2>1
  <2>3. ASSUME NEW c \in Content, HieraChange(c) PROVE Loads
    BY <2>3 DEF HieraChange
  <2>4. ASSUME NEW s \in Services, ServiceDies(s) PROVE Loads
    BY <2>4 DEF ServiceDies, GoesDown
  <2>5. CASE StartRun
    BY <2>5 DEF StartRun
  <2>6. ASSUME NEW r \in Resources, Skip(r) PROVE Loads
    BY <2>6 DEF Skip
  <2>7. ASSUME NEW c \in Content, ApplyContent(c) PROVE Loads
    BY <2>7 DEF ApplyContent
  <2>8. ASSUME NEW c \in Content, ContentFails(c) PROVE Loads
    BY <2>8 DEF ContentFails
  <2>9. ASSUME NEW s \in Services, ApplyService(s) PROVE Loads
    BY <2>2, <2>9 DEF ApplyService
  <2>10. ASSUME NEW s \in Services, ServiceFails(s) PROVE Loads
    BY <2>10 DEF ServiceFails, GoesDown
  <2>11. ASSUME NEW e \in Execs, ExecIdle(e) PROVE Loads
    BY <2>11 DEF ExecIdle
  <2>12. ASSUME NEW e \in Execs, ExecRuns(e) PROVE Loads
    BY <2>2, <2>12 DEF ExecRuns
  <2>13. ASSUME NEW e \in Execs, ExecFails(e) PROVE Loads
    BY <2>13 DEF ExecFails
  <2>14. CASE EndRun
    BY <2>14 DEF EndRun
  <2>15. CASE AgentCrash
    BY <2>15 DEF AgentCrash
  <2>16. CASE Reboot
    BY <2>16 DEF Reboot
  <2>17. CASE UNCHANGED vars
    BY <2>17 DEF vars
  <2> QED
    BY NextCases, <2>3, <2>4, <2>5, <2>6, <2>7, <2>8, <2>9, <2>10, <2>11,
       <2>12, <2>13, <2>14, <2>15, <2>16, <2>17
<1> QED
  BY <1>1, TypeCorrect, AppliedStays, PTL DEF Spec, AgentLoadsWholeConfig

\* For every catalog: a file is written only when the package or directory it
\* requires is on disk in the catalog's version.
THEOREM WrittenOnRequired == Spec => WritesOnRequired
<1> DEFINE Writes ==
      \A c, q \in Content :
        (actual'[c] # actual[c] /\ <<q, c>> \in graph.requires) =>
            actual[q] = catalog[q]
<1>1. TypeOK /\ AppliedIsCatalog /\ [Next]_vars => [Writes]_vars
  <2> SUFFICES ASSUME TypeOK, AppliedIsCatalog, [Next]_vars
               PROVE  Writes
    OBVIOUS
  <2>1. actual \in [Content -> Versions \cup {Absent}]
    BY DEF TypeOK, Snapshot
  <2>2. \A c, q \in Content :
            Evaluate(c) /\ <<q, c>> \in graph.requires => actual[q] = catalog[q]
    BY DependenciesOnDisk DEF Edges, Resources
  <2> USE <2>1
  <2>3. ASSUME NEW c \in Content, HieraChange(c) PROVE Writes
    BY <2>3 DEF HieraChange
  <2>4. ASSUME NEW s \in Services, ServiceDies(s) PROVE Writes
    BY <2>4 DEF ServiceDies
  <2>5. CASE StartRun
    BY <2>5 DEF StartRun
  <2>6. ASSUME NEW r \in Resources, Skip(r) PROVE Writes
    BY <2>6 DEF Skip
  <2>7. ASSUME NEW c \in Content, ApplyContent(c) PROVE Writes
    BY <2>2, <2>7 DEF ApplyContent
  <2>8. ASSUME NEW c \in Content, ContentFails(c) PROVE Writes
    BY <2>8 DEF ContentFails
  <2>9. ASSUME NEW s \in Services, ApplyService(s) PROVE Writes
    BY <2>9 DEF ApplyService
  <2>10. ASSUME NEW s \in Services, ServiceFails(s) PROVE Writes
    BY <2>10 DEF ServiceFails
  <2>11. ASSUME NEW e \in Execs, ExecIdle(e) PROVE Writes
    BY <2>11 DEF ExecIdle
  <2>12. ASSUME NEW e \in Execs, ExecRuns(e) PROVE Writes
    BY <2>12 DEF ExecRuns
  <2>13. ASSUME NEW e \in Execs, ExecFails(e) PROVE Writes
    BY <2>13 DEF ExecFails
  <2>14. CASE EndRun
    BY <2>14 DEF EndRun
  <2>15. CASE AgentCrash
    BY <2>15 DEF AgentCrash
  <2>16. CASE Reboot
    BY <2>16 DEF Reboot
  <2>17. CASE UNCHANGED vars
    BY <2>17 DEF vars
  <2> QED
    BY NextCases, <2>3, <2>4, <2>5, <2>6, <2>7, <2>8, <2>9, <2>10, <2>11,
       <2>12, <2>13, <2>14, <2>15, <2>16, <2>17
<1> QED
  BY <1>1, TypeCorrect, AppliedStays, PTL DEF Spec, WritesOnRequired

-----------------------------------------------------------------------------
\* Why a run comes to its end.

\* A finite set with an order that has no cycle has a first element.
LEMMA FirstElement ==
    ASSUME NEW S, IsFiniteSet(S), S # {}, NEW R,
           \A x \in S : <<x, x>> \notin R,
           \A x, y, z \in S : <<x, y>> \in R /\ <<y, z>> \in R => <<x, z>> \in R
    PROVE  \E x \in S : \A y \in S : <<y, x>> \notin R
<1> DEFINE Below(x) == {y \in S : <<y, x>> \in R}
           Belows == {Below(x) : x \in S}
<1>1. Belows \subseteq FiniteSubsetsOf(S)
  BY FS_Subset DEF FiniteSubsetsOf
<1>2. Belows # {}
  <2>1. PICK x \in S : TRUE
    OBVIOUS
  <2>2. Below(x) \in Belows
    OBVIOUS
  <2> QED
    BY <2>2
<1>3. PICK B \in Belows : \A C \in Belows : <<C, B>> \notin StrictSubsetOrdering(S)
  <2> HIDE DEF Belows
  <2> QED
    BY <1>1, <1>2, FS_StrictSubsetOrderingWellFounded, WFMin
<1>4. PICK x \in S : B = Below(x)
  BY <1>3
<1>5. ASSUME NEW y \in S, <<y, x>> \in R PROVE FALSE
  <2>1. Below(y) \subseteq Below(x)
    BY <1>5
  <2>2. y \in Below(x) /\ y \notin Below(y)
    BY <1>5
  <2>3. <<Below(y), Below(x)>> \in StrictSubsetOrdering(S)
    BY <2>1, <2>2 DEF StrictSubsetOrdering
  <2>4. Below(y) \in Belows
    BY <1>5
  <2> QED
    BY <1>3, <1>4, <2>3, <2>4
<1> QED
  BY <1>4, <1>5

\* What the run has still to evaluate.
Todo == {r \in Members(graph) : status[r] = "todo"}

RunGoesOn ==
    phase = "run" => Todo = {} \/ \E r \in Todo : IsNext(r)

\* For every catalog: no run waits for ever.  As long as something is left to
\* evaluate there is a resource with nothing left before it.
THEOREM RunsAreNeverStuck == Spec => []RunGoesOn
<1>1. TypeOK => RunGoesOn
  <2> SUFFICES ASSUME TypeOK, phase = "run", Todo # {}
               PROVE  \E r \in Todo : IsNext(r)
    BY DEF RunGoesOn
  <2>1. graph \in Catalogs /\ Members(graph) \subseteq Resources
    BY GraphFacts DEF TypeOK
  <2>2. Todo \subseteq Members(graph)
    BY DEF Todo
  <2>3. IsFiniteSet(Todo)
    BY <2>1, <2>2, FS_Subset, CatalogsWellFormed
  <2>4. /\ \A r \in Todo : <<r, r>> \notin graph.order
        /\ \A q, r, s \in Todo :
               <<q, r>> \in graph.order /\ <<r, s>> \in graph.order => <<q, s>> \in graph.order
    BY <2>1, <2>2, CatalogsWellFormed
  <2>5. PICK r \in Todo : \A q \in Todo : <<q, r>> \notin graph.order
    BY <2>3, <2>4, FirstElement
  <2>6. IsNext(r)
    BY <2>5 DEF IsNext, Todo
  <2> QED
    BY <2>6
<1> QED
  BY <1>1, TypeCorrect, PTL

\* Each step of the agent in a run ends it or leaves less to evaluate, and
\* nothing that happens to the node in a run gives it more.
RunAdvances ==
    [][(phase = "run" /\ phase' = "run") =>
          /\ Todo' \subseteq Todo
          /\ AgentStep => Todo' # Todo]_vars

\* For every catalog: a run that nobody kills evaluates each resource once and
\* is over.  With RunsAreNeverStuck this is what Convergence rests on.
THEOREM RunsAdvance == Spec => RunAdvances
<1> DEFINE Advances ==
      (phase = "run" /\ phase' = "run") =>
          /\ Todo' \subseteq Todo
          /\ AgentStep => Todo' # Todo
<1>1. TypeOK /\ [Next]_vars => [Advances]_vars
  <2> SUFFICES ASSUME TypeOK, Next, phase = "run", phase' = "run"
               PROVE  Todo' \subseteq Todo /\ (AgentStep => Todo' # Todo)
    OBVIOUS
  <2>1. /\ Members(graph) \subseteq Resources
        /\ status \in [Resources -> {"todo", "ok", "failed", "skipped"}]
    BY GraphFacts DEF TypeOK
  <2>a. Content \subseteq Resources /\ Services \subseteq Resources
        /\ Execs \subseteq Resources
    BY DEF Resources
  \* The resource reported is the one thing that is no longer to be done.
  <2>2. ASSUME NEW r \in Resources, IsNext(r), graph' = graph,
               NEW res \in {"ok", "failed", "skipped"}, Report(r, res)
        PROVE  Todo' \subseteq Todo /\ Todo' # Todo
    <3>1. r \in Todo
      BY <2>2 DEF IsNext, Todo
    <3>2. Todo' = Todo \ {r}
      BY <2>1, <2>2 DEF Report, Todo, Members
    <3> QED
      BY <3>1, <3>2
  <2>3. ASSUME UNCHANGED <<graph, status>> PROVE Todo' = Todo
    BY <2>3 DEF Todo, Members
  <2>4. CASE AgentStep
    <3>1. ASSUME NEW r \in Resources, Skip(r) PROVE Todo' \subseteq Todo /\ Todo' # Todo
      BY <2>2, <3>1 DEF Skip
    <3>2. ASSUME NEW c \in Content, ApplyContent(c) \/ ContentFails(c)
          PROVE  Todo' \subseteq Todo /\ Todo' # Todo
      BY <2>a, <2>2, <3>2 DEF ApplyContent, ContentFails, Evaluate
    <3>3. ASSUME NEW s \in Services, ApplyService(s) \/ ServiceFails(s)
          PROVE  Todo' \subseteq Todo /\ Todo' # Todo
      BY <2>a, <2>2, <3>3 DEF ApplyService, ServiceFails, Evaluate
    <3>4. ASSUME NEW e \in Execs, ExecIdle(e) \/ ExecRuns(e)
          PROVE  Todo' \subseteq Todo /\ Todo' # Todo
      BY <2>a, <2>2, <3>4 DEF ExecIdle, ExecRuns, Evaluate
    <3>5. ~StartRun /\ ~EndRun
      BY DEF StartRun, EndRun
    <3> QED
      BY <2>4, <3>1, <3>2, <3>3, <3>4, <3>5 DEF AgentStep
  <2>5. CASE ~AgentStep
    <3>1. ASSUME NEW c \in Content, HieraChange(c) PROVE Todo' \subseteq Todo
      BY <2>3, <3>1 DEF HieraChange
    <3>2. ASSUME NEW c \in Content, ContentFails(c) PROVE Todo' \subseteq Todo
      BY <2>a, <2>2, <3>2 DEF ContentFails, Evaluate
    <3>3. ASSUME NEW s \in Services, ServiceDies(s) PROVE Todo' \subseteq Todo
      BY <2>3, <3>3 DEF ServiceDies
    <3>4. ASSUME NEW s \in Services, ServiceFails(s) PROVE Todo' \subseteq Todo
      BY <2>a, <2>2, <3>4 DEF ServiceFails, Evaluate
    <3>5. ASSUME NEW e \in Execs, ExecFails(e) PROVE Todo' \subseteq Todo
      BY <2>a, <2>2, <3>5 DEF ExecFails, Evaluate
    <3>6. ~AgentCrash /\ ~Reboot
      BY DEF AgentCrash, Reboot
    <3> QED
      BY <2>5, <3>1, <3>2, <3>3, <3>4, <3>5, <3>6 DEF Next, Disturbance
  <2> QED
    BY <2>4, <2>5
<1> QED
  BY <1>1, TypeCorrect, PTL DEF Spec, RunAdvances

-----------------------------------------------------------------------------
\* How a catalog comes to be well-formed.

\* An order without cycles.
StrictOrder(R) ==
    /\ \A q : <<q, q>> \notin R
    /\ \A q, r, t : <<q, r>> \in R /\ <<r, t>> \in R => <<q, t>> \in R

\* What the compiler wants of a graph: edges between declared resources, along
\* an order without cycles.
EdgesAlongOrder(g) ==
    /\ Edges(g) \subseteq Members(g) \X Members(g)
    /\ Edges(g) \subseteq g.order

Ordered(g) ==
    /\ IsFiniteSet(Members(g))
    /\ EdgesAlongOrder(g)
    /\ StrictOrder(g.order)

\* A class evaluated in this order declares each resource once, and these.
DeclaresOnce(evaluation, n) ==
    \A i, j \in 1..n : evaluation[i] = evaluation[j] => i = j
IsListOf(evaluation, n, members) ==
    \A r : r \in members <=> \E i \in 1..n : r = evaluation[i]
IsOrderOf(evaluation, n, R) ==
    \A q, r : <<q, r>> \in R <=>
        \E i, j \in 1..n : i < j /\ q = evaluation[i] /\ r = evaluation[j]

\* The order of declaration has no cycle where no resource is declared twice.
LEMMA OrderOfDeclaration ==
    ASSUME NEW evaluation, NEW n \in Nat, DeclaresOnce(evaluation, n),
           NEW R, IsOrderOf(evaluation, n, R)
    PROVE  StrictOrder(R)
<1> USE DEF DeclaresOnce, IsOrderOf
<1>1. \A q : <<q, q>> \notin R
  OBVIOUS
<1>2. ASSUME NEW q, NEW r, NEW t, <<q, r>> \in R, <<r, t>> \in R
      PROVE  <<q, t>> \in R
  <2>1. PICK i \in 1..n, j \in 1..n : i < j /\ q = evaluation[i] /\ r = evaluation[j]
    BY <1>2
  <2>2. PICK k \in 1..n, l \in 1..n : k < l /\ r = evaluation[k] /\ t = evaluation[l]
    BY <1>2
  <2>3. j = k
    BY <2>1, <2>2
  <2>4. i < l
    BY <2>1, <2>2, <2>3
  <2> QED
    BY <2>1, <2>2, <2>4
<1> QED
  BY <1>1, <1>2 DEF StrictOrder

\* A class declares finitely many resources.
LEMMA DeclaredIsFinite ==
    ASSUME NEW evaluation, NEW n \in Nat, NEW members, IsListOf(evaluation, n, members)
    PROVE  IsFiniteSet(members)
<1>1. IsFiniteSet(1..n)
  BY FS_Interval
<1> DEFINE f == [i \in 1..n |-> evaluation[i]]
<1>2. f \in Surjection(1..n, members)
  BY DEF IsListOf, Surjection
<1> QED
  BY <1>1, <1>2, FS_Surjection

\* What is declared earlier is evaluated earlier.
LEMMA Earlier ==
    ASSUME NEW evaluation, NEW i \in 1..Len(evaluation), NEW j \in 1..Len(evaluation), i < j
    PROVE  <<evaluation[i], evaluation[j]>> \in ManifestOrder(evaluation)
<1>1. <<i, j>> \in {q \in (1..Len(evaluation)) \X (1..Len(evaluation)) : q[1] < q[2]}
  OBVIOUS
<1> QED
  BY <1>1 DEF ManifestOrder

Declares(evaluation) ==
    StrictOrder(ManifestOrder(evaluation)) /\ IsFiniteSet(Listed(evaluation))

\* What a class makes of its resources by declaring each of them once.
LEMMA DeclaredOnce ==
    ASSUME NEW evaluation, NEW n \in Nat, DOMAIN evaluation = 1..n, Len(evaluation) = n,
           DeclaresOnce(evaluation, n)
    PROVE  Declares(evaluation)
<1>1. IsOrderOf(evaluation, n, ManifestOrder(evaluation))
  <2> SUFFICES ASSUME NEW q, NEW r
               PROVE  <<q, r>> \in ManifestOrder(evaluation) <=>
                          \E i, j \in 1..n : i < j /\ q = evaluation[i] /\ r = evaluation[j]
    BY DEF IsOrderOf
  <2>1. ASSUME NEW i \in 1..n, NEW j \in 1..n, i < j
        PROVE  <<evaluation[i], evaluation[j]>> \in ManifestOrder(evaluation)
    BY <2>1, Earlier
  <2>2. <<q, r>> \in ManifestOrder(evaluation) =>
            \E i, j \in 1..n : i < j /\ q = evaluation[i] /\ r = evaluation[j]
    BY DEF ManifestOrder
  <2> QED
    BY <2>1, <2>2
<1>2. IsListOf(evaluation, n, Listed(evaluation))
  BY DEF IsListOf, Listed
<1> QED
  BY <1>1, <1>2, OrderOfDeclaration, DeclaredIsFinite DEF Declares
=============================================================================
