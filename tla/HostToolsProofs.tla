--------------------------- MODULE HostToolsProofs ---------------------------
(***************************************************************************)
(* Proofs about the tools that run on or beside the hosts, by themselves   *)
(* and together: the daily compaction, for any number of HBase masters,    *)
(* the plugins for the Puppet agent, for any thresholds, and the Azkaban   *)
(* client, for any number of clients.                                      *)
(***************************************************************************)
EXTENDS MCHostTools, TLAPS

\* Every variable keeps its type, and a host compacts only if it was named
\* as the master or nobody was (maintenance_daily.sh, lines 7 to 18).
THEOREM MaintenanceTypes == Spec => []TypeOK
<1>1. Init => TypeOK
  BY DEF Init, TypeOK
<1>2. TypeOK /\ [Next]_vars => TypeOK'
  <2> SUFFICES ASSUME TypeOK, [Next]_vars
               PROVE  TypeOK'
    OBVIOUS
  <2> USE DEF TypeOK
  <2>1. ASSUME NEW h \in Hosts, HostStep(h)
        PROVE  TypeOK'
    <3>1. CASE Start(h)
      BY <3>1 DEF Start
    <3>2. CASE GetActiveMaster(h)
      BY <3>2 DEF GetActiveMaster
    <3>3. CASE CommandFails(h)
      BY <3>3 DEF CommandFails
    <3>4. CASE Decide(h)
      BY <3>4 DEF Decide
    <3>5. CASE Compact(h)
      BY <3>5 DEF Compact
    <3>6. CASE Finish(h)
      BY <3>6 DEF Finish
    <3>7. QED
      BY <2>1, <3>1, <3>2, <3>3, <3>4, <3>5, <3>6 DEF HostStep
  <2>2. CASE NextRound
    BY <2>2 DEF NextRound
  <2>3. CASE Failover
    BY <2>3 DEF Failover
  <2>4. CASE UNCHANGED vars
    BY <2>4 DEF vars
  <2>5. QED
    BY <2>1, <2>2, <2>3, <2>4 DEF Next
<1>3. QED
  BY <1>1, <1>2, PTL DEF Spec

\* What a script that has its answer knows in a round without a failover.
Named(h) ==
    /\ pc[h] = "decide" => answer[h] = master
    /\ pc[h] \in {"compact", "compacting"} => h = master
    /\ pc[h] = "compacting" => h \in compacted
    /\ pc[h] = "done" /\ h = master => h \in compacted \cup failed

RoundInv ==
    steady =>
        /\ master \in Hosts
        /\ compacted \subseteq {master}
        /\ \A h \in Hosts : Named(h)

\* A step of one host leaves what the others know as it was.
LEMMA OthersKeep ==
    ASSUME TypeOK, RoundInv, steady, NEW h \in Hosts, HostStep(h),
           NEW g \in Hosts, g # h
    PROVE  Named(g)'
<1>1. Named(g)
  BY DEF RoundInv
<1>2. /\ pc'[g] = pc[g] /\ answer'[g] = answer[g] /\ master' = master
      /\ compacted \subseteq compacted' /\ failed \subseteq failed'
  BY DEF HostStep, Start, GetActiveMaster, CommandFails, Decide, Compact, Finish, TypeOK
<1>3. QED
  BY <1>1, <1>2 DEF Named

\* In a round without a failover only the active master compacts, and it has
\* at the end unless a command failed there.
THEOREM MasterCompactsOnce == Spec => []CompactedOnce
<1>1. Init => RoundInv
  BY DEF Init, RoundInv, Named
<1>2. TypeOK /\ RoundInv /\ [Next]_vars => RoundInv'
  <2> SUFFICES ASSUME TypeOK, RoundInv, [Next]_vars
               PROVE  RoundInv'
    OBVIOUS
  <2>1. ASSUME NEW h \in Hosts, HostStep(h)
        PROVE  RoundInv'
    <3>1. steady' = steady /\ master' = master
      BY <2>1 DEF HostStep, Start, GetActiveMaster, CommandFails, Decide, Compact, Finish
    <3> SUFFICES ASSUME steady
                 PROVE  compacted' \subseteq {master} /\ \A g \in Hosts : Named(g)'
      BY <3>1 DEF RoundInv
    <3>2. Named(h) /\ master \in Hosts /\ compacted \subseteq {master}
      BY DEF RoundInv
    <3> USE NoneIsNoHost DEF TypeOK, Named
    <3>3. compacted' \subseteq {master} /\ Named(h)'
      <4>1. CASE Start(h)
        BY <4>1, <3>2 DEF Start
      <4>2. CASE GetActiveMaster(h)
        BY <4>2, <3>2 DEF GetActiveMaster
      <4>3. CASE CommandFails(h)
        BY <4>3, <3>2 DEF CommandFails
      <4>4. CASE Decide(h)
        BY <4>4, <3>2 DEF Decide
      <4>5. CASE Compact(h)
        BY <4>5, <3>2 DEF Compact
      <4>6. CASE Finish(h)
        BY <4>6, <3>2 DEF Finish
      <4>7. QED
        BY <2>1, <4>1, <4>2, <4>3, <4>4, <4>5, <4>6 DEF HostStep
    <3>4. QED
      BY <2>1, <3>3, OthersKeep
  <2>2. CASE NextRound
    BY <2>2 DEF NextRound, RoundInv, Named, TypeOK
  <2>3. CASE Failover
    BY <2>3 DEF Failover, RoundInv
  <2>4. CASE UNCHANGED vars
    BY <2>4 DEF vars, RoundInv, Named
  <2>5. QED
    BY <2>1, <2>2, <2>3, <2>4 DEF Next
<1>3. RoundInv => CompactedOnce
  BY DEF RoundInv, Named, CompactedOnce
<1>4. QED
  BY <1>1, <1>2, <1>3, MaintenanceTypes, PTL DEF Spec

-----------------------------------------------------------------------------
\* Every variable of the plugins for the agent keeps its type, whatever becomes
\* of the agent: an exception nobody catches ends them with a status as well.
THEOREM MonTypes == MonInit /\ [][MonNext]_monvars => []MonTypeOK
<1>1. MonInit => MonTypeOK
  <2> SUFFICES ASSUME MonInit PROVE MonTypeOK
    OBVIOUS
  <2>1. age = 0 /\ age \in 0..MaxAge
    BY AgesAssumption DEF MonInit
  <2>2. pidfile \in BOOLEAN
    BY DEF MonInit
  <2> QED
    BY <2>1, <2>2 DEF MonInit, MonTypeOK
<1>2. MonTypeOK /\ [MonNext]_monvars => MonTypeOK'
  <2> SUFFICES ASSUME MonTypeOK, [MonNext]_monvars PROVE MonTypeOK'
    OBVIOUS
  <2> USE AgesAssumption DEF MonTypeOK
  <2>1. CASE AgentStarts
    BY <2>1 DEF AgentStarts
  <2>2. CASE AgentDies
    BY <2>2 DEF AgentDies
  <2>3. ASSUME NEW kind \in Runs, RunEnds(kind) PROVE MonTypeOK'
    BY <2>3 DEF RunEnds, Runs
  <2>4. CASE SummaryLost
    BY <2>4 DEF SummaryLost, Runs
  <2>5. CASE TimeGoesBy
    BY <2>5 DEF TimeGoesBy
  <2>6. CASE CheckProcess
    BY <2>6 DEF CheckProcess
  <2>7. CASE CheckLastRun
    <3>1. LastRunVerdict \in 0..2
      BY DEF LastRunVerdict, Runs
    <3> QED
      BY <2>7, <3>1 DEF CheckLastRun
  <2>8. CASE UNCHANGED monvars
    BY <2>8 DEF monvars
  <2> QED
    BY <2>1, <2>2, <2>3, <2>4, <2>5, <2>6, <2>7, <2>8 DEF MonNext
<1> QED
  BY <1>1, <1>2, PTL

-----------------------------------------------------------------------------
(***************************************************************************)
(* AzkabanClient.  The inductive invariant says, as long as no user        *)
(* meddles, who has created the project that a client finds: no client     *)
(* that is about to create one has done so before, and one that has is     *)
(* still on its way or ended by an error that is its own.                  *)
(***************************************************************************)

ProjectHasCreator == created # {} => project # "missing"

CreateHasCause ==
    \A c \in Clients :
        azcpc[c] = "create" =>
            /\ request[c].create
            /\ ~meddled => c \notin created /\ (project = "missing" \/ created # {})

CliInv ==
    /\ CliTypeOK
    /\ CreateHasCause
    /\ ~meddled => ProjectHasCreator /\ created = Winners
    /\ CreateThenUpload
    /\ BuildErrorIsReal

USE DEF Requests, Ended

\* No client has asked for anything yet.
LEMMA InitCli == CliInit => CliInv
BY DEF CliInit, CliInv, CliTypeOK, CreateHasCause, ProjectHasCreator, Winners,
       CreateThenUpload, BuildErrorIsReal

\* A step of one client leaves the others as they are, and leads it to one of
\* the places that the loop has for it.
Leads(c, e) ==
    /\ UNCHANGED <<request, meddled>>
    /\ azcpc' \in [Clients -> {"upload", "create"} \cup Ended]
    /\ error' \in [Clients -> {"none", "missing", "refused", "exists", "fault"}]
    /\ \A d \in Clients \ {c} : azcpc'[d] = azcpc[d] /\ error'[d] = error[d]
    /\ error'[c] = e /\ (azcpc'[c] = "failed" <=> e # "none")

\* An error that is caught leads to a creation or is the one that is shown.
Caught(c, e) ==
    IF request[c].create /\ e = "missing"
    THEN azcpc'[c] = "create" /\ Leads(c, "none")
    ELSE Leads(c, e)

LEMMA CatchError ==
    ASSUME CliInv, NEW c \in Clients, NEW e \in {"missing", "refused", "fault"},
           azcpc[c] = "upload", Catch(c, e), UNCHANGED <<request, meddled>>
    PROVE  Caught(c, e)
<1> USE DEF CliInv, CliTypeOK
<1>1. error[c] = "none"
  OBVIOUS
<1>2. CASE request[c].create /\ e = "missing"
  BY <1>1, <1>2 DEF Caught, Leads, Catch, GoesTo
<1>3. CASE ~(request[c].create /\ e = "missing")
  BY <1>3 DEF Caught, Leads, Catch, Fail
<1> QED BY <1>2, <1>3

\* While nobody meddles, one that has created the project goes on to its upload
\* or ends by an error of its own.
LEMMA WinnersStay ==
    ASSUME CliInv, NEW c \in Clients, NEW e, Leads(c, e), ~meddled,
           created' = created \/ created' = created \cup {c},
           c \in created' => azcpc'[c] \in {"upload", "done"} \/ e \in {"refused", "fault"}
    PROVE  created' = Winners' /\ Winners \subseteq Winners'
<1> USE DEF CliInv, Winners, Leads, CliTypeOK
<1>1. created = Winners /\ created' \subseteq Clients
  OBVIOUS
<1>2. ASSUME NEW d \in created'
      PROVE  azcpc'[d] \in {"upload", "done"} \/ error'[d] \in {"refused", "fault"}
  <2>1. CASE d = c
    BY <1>2, <2>1
  <2>2. CASE d # c
    BY <1>1, <1>2, <2>2
  <2> QED BY <2>1, <2>2
<1> QED BY <1>1, <1>2

\* What a step of a client keeps: it deletes nothing, what it creates is there,
\* and its place in the loop has the cause it should have.
LEMMA StepKeeps ==
    ASSUME CliInv, NEW c \in Clients, NEW e, Leads(c, e),
           project' \in {"missing", "empty"} \cup Clients,
           project # "missing" => project' # "missing",
           \/ created' = created /\ (project = "missing" => project' = "missing")
           \/ created' = created \cup {c} /\ project' # "missing",
           ~meddled /\ c \in created' =>
               azcpc'[c] \in {"upload", "done"} \/ e \in {"refused", "fault"},
           azcpc'[c] = "create" =>
               request[c].create /\ project = "missing" /\ UNCHANGED <<project, created>>,
           e = "exists" => request[c].create /\ (~meddled => created \ {c} # {}),
           request[c].create /\ request[c].good => e \in {"none", "fault", "exists"}
    PROVE  CliInv'
<1>1. CliTypeOK'
  BY DEF CliInv, CliTypeOK, Leads
<1>2. ~meddled' => ProjectHasCreator' /\ created' = Winners' /\ Winners \subseteq Winners'
  BY WinnersStay DEF CliInv, ProjectHasCreator, Leads
<1>3. CreateHasCause'
  <2> SUFFICES ASSUME NEW d \in Clients, azcpc'[d] = "create"
               PROVE  /\ request[d].create
                      /\ ~meddled => d \notin created' /\ (project' = "missing" \/ created' # {})
    BY DEF CreateHasCause, Leads
  <2>1. CASE d = c
    BY <2>1 DEF CliInv, ProjectHasCreator
  <2>2. CASE d # c
    BY <2>2 DEF CliInv, CreateHasCause, Leads
  <2> QED BY <2>1, <2>2
<1>4. BuildErrorIsReal'
  <2> SUFFICES ASSUME NEW d \in Clients, error'[d] = "exists"
               PROVE  request[d].create /\ (meddled \/ Winners' \ {d} # {})
    BY DEF BuildErrorIsReal, Beaten, Leads
  <2>1. CASE d = c
    BY <1>2, <2>1 DEF CliInv, Leads
  <2>2. CASE d # c
    BY <1>2, <2>2 DEF CliInv, BuildErrorIsReal, Beaten, Leads
  <2> QED BY <2>1, <2>2
<1>5. CreateThenUpload'
  <2> SUFFICES ASSUME NEW d \in Clients,
                      azcpc'[d] = "failed", request[d].create, request[d].good
               PROVE  error'[d] = "fault" \/ Beaten(d)'
    BY DEF CreateThenUpload, Leads
  <2>1. error'[d] \in {"fault", "exists"}
    <3>1. CASE d = c
      BY <3>1 DEF Leads
    <3>2. CASE d # c
      BY <3>2 DEF CliInv, CreateThenUpload, Beaten, Leads
    <3> QED BY <3>1, <3>2
  <2> QED BY <1>4, <2>1 DEF BuildErrorIsReal
<1> QED BY <1>1, <1>2, <1>3, <1>4, <1>5 DEF CliInv

\* An upload that is done, and one that fails.
LEMMA UploadKeeps == ASSUME CliInv, NEW c \in Clients, Upload(c) PROVE CliInv'
<1>1. /\ azcpc[c] = "upload" /\ UNCHANGED <<request, created, meddled>>
      /\ project \in {"missing", "empty"} \cup Clients /\ error[c] = "none"
  BY DEF Upload, CliInv, CliTypeOK
<1>2. CASE project # "missing" /\ request[c].good /\ project' = c /\ GoesTo(c, "done")
  <2>1. Leads(c, "none") /\ azcpc'[c] = "done"
    BY <1>1, <1>2 DEF Leads, GoesTo, CliInv, CliTypeOK
  <2>2. c # "missing"
    BY ClientsAssumption
  <2> QED BY <1>1, <1>2, <2>1, <2>2, StepKeeps
<1>3. ASSUME NEW e \in {"missing", "refused"}, Catch(c, e), UNCHANGED project,
             e = "missing" <=> project = "missing", e = "refused" => ~request[c].good
      PROVE  CliInv'
  <2>1. Caught(c, e)
    BY <1>1, <1>3, CatchError
  <2>2. CASE request[c].create /\ e = "missing"
    <3>1. Leads(c, "none") /\ azcpc'[c] = "create"
      BY <2>1, <2>2 DEF Caught
    <3>2. ~meddled => c \notin created
      BY <1>3, <2>2 DEF CliInv, ProjectHasCreator
    <3> QED BY <1>1, <1>3, <2>2, <3>1, <3>2, StepKeeps
  <2>3. CASE ~(request[c].create /\ e = "missing")
    <3>1. Leads(c, e) /\ azcpc'[c] = "failed"
      BY <2>1, <2>3 DEF Caught, Leads
    <3>2. ~meddled /\ c \in created => e = "refused"
      BY <1>3 DEF CliInv, ProjectHasCreator
    <3> QED BY <1>1, <1>3, <2>3, <3>1, <3>2, StepKeeps
  <2> QED BY <2>2, <2>3
<1> QED BY <1>2, <1>3 DEF Upload

\* A creation that succeeds is that of a winner; one that fails has been beaten.
LEMMA CreateKeeps == ASSUME CliInv, NEW c \in Clients, Create(c) PROVE CliInv'
<1>1. /\ azcpc[c] = "create" /\ UNCHANGED <<request, meddled>>
      /\ project \in {"missing", "empty"} \cup Clients /\ error[c] = "none"
      /\ request[c].create
      /\ ~meddled => c \notin created /\ (project = "missing" \/ created # {})
  BY DEF Create, CliInv, CliTypeOK, CreateHasCause
<1>2. CASE project = "missing"
  <2>1. /\ Leads(c, "none") /\ azcpc'[c] = "upload"
        /\ project' = "empty" /\ created' = created \cup {c}
    BY <1>1, <1>2 DEF Create, Leads, GoesTo, CliInv, CliTypeOK
  <2> QED BY <1>1, <1>2, <2>1, StepKeeps
<1>3. CASE project # "missing"
  <2>1. /\ Leads(c, "exists") /\ azcpc'[c] = "failed"
        /\ UNCHANGED <<project, created>>
    BY <1>1, <1>3 DEF Create, Leads, Fail, CliInv, CliTypeOK
  <2> QED BY <1>1, <1>3, <2>1, StepKeeps
<1> QED BY <1>2, <1>3

\* A request that fails ends the client, whatever the server has done.
LEMMA FaultKeeps == ASSUME CliInv, NEW c \in Clients, RequestFails(c) PROVE CliInv'
<1>1. /\ UNCHANGED <<request, meddled>>
      /\ project \in {"missing", "empty"} \cup Clients
  BY DEF RequestFails, CliInv, CliTypeOK
<1>2. ASSUME Leads(c, "fault"), azcpc'[c] = "failed",
             \/ UNCHANGED <<project, created>>
             \/ project # "missing" /\ project' = c /\ UNCHANGED created
             \/ project = "missing" /\ project' = "empty" /\ created' = created \cup {c}
      PROVE  CliInv'
  BY <1>1, <1>2, StepKeeps, ClientsAssumption
<1>3. CASE /\ azcpc[c] = "upload" /\ Catch(c, "fault") /\ UNCHANGED created
           /\ UNCHANGED project \/ (project # "missing" /\ request[c].good /\ project' = c)
  <2>1. Leads(c, "fault") /\ azcpc'[c] = "failed"
    BY <1>1, <1>3, CatchError DEF Caught, Leads
  <2> QED BY <1>2, <1>3, <2>1
<1>4. CASE /\ azcpc[c] = "create" /\ Fail(c, "fault")
           /\ \/ UNCHANGED <<project, created>>
              \/ project = "missing" /\ project' = "empty" /\ created' = created \cup {c}
  <2>1. Leads(c, "fault") /\ azcpc'[c] = "failed"
    BY <1>1, <1>4 DEF Fail, Leads, CliInv, CliTypeOK
  <2> QED BY <1>2, <1>4, <2>1
<1> QED BY <1>3, <1>4 DEF RequestFails

\* Whoever meddles is the excuse of every client from then on.
LEMMA UsersKeep == ASSUME CliInv, UsersMove PROVE CliInv'
BY DEF CliInv, UsersMove, CliTypeOK, CreateHasCause, CreateThenUpload, BuildErrorIsReal, Beaten

\* What the invariant of the clients is: it holds in every state that the loop
\* of build_project reaches.
THEOREM ClientInvariant == CliInit /\ [][CliNext]_clivars => []CliInv
<1>1. CliInv /\ [CliNext]_clivars => CliInv'
  <2> SUFFICES ASSUME CliInv, [CliNext]_clivars PROVE CliInv'
    OBVIOUS
  <2>1. ASSUME NEW c \in Clients, ClientStep(c) PROVE CliInv'
    BY <2>1, UploadKeeps, CreateKeeps, FaultKeeps DEF ClientStep
  <2>2. CASE UNCHANGED clivars
    BY <2>2 DEF clivars, CliInv, CliTypeOK, CreateHasCause, ProjectHasCreator, Winners,
                CreateThenUpload, BuildErrorIsReal, Beaten
  <2> QED BY <2>1, <2>2, UsersKeep DEF CliNext
<1> QED BY <1>1, InitCli, PTL

\* The variables of the clients keep their types, and a client has an error
\* exactly when its loop has ended with one.
THEOREM ClientTypes == CliSpec => []CliTypeOK
BY ClientInvariant, PTL DEF CliSpec, CliInv

\* With --create an accepted archive is uploaded, but for a fault or a client
\* that was faster and has not been beaten itself.
THEOREM CreateUploads == CliSpec => []CreateThenUpload
BY ClientInvariant, PTL DEF CliSpec, CliInv

\* A build says that the project exists only when another one has created it.
THEOREM BuildShowsItsError == CliSpec => []BuildErrorIsReal
BY ClientInvariant, PTL DEF CliSpec, CliInv

HIDE DEF Requests, Ended

-----------------------------------------------------------------------------
\* A step of one tool is no step of any other: each of them does what its own
\* module describes, but for the fairness, which is that of the tool that is
\* looked at.
THEOREM ToolsAreSeparate ==
    HostToolsSpec =>
        Spec /\ (MonInit /\ [][MonNext]_monvars) /\ (CliInit /\ [][CliNext]_clivars)
<1> DEFINE allvars == <<tool, vars, monvars, clivars>>
<1>1. HostToolsInit => Init /\ MonInit /\ CliInit
  BY DEF HostToolsInit
<1>2. [HostToolsNext]_allvars => [Next]_vars /\ [MonNext]_monvars /\ [CliNext]_clivars
  BY DEF HostToolsNext
<1>3. HostToolsSpec => HostToolsInit /\ [][HostToolsNext]_allvars
  BY DEF HostToolsSpec
<1> QED
  BY <1>1, <1>2, <1>3, PTL DEF Spec

\* Every variable of every tool keeps its type.
THEOREM ToolsTypes == HostToolsSpec => []HostToolsTypeOK
<1>1. HostToolsTypeOK <=> TypeOK /\ MonTypeOK /\ CliTypeOK
  BY DEF HostToolsTypeOK
<1>2. CliInv => CliTypeOK
  BY DEF CliInv
<1> QED
  BY <1>1, <1>2, ToolsAreSeparate, MaintenanceTypes, MonTypes, ClientInvariant, PTL

\* What is promised of the tools holds of them together.
THEOREM ToolsKeepPromises ==
    HostToolsSpec => [](CompactedOnce /\ CreateThenUpload /\ BuildErrorIsReal)
<1>1. CliInv => CreateThenUpload /\ BuildErrorIsReal
  BY DEF CliInv
<1> QED
  BY <1>1, ToolsAreSeparate, MasterCompactsOnce, ClientInvariant, PTL
=============================================================================
