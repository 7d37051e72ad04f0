------------------------------ MODULE MCPlugins ------------------------------
(***************************************************************************)
(* The nrpe plugins and the facts of a host.  They share nothing, so each  *)
(* behaviour is one of a single plugin, while the others wait in a state   *)
(* that is one of their initial ones.                                      *)
(***************************************************************************)
EXTENDS MCCheckIo, CheckZookeeper, CheckClusterHealth, CheckAzkabanJob, EsNodes

CONSTANTS s1, s2, d1, d2

VARIABLE plugin     \* the one that is started

\* Two servers, thresholds in both directions and equal ones, every handler.
MCServers == {s1, s2}

Option(servers, output, key, valid, thresholds, leader) ==
    [servers |-> servers, output |-> output, key |-> key, valid |-> valid,
     warning |-> thresholds[1], critical |-> thresholds[2], leader |-> leader]
MCOptions ==
    {Option("list", "nagios", k, TRUE, t, FALSE) :
        k \in {"both", "mntr", "text"}, t \in {<<1, 2>>, <<1, 0>>, <<1, 1>>}}
    \cup {Option("list", "nagios", k, v, <<1, 2>>, FALSE) :
            k \in {"none", "unknown", "both"}, v \in BOOLEAN}
    \cup {Option("list", "cacti", k, TRUE, <<1, 2>>, l) :
            k \in {"none", "unknown"}, l \in BOOLEAN}
    \cup {Option("list", "cacti", "mntr", TRUE, <<1, 2>>, TRUE)}
    \cup {Option(s, o, "unknown", TRUE, <<1, 2>>, FALSE) :
            s \in {"missing", "malformed", "list"}, o \in {"none", "ganglia", "other"}}

MCDataDisks == {d1, d2}

\* One node of each kind.
MCNodes == {[name |-> 1, kind |-> "dsesd"], [name |-> 2, kind |-> "dsesm"],
            [name |-> 3, kind |-> "other"]}

\* Two executions may be active in a check of the duration, and five are
\* what a critical threshold of 4 fetches.
MCHistory == [c \in CheckTypes |-> IF c = "failures" THEN 5 ELSE 2]

\* The camus check's own limits, a duration, and critical thresholds around 3.
MCChecks ==
    {[check |-> c, warn |-> 1, crit |-> 3] : c \in {"camus", "duration"}}
    \cup {[check |-> "failures", warn |-> 1, crit |-> n] : n \in 2..4}

\* Each exchanges what one plugin only knows.
MCPluginSymmetry == MCSymmetry \cup Permutations(MCServers) \cup Permutations(MCDataDisks)

\* What the plugins that are not started have for their inputs.
OthersWait ==
    /\ IF plugin = "check_io" THEN TRUE ELSE args = Arg(2, 1, {}, <<40, 60>>, <<0, 0>>, <<0, 0>>)
    /\ IF plugin = "check_zookeeper" THEN TRUE
       ELSE /\ opts = Option("list", "none", "unknown", TRUE, <<1, 2>>, FALSE)
            /\ role = [s \in Servers |-> "down"]
            /\ asked = s1
    /\ IF plugin = "check_cluster_health" THEN TRUE ELSE mounted = {} /\ fstab = {}
    /\ IF plugin = "esnodes" THEN TRUE ELSE up = {} /\ members = {}
    /\ IF plugin = "check_azkaban_job" THEN TRUE
       ELSE /\ line = [check |-> "duration", warn |-> 1, crit |-> 3]
            /\ execution = <<>> /\ now = Epoch

PluginsInit ==
    /\ plugin \in {"check_io", "check_zookeeper", "check_cluster_health",
                   "check_azkaban_job", "esnodes"}
    /\ OthersWait
    /\ Init /\ ZkInit /\ ChInit /\ AzInit /\ EsInit

PluginsNext ==
    /\ UNCHANGED plugin
    /\ \/ plugin = "check_io" /\ Next /\ UNCHANGED <<zkvars, chvars, azvars, esvars>>
       \/ plugin = "check_zookeeper" /\ ZkNext /\ UNCHANGED <<vars, chvars, azvars, esvars>>
       \/ plugin = "check_cluster_health" /\ ChNext /\ UNCHANGED <<vars, zkvars, azvars, esvars>>
       \/ plugin = "check_azkaban_job" /\ AzNext /\ UNCHANGED <<vars, zkvars, chvars, esvars>>
       \/ plugin = "esnodes" /\ EsNext /\ UNCHANGED <<vars, zkvars, chvars, azvars>>

\* Every variable of every plugin has its type.
PluginsTypeOK == TypeOK /\ ZkTypeOK /\ ChTypeOK /\ AzTypeOK /\ EsTypeOK

PluginsSpec == PluginsInit /\ [][PluginsNext]_<<plugin, vars, zkvars, chvars, azvars, esvars>>
=============================================================================
