----------------------------- MODULE MCHostTools -----------------------------
(***************************************************************************)
(* The tools that run on or beside the hosts: the daily maintenance of     *)
(* HBase, the plugins for the Puppet agent, and the Azkaban client.  They  *)
(* share nothing, so each behaviour is one of a single tool, while the     *)
(* others wait in one of their initial states.                             *)
(***************************************************************************)
EXTENDS MCHBaseMaintenance, AgentMonitor, AzkabanClient

CONSTANTS c1, c2

VARIABLE tool       \* the one that is looked at

\* Two clients at the same project.
MCClients == {c1, c2}

OthersWait ==
    /\ IF tool = "maintenance" THEN TRUE ELSE master = None
    /\ IF tool = "monitor" THEN TRUE ELSE options = "numbers"
    /\ IF tool = "client" THEN TRUE
       ELSE /\ project = "missing"
            /\ request = [c \in Clients |-> [create |-> FALSE, good |-> FALSE]]

HostToolsInit ==
    /\ tool \in {"maintenance", "monitor", "client"}
    /\ OthersWait
    /\ Init /\ MonInit /\ CliInit

HostToolsNext ==
    /\ UNCHANGED tool
    /\ \/ tool = "maintenance" /\ Next /\ UNCHANGED <<monvars, clivars>>
       \/ tool = "monitor" /\ MonNext /\ UNCHANGED <<vars, clivars>>
       \/ tool = "client" /\ CliNext /\ UNCHANGED <<vars, monvars>>

\* Every variable of every tool has its type.
HostToolsTypeOK == TypeOK /\ MonTypeOK /\ CliTypeOK

HostToolsSpec ==
    /\ HostToolsInit /\ [][HostToolsNext]_<<tool, vars, monvars, clivars>>
    /\ tool = "monitor" => MonFairness
    /\ tool = "client" => CliFairness
=============================================================================
