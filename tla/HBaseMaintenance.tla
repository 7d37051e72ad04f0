-------------------------- MODULE HBaseMaintenance --------------------------
(***************************************************************************)
(* maintenance_daily.sh, which cron starts at the same minute on every     *)
(* HBase master host.  Each host asks who the active master is and goes on *)
(* to a major compaction of the tables if the answer is itself; the active *)
(* master may change or be lost at any time.                               *)
(***************************************************************************)

CONSTANTS
    Hosts,      \* hosts with an HBase master
    None        \* no active master

ASSUME NoneIsNoHost == None \notin Hosts

VARIABLES
    master,     \* the active master
    pc,         \* the command each host is at
    answer,     \* ACTIVE_MASTER of each host
    compacted,  \* history: hosts that started a compaction in this round
    failed,     \* history: hosts on which a command failed in this round
    steady      \* history: the same active master all this round

vars == <<master, pc, answer, compacted, failed, steady>>

TypeOK ==
    /\ master \in Hosts \cup {None}
    /\ pc \in [Hosts -> {"waiting", "ask", "decide", "compact", "compacting", "done"}]
    /\ answer \in [Hosts -> Hosts \cup {None}]
    /\ \A h \in Hosts : pc[h] \in {"compact", "compacting"} => answer[h] \in {None, h}
    /\ compacted \subseteq Hosts
    /\ failed \subseteq Hosts
    /\ steady \in BOOLEAN

Init ==
    /\ master \in Hosts \cup {None}
    /\ pc = [h \in Hosts |-> "waiting"]
    /\ answer = [h \in Hosts |-> None]
    /\ compacted = {}
    /\ failed = {}
    /\ steady = (master # None)

-----------------------------------------------------------------------------
\* cron on host h.
Start(h) ==
    /\ pc[h] = "waiting"
    /\ pc' = [pc EXCEPT ![h] = "ask"]
    /\ UNCHANGED <<master, answer, compacted, failed, steady>>

GetActiveMaster(h) ==
    /\ pc[h] = "ask"
    /\ answer' = [answer EXCEPT ![h] = master]
    /\ pc' = [pc EXCEPT ![h] = "decide"]
    /\ UNCHANGED <<master, compacted, failed, steady>>

\* set -e: the script ends when the command that asks fails, or the HBase
\* shell.
CommandFails(h) ==
    /\ pc[h] \in {"ask", "compact", "compacting"}
    /\ pc' = [pc EXCEPT ![h] = "done"]
    /\ failed' = failed \cup {h}
    /\ UNCHANGED <<master, answer, compacted, steady>>

\* (variant with a mistake: the comparison is left out)
DecideAlways(h) ==
    /\ pc[h] = "decide"
    /\ pc' = [pc EXCEPT ![h] = "compact"]
    /\ UNCHANGED <<master, answer, compacted, failed, steady>>

\* The answer is compared unquoted.  When there is no master it is no single
\* word, "[" fails, and a failed test in an if is a false one: the script
\* goes on as if the host were the master.
Decide(h) ==
    /\ pc[h] = "decide"
    /\ pc' = [pc EXCEPT ![h] = IF answer[h] \notin {None, h} THEN "done" ELSE "compact"]
    /\ UNCHANGED <<master, answer, compacted, failed, steady>>

Compact(h) ==
    /\ pc[h] = "compact"
    /\ pc' = [pc EXCEPT ![h] = "compacting"]
    /\ compacted' = compacted \cup {h}
    /\ UNCHANGED <<master, answer, failed, steady>>

Finish(h) ==
    /\ pc[h] = "compacting"
    /\ pc' = [pc EXCEPT ![h] = "done"]
    /\ UNCHANGED <<master, answer, compacted, failed, steady>>

\* The next day.
NextRound ==
    /\ \A h \in Hosts : pc[h] = "done"
    /\ pc' = [h \in Hosts |-> "waiting"]
    /\ answer' = [h \in Hosts |-> None]
    /\ compacted' = {}
    /\ failed' = {}
    /\ steady' = (master # None)
    /\ UNCHANGED master

Failover ==
    /\ master' \in (Hosts \cup {None}) \ {master}
    /\ steady' = FALSE
    /\ UNCHANGED <<pc, answer, compacted, failed>>

HostStep(h) ==
    \/ Start(h)
    \/ GetActiveMaster(h)
    \/ CommandFails(h)
    \/ Decide(h)
    \/ Compact(h)
    \/ Finish(h)

Next == (\E h \in Hosts : HostStep(h)) \/ NextRound \/ Failover

Spec == Init /\ [][Next]_vars

-----------------------------------------------------------------------------
\* In a round without a failover no host but the active master compacts, and
\* when the round is over the active master has, unless a command failed
\* there: the tables are compacted once a day, however the hosts interleave.
CompactedOnce ==
    steady =>
        /\ compacted \subseteq {master}
        /\ (\A h \in Hosts : pc[h] = "done") => master \in compacted \cup failed

\* The comment of the script (line 7): execute only if on the active master.
OnlyOnActiveMaster ==
    [][\A h \in Hosts : h \in compacted' \ compacted => h = master]_vars
=============================================================================
