--------------------------- MODULE CheckZookeeper ---------------------------
(***************************************************************************)
(* check_zookeeper.py, the nrpe plugin that asks the servers of an         *)
(* ensemble for their statistics, one after the other, and judges one of   *)
(* the values, while servers fail and leadership moves between the         *)
(* answers.  A reply is whatever a single recv returns.                    *)
(***************************************************************************)
EXTENDS Integers, FiniteSets

CONSTANTS
    Servers,        \* the servers of the command line, asked in any order
    Options,        \* command lines
    MaxValue        \* the value asked for is one of 0..MaxValue, or a text

\* A text that is no number stays a text, and Python 2 has any text greater
\* than any number.
Text == MaxValue + 1
Absent == -1

\* Keys are told apart by who knows them: mntr and stat, mntr alone, none of
\* them, and those whose value is a text.
ASSUME OptionsAssumption ==
    /\ MaxValue \in Nat
    /\ Options \subseteq
        [servers : {"missing", "malformed", "list"},
         output : {"none", "nagios", "cacti", "ganglia", "other"},
         key : {"none", "both", "mntr", "unknown", "text"},
         valid : BOOLEAN, warning : 0..MaxValue, critical : 0..MaxValue,
         leader : BOOLEAN]

VARIABLES
    zkpc,       \* where main is
    opts,       \* the command line
    left,       \* servers still to be asked
    asked,      \* the server that stat is sent to
    role,       \* the ensemble
    stats,      \* cluster_stats of the servers that answered
    real,       \* history: the value each server had when it answered
    cut,        \* history: servers whose reply was not received whole
    steady,     \* history: the ensemble has not changed since the first question
    crashed,    \* history: ended by an exception nobody catches
    zkstatus    \* exit status

zkvars == <<zkpc, opts, left, asked, role, stats, real, cut, steady, crashed, zkstatus>>

Ensembles ==
    {r \in [Servers -> {"leader", "follower", "electing", "down"}] :
        \A s, t \in Servers : r[s] = "leader" /\ r[t] = "leader" => s = t}

Nothing == [value |-> Absent, state |-> "unknown"]

ZkTypeOK ==
    /\ zkpc \in {"cli", "poll", "stat", "analyze", "done"}
    /\ opts \in Options
    /\ left \subseteq Servers /\ (zkpc = "stat" => asked \in left)
    /\ role \in Ensembles
    /\ DOMAIN stats \subseteq Servers \ left
    /\ stats \in [DOMAIN stats -> [value : Absent..Text,
                                   state : {"leader", "follower", "unknown"}]]
    /\ real \in [Servers -> Absent..Text]
    /\ cut \subseteq Servers
    /\ steady \in BOOLEAN /\ crashed \in BOOLEAN
    /\ zkstatus \in 0..3

ZkInit ==
    /\ zkpc = "cli"
    /\ opts \in Options
    /\ left = {}
    /\ asked \in Servers
    /\ role \in Ensembles
    /\ stats = [s \in {} |-> Nothing]
    /\ real = [s \in Servers |-> Absent]
    /\ cut = {}
    /\ steady = TRUE /\ crashed = FALSE
    /\ zkstatus = 0

ZkExit(code) ==
    /\ zkpc' = "done"
    /\ zkstatus' = code

ZkCrash == ZkExit(1) /\ crashed' = TRUE

-----------------------------------------------------------------------------
ParseCli ==
    /\ zkpc = "cli"
    /\ IF opts.servers = "missing" THEN ZkExit(2) ELSE zkpc' = "poll" /\ UNCHANGED zkstatus
    /\ left' = Servers
    /\ UNCHANGED <<opts, asked, role, stats, real, cut, steady, crashed>>

\* A server without a port: the loop over the servers cannot unpack it.
MalformedServer ==
    /\ zkpc = "poll"
    /\ opts.servers = "malformed"
    /\ ZkCrash
    /\ UNCHANGED <<opts, left, asked, role, stats, real, cut, steady>>

\* Refused, reset, or no answer within the timeout: the server is left out.
SocketError(s) ==
    /\ \/ zkpc = "poll" /\ s \in left
       \/ zkpc = "stat" /\ s = asked
    /\ left' = left \ {s}
    /\ zkpc' = "poll"
    /\ UNCHANGED <<opts, asked, role, stats, real, cut, steady, crashed, zkstatus>>

\* A server answered, and its value was v.
Answered(s, v, entry) ==
    /\ stats' = [t \in DOMAIN stats \cup {s} |-> IF t = s THEN entry ELSE stats[t]]
    /\ real' = [real EXCEPT ![s] = v]
    /\ left' = left \ {s}
    /\ zkpc' = "poll"
    /\ UNCHANGED <<opts, asked, role, steady, crashed, zkstatus>>

RealValues == IF opts.key = "text" THEN {Text} ELSE 0..MaxValue

KnownTo(cmd) == opts.key \in IF cmd = "mntr" THEN {"both", "mntr", "text"} ELSE {"both", "text"}

\* What is left of a value when the reply ends in the middle of it: fewer
\* digits, or none, which mntr's parser keeps as a text.
Prefixes(cmd, v) ==
    IF cmd = "mntr" THEN 0..v \cup {Text} ELSE IF v = Text THEN {Text} ELSE 0..v

\* The whole reply, or the beginning of it.
Reply(s, cmd) ==
    \E v \in IF KnownTo(cmd) THEN RealValues ELSE {Absent} :
        \/ /\ Answered(s, v, [value |-> v, state |-> role[s]])
           /\ UNCHANGED cut
        \/ \E w \in {Absent} \cup (IF KnownTo(cmd) THEN Prefixes(cmd, v) ELSE {}),
              r \in {role[s], "unknown"} :
            /\ Answered(s, v, [value |-> w, state |-> r])
            /\ cut' = cut \cup {s}

\* An empty reply, as of a server before 3.4, is followed by stat on a
\* connection of its own; one that is not serving says so in a line without
\* a tab, which the parser ignores.
Mntr(s) ==
    /\ zkpc = "poll"
    /\ s \in left
    /\ role[s] # "down"
    /\ \/ /\ zkpc' = "stat" /\ asked' = s
          /\ UNCHANGED <<opts, left, role, stats, real, cut, steady, crashed, zkstatus>>
       \/ /\ role[s] = "electing"
          /\ Answered(s, Absent, Nothing) /\ UNCHANGED cut
       \/ /\ role[s] # "electing"
          /\ Reply(s, "mntr")

\* The line of a server that is not serving has no colon either, nor has the
\* beginning of any other reply, and here nothing catches the exception.
Stat(s) ==
    /\ zkpc = "stat"
    /\ s = asked
    /\ role[s] # "down"
    /\ \/ Answered(s, Absent, Nothing) /\ cut' = cut \cup {s}
       \/ /\ ZkCrash
          /\ UNCHANGED <<opts, left, asked, role, stats, real, cut, steady>>
       \/ /\ role[s] # "electing"
          /\ Reply(s, "stat")

\* get_cluster_stats returns.
AllAsked ==
    /\ zkpc = "poll"
    /\ left = {}
    /\ opts.servers # "malformed"
    /\ zkpc' = "analyze"
    /\ UNCHANGED <<opts, left, asked, role, stats, real, cut, steady, crashed, zkstatus>>

-----------------------------------------------------------------------------
Known == {s \in DOMAIN stats : stats[s].value # Absent}

InWarning(v) ==
    \/ opts.warning >= v /\ v > opts.critical
    \/ opts.warning <= v /\ v < opts.critical

\* (variant with a mistake: an exact hit is not critical)
InCriticalStrict(v) ==
    /\ ~InWarning(v)
    /\ \/ opts.warning < opts.critical /\ opts.critical < v
       \/ opts.warning > opts.critical /\ opts.critical > v

InCritical(v) ==
    /\ ~InWarning(v)
    /\ \/ opts.warning < opts.critical /\ opts.critical <= v
       \/ opts.warning > opts.critical /\ opts.critical >= v

Nagios ==
    IF ~opts.valid \/ opts.key = "none" THEN 2
    ELSE IF \E s \in Known : InCritical(stats[s].value) THEN 2
    ELSE IF \E s \in Known : InWarning(stats[s].value) THEN 1
    ELSE 0

\* (variant with a mistake: a server without an answer leaves nobody to lead)
LeadersOfAll == {s \in Servers : DOMAIN stats = Servers /\ stats[s].state = "leader"}

Leaders == {s \in DOMAIN stats : stats[s].state = "leader"}

\* The first of several that say they lead is taken.
Cacti ==
    IF opts.key = "none" THEN {1}
    ELSE IF ~opts.leader THEN {0}
    ELSE IF Leaders = {} THEN {3}
    ELSE {IF s \in Known THEN 0 ELSE 2 : s \in Leaders}

\* One call of gmetric for each number; 1 when gmetric cannot be run.
Ganglia == IF Cardinality(DOMAIN stats) # 1 THEN {1} ELSE {0, 1}

Analyze ==
    /\ zkpc = "analyze"
    /\ \E code \in CASE opts.output = "none" -> {0}
                     [] opts.output = "nagios" -> {Nagios}
                     [] opts.output = "cacti" -> Cacti
                     [] opts.output = "ganglia" -> Ganglia
                     [] opts.output = "other" -> {1} :
        ZkExit(code)
    /\ UNCHANGED <<opts, left, asked, role, stats, real, cut, steady, crashed>>

\* The ensemble moves on while it is asked.
EnsembleChanges ==
    /\ zkpc \in {"poll", "stat"} /\ left # {}
    /\ role' \in Ensembles \ {role}
    /\ steady' = FALSE
    /\ UNCHANGED <<zkpc, opts, left, asked, stats, real, cut, crashed, zkstatus>>

ZkNext ==
    \/ ParseCli
    \/ MalformedServer
    \/ \E s \in Servers : SocketError(s) \/ Mntr(s) \/ Stat(s)
    \/ AllAsked
    \/ Analyze
    \/ EnsembleChanges

ZkSpec == ZkInit /\ [][ZkNext]_zkvars

-----------------------------------------------------------------------------
\* What the two thresholds mean: a range that grows worse upwards when the
\* critical one is the higher, downwards when it is the lower.  Equal
\* thresholds mean nothing to the plugin, no value is ever reported.
Beyond(v, threshold) ==
    IF opts.warning < opts.critical THEN v >= threshold ELSE v <= threshold
Severity(v) ==
    IF opts.warning = opts.critical THEN 0
    ELSE IF Beyond(v, opts.critical) THEN 2
    ELSE IF Beyond(v, opts.warning) THEN 1
    ELSE 0

Judged == zkpc = "done" /\ opts.output = "nagios" /\ opts.servers = "list" /\ ~crashed

\* A server whose value is beyond a threshold is reported as bad as it is,
\* whatever the others answer or fail to answer, if its reply was whole and
\* none of the others ends the plugin by an exception.  OK therefore means that
\* no value was beyond a threshold, but not that there was one: servers that
\* fail, or do not know the key, are left out, all of them together as well.
ZkSeverityReported ==
    Judged => \A s \in Known \ cut : zkstatus >= Severity(real[s])

\* As long as leadership does not move while the servers are asked, "No leader
\* found" is said only when the leader could not be reached or its reply was
\* cut, and never of an ensemble whose leader answered.
ZkLeaderFound ==
    (zkpc = "done" /\ opts.output = "cacti" /\ zkstatus = 3 /\ steady) =>
        \A s \in DOMAIN stats \ cut : role[s] # "leader"
=============================================================================
