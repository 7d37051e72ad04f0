---------------------------- MODULE AgentMonitor ----------------------------
(***************************************************************************)
(* The two nrpe plugins that watch the Puppet agent of a host: one for its *)
(* process, check_puppet_agent_process.sh, one for the summary that its    *)
(* last run has left, check_puppet_agent_last_run.py.                      *)
(***************************************************************************)
EXTENDS Naturals

CONSTANTS WarningAge, CriticalAge,      \* -w and -c
          MaxAge                        \* the age of a summary stops here

ASSUME AgesAssumption ==
    /\ WarningAge \in Nat /\ CriticalAge \in Nat /\ MaxAge \in Nat
    /\ WarningAge < CriticalAge /\ CriticalAge < MaxAge

VARIABLES
    options,        \* of the command line: whether both are given, as numbers
    agent,          \* the agent's process
    pidfile,        \* a pid can be read from its pid file
    summary,        \* last_run_summary.yaml
    age,            \* since the run that wrote it
    processStatus, lastRunStatus    \* what the plugins said last
monvars == <<options, agent, pidfile, summary, age, processStatus, lastRunStatus>>

\* A run that has no catalog leaves a summary without the resources' section.
Runs == {"clean", "failures", "partial"}

MonTypeOK ==
    /\ options \in {"numbers", "words", "incomplete"}
    /\ agent \in {"up", "dead"}
    /\ pidfile \in BOOLEAN
    /\ summary \in Runs \cup {"missing", "empty"}
    /\ age \in 0..MaxAge /\ (summary = "missing" => age = 0)
    /\ processStatus \in 0..2 /\ lastRunStatus \in 0..2

MonInit ==
    /\ options \in {"numbers", "words", "incomplete"}
    /\ agent = "dead" /\ pidfile = FALSE
    /\ summary = "missing" /\ age = 0
    /\ processStatus = 2 /\ lastRunStatus = 2

-----------------------------------------------------------------------------
\* The plugin may not be able to read the pid file of an agent that runs.
AgentStarts ==
    /\ agent = "dead"
    /\ agent' = "up" /\ pidfile' \in BOOLEAN
    /\ UNCHANGED <<options, summary, age, processStatus, lastRunStatus>>

\* An agent that is killed leaves its pid file.
AgentDies ==
    /\ agent = "up"
    /\ agent' = "dead" /\ pidfile' \in {pidfile, FALSE}
    /\ UNCHANGED <<options, summary, age, processStatus, lastRunStatus>>

RunEnds(kind) ==
    /\ agent = "up"
    /\ summary' = kind /\ age' = 0
    /\ UNCHANGED <<options, agent, pidfile, processStatus, lastRunStatus>>

\* The cache is cleared, or the disk is full when a run ends.
SummaryLost ==
    /\ \/ summary # "missing" /\ summary' = "missing" /\ age' = 0
       \/ summary \in Runs /\ summary' = "empty" /\ UNCHANGED age
    /\ UNCHANGED <<options, agent, pidfile, processStatus, lastRunStatus>>

TimeGoesBy ==
    /\ summary # "missing" /\ age < MaxAge
    /\ age' = age + 1
    /\ UNCHANGED <<options, agent, pidfile, summary, processStatus, lastRunStatus>>

\* "2&>" makes 2 an argument of ps, which then finds the second process of the
\* kernel, whatever the first pid is: a pid file is as good as a process.
CheckProcess ==
    /\ processStatus' = IF pidfile THEN 0 ELSE IF agent = "up" THEN 1 ELSE 2
    /\ UNCHANGED <<options, agent, pidfile, summary, age, lastRunStatus>>

\* (variants with a mistake: failures are looked at first; a run that failed
\* is as good as any; a summary just as old as -w is too old)
VerdictFailuresFirst ==
    CASE options = "incomplete" -> 2
      [] options = "words" -> 1
      [] summary \in {"missing", "empty"} -> 2
      [] summary \in {"partial", "failures"} -> 1
      [] OTHER -> IF age > CriticalAge THEN 2 ELSE IF age > WarningAge THEN 1 ELSE 0
VerdictByAge ==
    CASE options = "incomplete" -> 2
      [] options = "words" -> 1
      [] summary \in {"missing", "empty"} -> 2
      [] summary = "partial" -> 1
      [] OTHER -> IF age > CriticalAge THEN 2 ELSE IF age > WarningAge THEN 1 ELSE 0
VerdictInclusive ==
    CASE options = "incomplete" -> 2
      [] options = "words" -> 1
      [] summary \in {"missing", "empty"} -> 2
      [] summary = "partial" -> 1
      [] OTHER -> IF age >= CriticalAge THEN 2
                  ELSE IF age >= WarningAge \/ summary = "failures" THEN 1 ELSE 0

\* A threshold that is no number, and a summary without one of its sections,
\* end the plugin by an exception it does not catch, with status 1.  The age
\* goes before the failures.
LastRunVerdict ==
    CASE options = "incomplete" -> 2
      [] options = "words" -> 1
      [] summary \in {"missing", "empty"} -> 2
      [] summary = "partial" -> 1
      [] OTHER -> IF age > CriticalAge THEN 2
                  ELSE IF age > WarningAge \/ summary = "failures" THEN 1 ELSE 0

CheckLastRun ==
    /\ lastRunStatus' = LastRunVerdict
    /\ UNCHANGED <<options, agent, pidfile, summary, age, processStatus>>

MonNext ==
    \/ AgentStarts
    \/ AgentDies
    \/ \E kind \in Runs : RunEnds(kind)
    \/ SummaryLost
    \/ TimeGoesBy
    \/ CheckProcess
    \/ CheckLastRun

\* nrpe runs the plugins again and again, and time passes.
MonFairness ==
    WF_monvars(CheckProcess) /\ WF_monvars(CheckLastRun) /\ WF_monvars(TimeGoesBy)

MonSpec == MonInit /\ [][MonNext]_monvars /\ MonFairness

-----------------------------------------------------------------------------
Configured == options = "numbers"

\* An agent that is dead and stays so becomes a critical alarm of the last-run
\* plugin for good -- the process plugin does not see it when the pid file was
\* left -- unless its last run was one without a catalog, whose summary lines 49
\* to 51 mean to be critical as well, but which ends the plugin with a warning.
SilenceNoticed ==
    Configured /\ <>[](agent = "dead" /\ summary # "partial") => <>[](lastRunStatus = 2)

\* Runs that keep failing are reported for good, however often they are
\* repeated and whatever the summary is like.
FailuresNoticed ==
    Configured /\ <>[](summary \in {"failures", "partial"}) => <>[](lastRunStatus # 0)

\* An agent whose runs are clean and frequent enough is not reported for ever:
\* no alarm outlives its cause.
AlarmClears ==
    Configured /\ <>[](summary = "clean" /\ age <= WarningAge) => <>[](lastRunStatus = 0)

\* The message of the process plugin (line 14): "There's PID file with
\* ${agent_pid} PID but no process running".  An agent that stays dead is
\* reported by it, as a critical alarm.
DeadAgentReported ==
    <>[](agent = "dead") => <>[](processStatus = 2)
=============================================================================
