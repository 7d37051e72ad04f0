----------------------------- MODULE InitScript -----------------------------
(***************************************************************************)
(* The init script of the batch readers, and whoever calls it: init at     *)
(* boot, the Puppet agent, an operator.  The script keeps the pid of the   *)
(* daemon in a file, looks the pid up with ps, and takes no lock; between  *)
(* any two of its commands the daemon may die, another program may be      *)
(* given the pid, or another invocation may run.                           *)
(***************************************************************************)
CONSTANTS
    Callers,        \* who calls the script
    Pids,           \* process ids
    ForeignPids,    \* those the kernel may also give to other programs
    None            \* no pid

ASSUME PidsAssumption == ForeignPids \subseteq Pids /\ None \notin Pids

VARIABLES
    proc,       \* what runs under each pid
    pidfile,    \* content of /var/run/<name>.pid, None without the file
    pc,         \* the command each invocation is at
    cmd,        \* the argument of the current or last invocation
    result,     \* its exit status
    launched,   \* $! of the invocation, None if it launched nothing
    raced       \* history: two invocations have overlapped since the boot

vars == <<proc, pidfile, pc, cmd, result, launched, raced>>

Commands == {"start", "stop", "restart"}

TypeOK ==
    /\ proc \in [Pids -> {"free", "daemon", "stopping", "other"}]
    /\ pidfile \in Pids \cup {None}
    /\ pc \in [Callers -> {"idle", "start", "launch", "write", "verify",
                           "stop", "kill", "wait", "remove", "recheck"}]
    /\ cmd \in [Callers -> Commands]
    /\ result \in [Callers -> {"running", "ok", "failed"}]
    /\ launched \in [Callers -> Pids \cup {None}]
    /\ raced \in BOOLEAN

Init ==
    /\ proc = [p \in Pids |-> "free"]
    /\ pidfile = None
    /\ pc = [c \in Callers |-> "idle"]
    /\ cmd = [c \in Callers |-> "stop"]
    /\ result = [c \in Callers |-> "ok"]
    /\ launched = [c \in Callers |-> None]
    /\ raced = FALSE

\* (variant with a mistake: a pid file is enough)
IsRunningByFile == pidfile # None

\* ps only asks whether a process has the pid, not which one.
is_running == pidfile # None /\ proc[pidfile] # "free"

Daemons == {p \in Pids : proc[p] \in {"daemon", "stopping"}}

GoTo(c, label) ==
    /\ pc' = [pc EXCEPT ![c] = label]
    /\ UNCHANGED result

Finish(c, status) ==
    /\ pc' = [pc EXCEPT ![c] = "idle"]
    /\ result' = [result EXCEPT ![c] = status]

-----------------------------------------------------------------------------
Call(c, k) ==
    /\ pc[c] = "idle"
    /\ pc' = [pc EXCEPT ![c] = IF k = "start" THEN "start" ELSE "stop"]
    /\ cmd' = [cmd EXCEPT ![c] = k]
    /\ result' = [result EXCEPT ![c] = "running"]
    /\ launched' = [launched EXCEPT ![c] = None]
    /\ raced' = (raced \/ \E d \in Callers : pc[d] # "idle")
    /\ UNCHANGED <<proc, pidfile>>

StartCheck(c) ==
    /\ pc[c] = "start"
    /\ IF is_running THEN Finish(c, "ok") ELSE GoTo(c, "launch")
    /\ UNCHANGED <<proc, pidfile, cmd, launched, raced>>

\* The daemon is put in the background ...
Launch(c) ==
    /\ pc[c] = "launch"
    /\ \E p \in Pids :
        /\ proc[p] = "free"
        /\ proc' = [proc EXCEPT ![p] = "daemon"]
        /\ launched' = [launched EXCEPT ![c] = p]
    /\ GoTo(c, "write")
    /\ UNCHANGED <<pidfile, cmd, raced>>

\* ... and its pid is written by a command of its own.
WritePid(c) ==
    /\ pc[c] = "write"
    /\ pidfile' = launched[c]
    /\ GoTo(c, "verify")
    /\ UNCHANGED <<proc, cmd, launched, raced>>

StartVerify(c) ==
    /\ pc[c] = "verify"
    /\ Finish(c, IF is_running THEN "ok" ELSE "failed")
    /\ UNCHANGED <<proc, pidfile, cmd, launched, raced>>

\* "$0 stop" of a restart returns to the restart whatever its exit status.
AfterStop(c, status) ==
    IF cmd[c] = "restart" THEN GoTo(c, "recheck") ELSE Finish(c, status)

StopCheck(c) ==
    /\ pc[c] = "stop"
    /\ IF is_running THEN GoTo(c, "kill") ELSE AfterStop(c, "ok")
    /\ UNCHANGED <<proc, pidfile, cmd, launched, raced>>

\* kill `get_pid`: the pid file is read again, and what has the pid by now
\* gets the signal.
Kill(c) ==
    /\ pc[c] = "kill"
    /\ IF ~is_running THEN UNCHANGED proc
       ELSE \/ proc[pidfile] = "other" /\ UNCHANGED proc
            \/ proc' = [proc EXCEPT ![pidfile] = IF @ = "other" THEN "free" ELSE "stopping"]
    /\ GoTo(c, "wait")
    /\ UNCHANGED <<pidfile, cmd, launched, raced>>

\* (variant with a mistake: the pid file is removed right after the kill)
StopWaitNotVerified(c) ==
    /\ pc[c] = "wait"
    /\ GoTo(c, "remove")
    /\ UNCHANGED <<proc, pidfile, cmd, launched, raced>>

\* The wait loop only takes time: the step is taken early when the daemon is
\* gone, and late otherwise.
StopWait(c) ==
    /\ pc[c] = "wait"
    /\ IF is_running THEN AfterStop(c, "failed") ELSE GoTo(c, "remove")
    /\ UNCHANGED <<proc, pidfile, cmd, launched, raced>>

\* (variant with a mistake: the file is emptied, not removed)
TruncatePid(c) ==
    /\ pc[c] = "remove"
    /\ pidfile' = "empty"
    /\ AfterStop(c, "ok")
    /\ UNCHANGED <<proc, cmd, launched, raced>>

\* rm "$pid_file", whatever it contains by now.
RemovePid(c) ==
    /\ pc[c] = "remove"
    /\ pidfile' = None
    /\ AfterStop(c, "ok")
    /\ UNCHANGED <<proc, cmd, launched, raced>>

\* (variants with a mistake: a restart ends well without a start when it could
\* not stop; or starts whether it could stop or not, past the check of start)
RestartCheckLenient(c) ==
    /\ pc[c] = "recheck"
    /\ IF is_running THEN Finish(c, "ok") ELSE GoTo(c, "start")
    /\ UNCHANGED <<proc, pidfile, cmd, launched, raced>>
RestartUnchecked(c) ==
    /\ pc[c] = "recheck"
    /\ GoTo(c, "launch")
    /\ UNCHANGED <<proc, pidfile, cmd, launched, raced>>

\* "Unable to stop, will not attempt to start", or "$0 start".
RestartCheck(c) ==
    /\ pc[c] = "recheck"
    /\ IF is_running THEN Finish(c, "failed") ELSE GoTo(c, "start")
    /\ UNCHANGED <<proc, pidfile, cmd, launched, raced>>

ScriptStep(c) ==
    \/ StartCheck(c)
    \/ Launch(c)
    \/ WritePid(c)
    \/ StartVerify(c)
    \/ StopCheck(c)
    \/ Kill(c)
    \/ StopWait(c)
    \/ RemovePid(c)
    \/ RestartCheck(c)

-----------------------------------------------------------------------------
\* The machine.

Processes == UNCHANGED <<pidfile, pc, cmd, result, launched, raced>>

DaemonDies(p) ==
    /\ proc[p] = "daemon"
    /\ proc' = [proc EXCEPT ![p] = "free"]
    /\ Processes

\* A daemon that has got the signal finishes shutting down.
DaemonStopped(p) ==
    /\ proc[p] = "stopping"
    /\ proc' = [proc EXCEPT ![p] = "free"]
    /\ Processes

OtherProgram(p) ==
    /\ p \in ForeignPids
    /\ \/ proc[p] = "free" /\ proc' = [proc EXCEPT ![p] = "other"]
       \/ proc[p] = "other" /\ proc' = [proc EXCEPT ![p] = "free"]
    /\ Processes

\* Nothing survives a boot, and /var/run is empty after it.
Boot ==
    /\ proc' = [p \in Pids |-> "free"]
    /\ pidfile' = None
    /\ pc' = [c \in Callers |-> "idle"]
    /\ cmd' = [c \in Callers |-> "stop"]
    /\ result' = [c \in Callers |-> "ok"]
    /\ launched' = [c \in Callers |-> None]
    /\ raced' = FALSE

Next ==
    \/ \E c \in Callers, k \in Commands : Call(c, k)
    \/ \E c \in Callers : ScriptStep(c)
    \/ \E p \in Pids : DaemonDies(p) \/ DaemonStopped(p) \/ OtherProgram(p)
    \/ Boot

Spec == Init /\ [][Next]_vars

\* The commands of the script end, a daemon that got the signal ends, and the
\* Puppet agent calls start on every run that finds the service stopped.
FairSpec ==
    /\ Spec
    /\ \A c \in Callers : WF_vars(ScriptStep(c)) /\ WF_vars(Call(c, "start"))
    /\ \A p \in Pids : WF_vars(DaemonStopped(p))

-----------------------------------------------------------------------------
\* As long as invocations do not overlap there is at most one daemon, one
\* that is still shutting down included: nothing in the script but the order
\* of its commands keeps a restart from running two.
OneDaemon == ~raced => \A p, q \in Daemons : p = q

\* A daemon that invocations cannot find again could never be stopped: while
\* they do not overlap the pid file names the live daemon, except before the
\* invocation that has just launched it writes the pid.
NoOrphan ==
    ~raced =>
        \A p \in Daemons :
            \/ pidfile = p
            \/ \E c \in Callers : pc[c] = "write" /\ launched[c] = p

\* A restart that ends with success has launched a new daemon, so what it was
\* called for -- new files to be read -- has happened, unless it overlapped
\* with another invocation, or took another program under the pid of a dead
\* daemon for it.
RestartLaunches ==
    [][\A c \in Callers :
        (~raced' /\ cmd'[c] = "restart" /\ result[c] = "running" /\ result'[c] = "ok") =>
            \/ launched[c] # None
            \/ pidfile # None /\ proc[pidfile] = "other"]_vars

\* Whatever overlapped or died before, once only starts are called and the
\* daemon does not die any more, there is a daemon for good: a stale pid file
\* does not keep the script from starting it, unless another program has been
\* given the pid in the file, or no pid is left for a daemon.
Steady ==
    \/ \E c \in Callers : Call(c, "start") \/ ScriptStep(c)
    \/ \E p \in Pids : DaemonStopped(p)
StrangerNamed == pidfile # None /\ proc[pidfile] = "other"
NoPidLeft == \A p \in Pids : proc[p] = "other"
StartsAgain ==
    <>[][Steady]_vars =>
        <>[](StrangerNamed \/ NoPidLeft \/ \E p \in Pids : proc[p] = "daemon")

\* The script implements the single daemon that its callers rely on: what is
\* in the pid file, and the commands between a call and its exit status, stay
\* its own business.
Single == INSTANCE SingleDaemon WITH
    daemons <- Daemons,
    serving <- [c \in Callers |-> IF pc[c] = "idle" THEN "nothing" ELSE cmd[c]],
    answers <- result,
    disturbed <- raced
ImplementsSingleDaemon == Single!Spec
=============================================================================
