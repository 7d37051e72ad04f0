-------------------------- MODULE InitScriptProofs --------------------------
(***************************************************************************)
(* InitScript for any callers, any pids and any programs they are given    *)
(* to: the type invariant, that invocations which do not overlap never     *)
(* leave two daemons, or one the pid file does not name, and that the      *)
(* script implements SingleDaemon.                                         *)
(***************************************************************************)
EXTENDS InitScript, TLAPS

\* Every variable keeps its type.
THEOREM TypeCorrect == Spec => []TypeOK
<1> USE PidsAssumption
<1>1. Init => TypeOK
  <2> SUFFICES ASSUME Init PROVE TypeOK
    OBVIOUS
  <2>1. proc \in [Pids -> {"free", "daemon", "stopping", "other"}] /\ pidfile \in Pids \cup {None}
    BY DEF Init
  <2>2. pc \in [Callers -> {"idle", "start", "launch", "write", "verify",
                           "stop", "kill", "wait", "remove", "recheck"}]
    BY DEF Init
  <2>3. cmd \in [Callers -> Commands]
    BY DEF Init, Commands
  <2>4. /\ result \in [Callers -> {"running", "ok", "failed"}]
        /\ launched \in [Callers -> Pids \cup {None}]
        /\ raced \in BOOLEAN
    BY DEF Init
  <2> QED BY <2>1, <2>2, <2>3, <2>4 DEF TypeOK
<1>2. TypeOK /\ [Next]_vars => TypeOK'
  <2> SUFFICES ASSUME TypeOK, [Next]_vars
               PROVE  TypeOK'
    OBVIOUS
  <2> USE DEF TypeOK
  <2>1. ASSUME NEW c \in Callers, NEW k \in Commands, Call(c, k) PROVE TypeOK'
    BY <2>1 DEF Call
  <2>2. ASSUME NEW c \in Callers, ScriptStep(c) PROVE TypeOK'
    <3>1. CASE StartCheck(c)  BY <3>1 DEF StartCheck, GoTo, Finish
    <3>2. CASE Launch(c)      BY <3>2 DEF Launch, GoTo
    <3>3. CASE WritePid(c)    BY <3>3 DEF WritePid, GoTo
    <3>4. CASE StartVerify(c) BY <3>4 DEF StartVerify, Finish
    <3>5. CASE StopCheck(c)   BY <3>5 DEF StopCheck, AfterStop, GoTo, Finish
    <3>6. CASE Kill(c)        BY <3>6 DEF Kill, GoTo, is_running
    <3>7. CASE StopWait(c)    BY <3>7 DEF StopWait, AfterStop, GoTo, Finish
    <3>8. CASE RemovePid(c)   BY <3>8 DEF RemovePid, AfterStop, GoTo, Finish
    <3>9. CASE RestartCheck(c) BY <3>9 DEF RestartCheck, GoTo, Finish
    <3> QED
      BY <2>2, <3>1, <3>2, <3>3, <3>4, <3>5, <3>6, <3>7, <3>8, <3>9 DEF ScriptStep
  <2>3. ASSUME NEW p \in Pids, DaemonDies(p) \/ DaemonStopped(p) \/ OtherProgram(p)
        PROVE  TypeOK'
    BY <2>3 DEF DaemonDies, DaemonStopped, OtherProgram, Processes
  <2>4. CASE Boot
    BY <2>4 DEF Boot, Commands
  <2>5. CASE UNCHANGED vars
    BY <2>5 DEF vars
  <2> QED
    BY <2>1, <2>2, <2>3, <2>4, <2>5 DEF Next
<1> QED
  BY <1>1, <1>2, PTL DEF Spec

\* What holds between the commands of an invocation that nobody overlaps:
\* it has seen every daemon gone before it launches one or removes the file.
Alone ==
    ~raced =>
        /\ \A c, d \in Callers : pc[c] # "idle" /\ pc[d] # "idle" => c = d
        /\ \A c \in Callers : pc[c] \in {"launch", "remove"} => Daemons = {}
        /\ \A c \in Callers : pc[c] = "write" => Daemons \subseteq {launched[c]}

SafetyInv == Alone /\ OneDaemon /\ NoOrphan

\* A daemon that no invocation is about to name is in the pid file, so a
\* check that finds nothing running has seen that there is none.
LEMMA NothingRunning ==
    ASSUME TypeOK, NoOrphan, Alone, ~raced, ~is_running,
           NEW c \in Callers, pc[c] \notin {"idle", "write"}
    PROVE  Daemons = {}
<1>1. SUFFICES ASSUME NEW p \in Daemons PROVE FALSE
  OBVIOUS
<1>2. p # None /\ proc[p] # "free" /\ p # pidfile
  BY PidsAssumption DEF Daemons, is_running
<1>3. PICK d \in Callers : pc[d] = "write"
  BY <1>2 DEF NoOrphan
<1>4. c = d
  BY <1>3 DEF Alone
<1> QED
  BY <1>3, <1>4

\* No step of an invocation that is alone breaks the invariant.
LEMMA ScriptSafe ==
    ASSUME TypeOK, SafetyInv, ~raced, NEW c \in Callers, ScriptStep(c)
    PROVE  SafetyInv'
<1> USE PidsAssumption DEF SafetyInv
<1>1. /\ \A d \in Callers : d # c => pc[d] = "idle"
      /\ pc \in [Callers -> {"idle", "start", "launch", "write", "verify",
                             "stop", "kill", "wait", "remove", "recheck"}]
      /\ pc[c] # "idle"
  BY DEF TypeOK, Alone, ScriptStep, StartCheck, Launch, WritePid, StartVerify,
         StopCheck, Kill, StopWait, RemovePid, RestartCheck
<1>2. CASE StartCheck(c)
  <2>1. ~is_running => Daemons = {}
    BY <1>2, NothingRunning DEF StartCheck
  <2> QED
    BY <1>1, <1>2, <2>1
    DEF StartCheck, GoTo, Finish, Alone, OneDaemon, NoOrphan, Daemons
<1>3. CASE Launch(c)
  <2>1. Daemons = {}
    BY <1>3 DEF Launch, Alone
  <2>2. PICK p \in Pids : /\ proc' = [proc EXCEPT ![p] = "daemon"]
                          /\ launched' = [launched EXCEPT ![c] = p]
    BY <1>3 DEF Launch
  <2>3. Daemons' = {p} /\ launched'[c] = p
    BY <2>1, <2>2 DEF Daemons, TypeOK
  <2>4. pc' = [pc EXCEPT ![c] = "write"] /\ UNCHANGED raced
    BY <1>3 DEF Launch, GoTo
  <2> QED
    BY <1>1, <2>3, <2>4 DEF Alone, OneDaemon, NoOrphan
<1>4. CASE WritePid(c)
  <2>1. Daemons' = Daemons /\ Daemons \subseteq {launched[c]} /\ pidfile' = launched[c]
    BY <1>4 DEF WritePid, Alone, Daemons
  <2> QED
    BY <1>1, <1>4, <2>1 DEF WritePid, GoTo, Alone, OneDaemon, NoOrphan
<1>5. CASE StartVerify(c)
  BY <1>1, <1>5 DEF StartVerify, Finish, Alone, OneDaemon, NoOrphan, Daemons
<1>6. CASE StopCheck(c)
  BY <1>1, <1>6
  DEF StopCheck, AfterStop, GoTo, Finish, Alone, OneDaemon, NoOrphan, Daemons
<1>7. CASE Kill(c)
  <2>1. Daemons' = Daemons
    BY <1>7 DEF Kill, Daemons, TypeOK, is_running
  <2> QED
    BY <1>1, <1>7, <2>1 DEF Kill, GoTo, Alone, OneDaemon, NoOrphan
<1>8. CASE StopWait(c)
  <2>1. ~is_running => Daemons = {}
    BY <1>8, NothingRunning DEF StopWait
  <2> QED
    BY <1>1, <1>8, <2>1
    DEF StopWait, AfterStop, GoTo, Finish, Alone, OneDaemon, NoOrphan, Daemons
<1>9. CASE RemovePid(c)
  <2>1. Daemons' = {}
    BY <1>9 DEF RemovePid, Alone, Daemons
  <2> QED
    BY <1>1, <1>9, <2>1
    DEF RemovePid, AfterStop, GoTo, Finish, Alone, OneDaemon, NoOrphan
<1>10. CASE RestartCheck(c)
  BY <1>1, <1>10
  DEF RestartCheck, GoTo, Finish, Alone, OneDaemon, NoOrphan, Daemons
<1> QED
  BY <1>2, <1>3, <1>4, <1>5, <1>6, <1>7, <1>8, <1>9, <1>10 DEF ScriptStep

\* Processes that end, or that are no daemons, do no harm.
LEMMA MachineSafe ==
    ASSUME TypeOK, SafetyInv, NEW p \in Pids,
           DaemonDies(p) \/ DaemonStopped(p) \/ OtherProgram(p)
    PROVE  SafetyInv'
<1>1. Daemons' \subseteq Daemons
  BY DEF TypeOK, Daemons, DaemonDies, DaemonStopped, OtherProgram
<1>2. UNCHANGED <<pidfile, pc, launched, raced>>
  BY DEF DaemonDies, DaemonStopped, OtherProgram, Processes
<1> QED
  BY <1>1, <1>2 DEF SafetyInv, Alone, OneDaemon, NoOrphan

\* The inductive invariant behind the theorems that follow: the order of the
\* script's commands is what keeps it.
THEOREM SafetyInvariant == Spec => []SafetyInv
<1>1. Init => SafetyInv
  BY DEF Init, SafetyInv, Alone, OneDaemon, NoOrphan, Daemons
<1>2. TypeOK /\ TypeOK' /\ SafetyInv /\ [Next]_vars => SafetyInv'
  <2> SUFFICES ASSUME TypeOK, TypeOK', SafetyInv, [Next]_vars
               PROVE  SafetyInv'
    OBVIOUS
  <2>1. ASSUME NEW c \in Callers, NEW k \in Commands, Call(c, k) PROVE SafetyInv'
    <3>1. /\ Daemons' = Daemons
          /\ raced' = (raced \/ \E d \in Callers : pc[d] # "idle")
          /\ pc' = [pc EXCEPT ![c] = IF k = "start" THEN "start" ELSE "stop"]
          /\ launched' = [launched EXCEPT ![c] = None]
          /\ pidfile' = pidfile
      BY <2>1 DEF Call, Daemons
    <3>2. CASE raced'
      BY <3>2 DEF SafetyInv, Alone, OneDaemon, NoOrphan
    <3>3. CASE ~raced'
      <4>1. ~raced /\ \A d \in Callers : pc[d] = "idle"
        BY <3>1, <3>3
      <4>2. \A p \in Daemons : pidfile = p
        BY <4>1 DEF SafetyInv, NoOrphan
      <4>3. \A d \in Callers : pc'[d] \in {"idle", "start", "stop"}
                             /\ (pc'[d] # "idle" => d = c)
        BY <3>1, <4>1 DEF TypeOK
      <4> QED
        BY <3>1, <4>1, <4>2, <4>3 DEF SafetyInv, Alone, OneDaemon, NoOrphan
    <3> QED
      BY <3>2, <3>3
  <2>2. ASSUME NEW c \in Callers, ScriptStep(c) PROVE SafetyInv'
    <3>1. raced' = raced
      BY <2>2 DEF ScriptStep, StartCheck, Launch, WritePid, StartVerify,
                  StopCheck, Kill, StopWait, RemovePid, RestartCheck
    <3>2. CASE raced
      BY <3>1, <3>2 DEF SafetyInv, Alone, OneDaemon, NoOrphan
    <3> QED
      BY <2>2, <3>2, ScriptSafe
  <2>3. ASSUME NEW p \in Pids, DaemonDies(p) \/ DaemonStopped(p) \/ OtherProgram(p)
        PROVE  SafetyInv'
    BY <2>3, MachineSafe
  <2>4. CASE Boot
    BY <2>4 DEF Boot, SafetyInv, Alone, OneDaemon, NoOrphan, Daemons
  <2>5. CASE UNCHANGED vars
    BY <2>5 DEF vars, SafetyInv, Alone, OneDaemon, NoOrphan, Daemons
  <2> QED
    BY <2>1, <2>2, <2>3, <2>4, <2>5 DEF Next
<1> QED
  BY <1>1, <1>2, TypeCorrect, PTL DEF Spec

\* While invocations do not overlap, there is at most one daemon: for any
\* number of callers, daemons that die at any moment, and pids given to other
\* programs.
THEOREM AtMostOneDaemon == Spec => []OneDaemon
  BY SafetyInvariant, PTL DEF SafetyInv

\* While invocations do not overlap, no daemon is out of reach of a stop.
THEOREM EveryDaemonNamed == Spec => []NoOrphan
  BY SafetyInvariant, PTL DEF SafetyInv

-----------------------------------------------------------------------------
\* A restart gets to its start only after it has seen every daemon gone, and
\* whoever is past a launch knows the pid.
RestartInv ==
    /\ \A c \in Callers : pc[c] \in {"write", "verify"} => launched[c] # None
    /\ ~raced =>
        \A c \in Callers : cmd[c] = "restart" /\ pc[c] = "start" => Daemons = {}

\* No step of an invocation breaks RestartInv.
LEMMA ScriptRestarts ==
    ASSUME TypeOK, SafetyInv, RestartInv, NEW c \in Callers, ScriptStep(c)
    PROVE  RestartInv'
<1> USE PidsAssumption DEF RestartInv
<1>1. /\ pc \in [Callers -> {"idle", "start", "launch", "write", "verify",
                             "stop", "kill", "wait", "remove", "recheck"}]
      /\ launched \in [Callers -> Pids \cup {None}]
      /\ UNCHANGED <<raced, cmd>>
  BY DEF TypeOK, ScriptStep, StartCheck, Launch, WritePid, StartVerify,
         StopCheck, Kill, StopWait, RemovePid, RestartCheck
<1>2. CASE StartCheck(c)
  BY <1>1, <1>2 DEF StartCheck, GoTo, Finish, Daemons
<1>3. CASE Launch(c)
  <2>1. PICK p \in Pids : launched' = [launched EXCEPT ![c] = p]
    BY <1>3 DEF Launch
  <2>2. pc[c] = "launch" /\ pc' = [pc EXCEPT ![c] = "write"]
    BY <1>3 DEF Launch, GoTo
  <2>3. \A d \in Callers : pc'[d] \in {"write", "verify"} => launched'[d] # None
    BY <1>1, <2>1, <2>2
  <2>4. ~raced => \A d \in Callers : pc'[d] # "start"
    BY <1>1, <2>2 DEF SafetyInv, Alone
  <2> QED
    BY <1>1, <2>3, <2>4
<1>4. CASE WritePid(c)
  BY <1>1, <1>4 DEF WritePid, GoTo, Daemons
<1>5. CASE StartVerify(c)
  BY <1>1, <1>5 DEF StartVerify, Finish, Daemons
<1>6. CASE StopCheck(c)
  BY <1>1, <1>6 DEF StopCheck, AfterStop, GoTo, Finish, Daemons
<1>7. CASE Kill(c)
  <2>1. Daemons' = Daemons
    BY <1>7 DEF Kill, Daemons, TypeOK, is_running
  <2> QED
    BY <1>1, <1>7, <2>1 DEF Kill, GoTo
<1>8. CASE StopWait(c)
  BY <1>1, <1>8 DEF StopWait, AfterStop, GoTo, Finish, Daemons
<1>9. CASE RemovePid(c)
  BY <1>1, <1>9 DEF RemovePid, AfterStop, GoTo, Finish, Daemons
<1>10. CASE RestartCheck(c)
  <2>1. ~raced /\ ~is_running => Daemons = {}
    BY <1>10, NothingRunning DEF RestartCheck, SafetyInv
  <2>2. Daemons' = Daemons /\ UNCHANGED launched
    BY <1>10 DEF RestartCheck, Daemons
  <2>3. \/ pc' = [pc EXCEPT ![c] = "idle"]
        \/ ~is_running /\ pc' = [pc EXCEPT ![c] = "start"]
    BY <1>10 DEF RestartCheck, GoTo, Finish
  <2> QED
    BY <1>1, <2>1, <2>2, <2>3
<1> QED
  BY <1>2, <1>3, <1>4, <1>5, <1>6, <1>7, <1>8, <1>9, <1>10 DEF ScriptStep

\* The inductive invariant behind RestartLaunches.
THEOREM RestartInvariant == Spec => []RestartInv
<1>1. Init => RestartInv
  BY DEF Init, RestartInv
<1>2. TypeOK /\ SafetyInv /\ RestartInv /\ [Next]_vars => RestartInv'
  <2> SUFFICES ASSUME TypeOK, SafetyInv, RestartInv, [Next]_vars
               PROVE  RestartInv'
    OBVIOUS
  <2>1. ASSUME NEW c \in Callers, NEW k \in Commands, Call(c, k) PROVE RestartInv'
    <3>1. /\ Daemons' = Daemons
          /\ raced' = (raced \/ \E d \in Callers : pc[d] # "idle")
          /\ pc' = [pc EXCEPT ![c] = IF k = "start" THEN "start" ELSE "stop"]
          /\ cmd' = [cmd EXCEPT ![c] = k]
          /\ launched' = [launched EXCEPT ![c] = None]
      BY <2>1 DEF Call, Daemons
    <3> QED
      BY <3>1 DEF RestartInv, TypeOK
  <2>2. ASSUME NEW c \in Callers, ScriptStep(c) PROVE RestartInv'
    BY <2>2, ScriptRestarts
  <2>3. ASSUME NEW p \in Pids, DaemonDies(p) \/ DaemonStopped(p) \/ OtherProgram(p)
        PROVE  RestartInv'
    <3>1. Daemons' \subseteq Daemons /\ UNCHANGED <<pc, cmd, launched, raced>>
      BY <2>3 DEF TypeOK, Daemons, DaemonDies, DaemonStopped, OtherProgram, Processes
    <3> QED
      BY <3>1 DEF RestartInv
  <2>4. CASE Boot
    BY <2>4 DEF Boot, RestartInv
  <2>5. CASE UNCHANGED vars
    BY <2>5 DEF vars, RestartInv, Daemons
  <2> QED
    BY <2>1, <2>2, <2>3, <2>4, <2>5 DEF Next
<1> QED
  BY <1>1, <1>2, TypeCorrect, SafetyInvariant, PTL DEF Spec

\* A restart that nobody overlaps and that ends with success has launched a
\* daemon, unless another program had the pid of a daemon that died.
THEOREM RestartHasLaunched == Spec => RestartLaunches
<1> DEFINE Launches ==
      \A c \in Callers :
        (~raced' /\ cmd'[c] = "restart" /\ result[c] = "running" /\ result'[c] = "ok") =>
            \/ launched[c] # None
            \/ pidfile # None /\ proc[pidfile] = "other"
<1>1. TypeOK /\ RestartInv /\ [Next]_vars => [Launches]_vars
  <2> SUFFICES ASSUME TypeOK, RestartInv, [Next]_vars,
                      NEW d \in Callers, ~raced', cmd'[d] = "restart",
                      result[d] = "running", result'[d] = "ok"
               PROVE  \/ launched[d] # None
                      \/ pidfile # None /\ proc[pidfile] = "other"
    OBVIOUS
  <2>1. \E c \in Callers : ScriptStep(c)
    <3>1. ASSUME NEW c \in Callers, NEW k \in Commands, Call(c, k) PROVE FALSE
      BY <3>1 DEF Call, TypeOK
    <3>2. ASSUME NEW p \in Pids, DaemonDies(p) \/ DaemonStopped(p) \/ OtherProgram(p)
          PROVE  FALSE
      BY <3>2 DEF DaemonDies, DaemonStopped, OtherProgram, Processes
    <3>3. ~Boot /\ ~UNCHANGED vars
      BY DEF Boot, vars
    <3> QED
      BY <3>1, <3>2, <3>3 DEF Next
  <2>2. PICK c \in Callers : ScriptStep(c)
    BY <2>1
  <2>3. UNCHANGED <<raced, cmd>>
    BY <2>2 DEF ScriptStep, StartCheck, Launch, WritePid, StartVerify,
                StopCheck, Kill, StopWait, RemovePid, RestartCheck
  <2>4. CASE StartCheck(c)
    <3>1. c = d /\ is_running /\ pc[d] = "start"
      BY <2>4 DEF StartCheck, GoTo, Finish, TypeOK
    <3>2. Daemons = {}
      BY <2>3, <3>1 DEF RestartInv
    <3> QED
      BY <3>1, <3>2, PidsAssumption DEF is_running, Daemons, TypeOK
  <2>5. CASE StartVerify(c)
    <3>1. c = d /\ pc[d] = "verify"
      BY <2>5 DEF StartVerify, Finish, TypeOK
    <3> QED
      BY <3>1 DEF RestartInv
  <2>6. CASE ~StartCheck(c) /\ ~StartVerify(c)
    BY <2>2, <2>3, <2>6 DEF ScriptStep, Launch, WritePid, StopCheck, Kill, StopWait,
       RemovePid, RestartCheck, AfterStop, GoTo, Finish, TypeOK
  <2> QED
    BY <2>4, <2>5, <2>6
<1> QED
  BY <1>1, TypeCorrect, RestartInvariant, PTL DEF Spec, RestartLaunches

-----------------------------------------------------------------------------
\* An invocation launches only when it was called to.
CommandInv ==
    \A c \in Callers :
        /\ pc[c] \in {"start", "launch", "write", "verify"} => cmd[c] # "stop"
        /\ pc[c] = "recheck" => cmd[c] = "restart"

\* The commands of the script stay within the branch that was asked for.
THEOREM CommandInvariant == Spec => []CommandInv
<1>1. Init => CommandInv
  BY DEF Init, CommandInv
<1>2. TypeOK /\ CommandInv /\ [Next]_vars => CommandInv'
  <2> SUFFICES ASSUME TypeOK, CommandInv, [Next]_vars
               PROVE  CommandInv'
    OBVIOUS
  <2> USE DEF CommandInv, TypeOK
  <2>1. ASSUME NEW c \in Callers, NEW k \in Commands, Call(c, k) PROVE CommandInv'
    BY <2>1 DEF Call, Commands
  <2>2. ASSUME NEW c \in Callers, ScriptStep(c) PROVE CommandInv'
    BY <2>2 DEF ScriptStep, StartCheck, Launch, WritePid, StartVerify, StopCheck,
       Kill, StopWait, RemovePid, RestartCheck, AfterStop, GoTo, Finish
  <2>3. ASSUME NEW p \in Pids, DaemonDies(p) \/ DaemonStopped(p) \/ OtherProgram(p)
        PROVE  CommandInv'
    BY <2>3 DEF DaemonDies, DaemonStopped, OtherProgram, Processes
  <2>4. CASE Boot
    BY <2>4 DEF Boot
  <2>5. CASE UNCHANGED vars
    BY <2>5 DEF vars
  <2> QED
    BY <2>1, <2>2, <2>3, <2>4, <2>5 DEF Next
<1> QED
  BY <1>1, <1>2, TypeCorrect, PTL DEF Spec

\* The state that callers see.
Serving == [c \in Callers |-> IF pc[c] = "idle" THEN "nothing" ELSE cmd[c]]

\* A command of the script is a creation, an answer, or nothing a caller sees.
LEMMA ScriptRefines ==
    ASSUME TypeOK, SafetyInv, CommandInv, NEW c \in Callers, ScriptStep(c)
    PROVE  \/ \E p \in Pids : Single!Create(c, p)
           \/ \E answer \in {"ok", "failed"} : Single!Answer(c, answer)
           \/ UNCHANGED <<Daemons, Serving, result, raced>>
<1> USE PidsAssumption DEF Serving
<1>0. /\ pc \in [Callers -> {"idle", "start", "launch", "write", "verify",
                             "stop", "kill", "wait", "remove", "recheck"}]
      /\ result \in [Callers -> {"running", "ok", "failed"}]
      /\ cmd \in [Callers -> Commands]
      /\ UNCHANGED <<raced, cmd>>
      /\ pc[c] # "idle"
  BY DEF TypeOK, ScriptStep, StartCheck, Launch, WritePid, StartVerify,
         StopCheck, Kill, StopWait, RemovePid, RestartCheck
<1>a. ASSUME NEW label \in {"launch", "write", "verify", "kill", "wait", "remove",
                            "recheck", "start"},
             GoTo(c, label)
      PROVE  UNCHANGED <<Serving, result>>
  BY <1>0, <1>a DEF GoTo
<1>b. ASSUME NEW status \in {"ok", "failed"}, Finish(c, status), Daemons' = Daemons,
             cmd[c] = "stop" /\ status = "ok" => raced \/ Daemons = {}
      PROVE  Single!Answer(c, status)
  <2>1. Serving[c] = cmd[c] /\ cmd[c] # "nothing"
    BY <1>0 DEF Commands
  <2>2. Serving' = [Serving EXCEPT ![c] = "nothing"]
    BY <1>0, <1>b DEF Finish
  <2> QED
    BY <1>0, <1>b, <2>1, <2>2 DEF Single!Answer, Single!Nothing, Finish
<1>1. CASE Launch(c)
  <2>1. PICK p \in Pids : proc' = [proc EXCEPT ![p] = "daemon"]
    BY <1>1 DEF Launch
  <2>2. Daemons' = Daemons \cup {p}
    BY <2>1 DEF Daemons, TypeOK
  <2>3. Serving[c] \in {"start", "restart"}
    BY <1>0, <1>1 DEF Launch, CommandInv, Commands
  <2>4. raced \/ Daemons = {}
    BY <1>1 DEF Launch, SafetyInv, Alone
  <2>5. UNCHANGED <<Serving, result, raced>>
    BY <1>0, <1>1, <1>a DEF Launch
  <2>6. Single!Create(c, p)
    BY <2>2, <2>3, <2>4, <2>5 DEF Single!Create
  <2> QED
    BY <2>6
<1>2. ASSUME ~Launch(c) PROVE Daemons' = Daemons
  BY <1>2 DEF ScriptStep, StartCheck, WritePid, StartVerify, StopCheck, Kill,
     StopWait, RemovePid, RestartCheck, Daemons, TypeOK, is_running
<1>3. CASE StartCheck(c)
  BY <1>0, <1>3, <1>2, <1>a, <1>b DEF StartCheck, CommandInv, Launch
<1>4. CASE WritePid(c)
  BY <1>0, <1>4, <1>2, <1>a DEF WritePid, Launch
<1>5. CASE StartVerify(c)
  BY <1>0, <1>5, <1>2, <1>b DEF StartVerify, CommandInv, Launch
<1>6. CASE StopCheck(c)
  <2>1. ~is_running => raced \/ Daemons = {}
    BY <1>6, NothingRunning DEF StopCheck, SafetyInv
  <2> QED
    BY <1>0, <1>6, <1>2, <1>a, <1>b, <2>1 DEF StopCheck, AfterStop, Launch
<1>7. CASE Kill(c)
  BY <1>0, <1>7, <1>2, <1>a DEF Kill, Launch
<1>8. CASE StopWait(c)
  BY <1>0, <1>8, <1>2, <1>a, <1>b DEF StopWait, AfterStop, Launch
<1>9. CASE RemovePid(c)
  <2>1. raced \/ Daemons = {}
    BY <1>9 DEF RemovePid, SafetyInv, Alone
  <2> QED
    BY <1>0, <1>9, <1>2, <1>a, <1>b, <2>1 DEF RemovePid, AfterStop, Launch
<1>10. CASE RestartCheck(c)
  BY <1>0, <1>10, <1>2, <1>a, <1>b DEF RestartCheck, CommandInv, Launch
<1> QED
  BY <1>1, <1>3, <1>4, <1>5, <1>6, <1>7, <1>8, <1>9, <1>10 DEF ScriptStep

\* The script implements the single daemon that its callers rely on: under the
\* mapping of Single every step is one of the abstract daemon's or is not seen.
THEOREM Refinement == Spec => ImplementsSingleDaemon
<1>1. Init => Single!Init
  BY DEF Init, Single!Init, Single!Nothing, Daemons
<1>2. TypeOK /\ SafetyInv /\ CommandInv /\ [Next]_vars => [Single!Next]_(Single!vars)
  <2> SUFFICES ASSUME TypeOK, SafetyInv, CommandInv, [Next]_vars
               PROVE  Single!Next \/ UNCHANGED <<Daemons, Serving, result, raced>>
    BY DEF Single!vars, Serving
  <2>1. ASSUME NEW c \in Callers, NEW k \in Commands, Call(c, k)
        PROVE  Single!Invoke(c, k)
    <3>1. Serving[c] = "nothing" /\ Daemons' = Daemons
      BY <2>1 DEF Call, Serving, Daemons
    <3>2. Serving' = [Serving EXCEPT ![c] = k]
      BY <2>1 DEF Call, Serving, TypeOK
    <3>3. \A d \in Callers : Serving[d] # "nothing" <=> pc[d] # "idle"
      BY DEF Serving, TypeOK, Commands
    <3> QED
      BY <2>1, <3>1, <3>2, <3>3 DEF Call, Single!Invoke, Single!Nothing, Serving
  <2>2. ASSUME NEW c \in Callers, ScriptStep(c)
        PROVE  Single!Next \/ UNCHANGED <<Daemons, Serving, result, raced>>
    BY <2>2, ScriptRefines DEF Single!Next
  <2>3. ASSUME NEW p \in Pids, DaemonDies(p) \/ DaemonStopped(p)
        PROVE  Single!Vanish(p)
    <3>1. Daemons' = Daemons \ {p}
      BY <2>3 DEF DaemonDies, DaemonStopped, Daemons, TypeOK
    <3> QED
      BY <2>3, <3>1 DEF DaemonDies, DaemonStopped, Processes, Single!Vanish
  <2>4. ASSUME NEW p \in Pids, OtherProgram(p)
        PROVE  UNCHANGED <<Daemons, Serving, result, raced>>
    BY <2>4 DEF OtherProgram, Processes, Daemons, Serving, TypeOK
  <2>5. CASE Boot
    BY <2>5 DEF Boot, Single!Boot, Single!Next, Single!Nothing, Daemons
  <2>6. CASE UNCHANGED vars
    BY <2>6 DEF vars, Daemons, Serving
  <2> QED
    BY <2>1, <2>2, <2>3, <2>4, <2>5, <2>6
    DEF Next, Single!Next, Single!Requests, Commands
<1> QED
  BY <1>1, <1>2, TypeCorrect, SafetyInvariant, CommandInvariant, PTL
  DEF Spec, ImplementsSingleDaemon, Single!Spec
=============================================================================
