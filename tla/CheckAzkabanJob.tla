--------------------------- MODULE CheckAzkabanJob ---------------------------
(***************************************************************************)
(* check_camus.sh and check_azkaban_job.sh, the nrpe plugins for Azkaban   *)
(* flows that run too long or fail too often.  What they judge is put      *)
(* together from requests, each a curl piped into jq, between which        *)
(* executions are submitted, start and end.  A login may be refused and    *)
(* any request may fail, and the scripts look at neither: they go on with  *)
(* what jq printed, which is "null" for an answer without the field and    *)
(* nothing at all without an answer.                                       *)
(***************************************************************************)
EXTENDS Naturals, Sequences, FiniteSets

CONSTANTS
    Checks,         \* command lines: check, thresholds
    Epoch,          \* the wall clock begins here
    MaxDuration,    \* and stops so much later
    MaxHistory      \* executions the server knows of at most, by check

CheckTypes == {"camus", "duration", "failures"}

\* Times are seconds since 1970: later than any threshold.
ASSUME ChecksAssumption ==
    /\ Checks \subseteq [check : CheckTypes, warn : Nat, crit : Nat]
    /\ Epoch \in Nat \ {0} /\ MaxDuration \in Nat
    /\ \A l \in Checks : l.crit <= Epoch
    /\ MaxHistory \in [CheckTypes -> Nat]

VARIABLES
    azpc,       \* the request the script is at
    line,       \* the command line
    execution,  \* status of each execution of the flow, the latest last
    startTime,  \* when it started, 0 before
    now,        \* the wall clock
    session,    \* the login has given a session
    blind,      \* history: a request was refused or got no answer
    found,      \* the execution getRunning named, 0 for none
    jobStart,   \* the start time the script has, 0 for no number
    azstatus    \* exit status

serverVars == <<execution, startTime, now>>
azvars == <<azpc, line, serverVars, session, blind, found, jobStart, azstatus>>

Final == {"FAILED", "SUCCEEDED", "KILLED"}
Statuses == Final \cup {"PREPARING", "RUNNING"}
Times == Epoch..(Epoch + MaxDuration)

Active == {e \in DOMAIN execution : execution[e] \notin Final}

AzTypeOK ==
    /\ azpc \in {"login", "running", "start", "end", "judge", "fetch", "done"}
    /\ line \in Checks
    /\ execution \in Seq(Statuses) /\ Len(execution) <= MaxHistory[line.check]
    /\ startTime \in [DOMAIN execution -> Times \cup {0}]
    /\ \A e \in DOMAIN execution :
           /\ execution[e] = "PREPARING" => startTime[e] = 0
           /\ execution[e] = "RUNNING" => startTime[e] # 0
    /\ now \in Times
    /\ session \in BOOLEAN /\ blind \in BOOLEAN
    /\ found \in DOMAIN execution \cup {0}
    /\ jobStart \in Times \cup {0}
    /\ azstatus \in 0..2

\* Only the check for failures looks at executions that are over, and it does
\* not look at the clock.
AzInit ==
    /\ azpc = "login"
    /\ line \in Checks
    /\ now \in IF line.check = "failures" THEN {Epoch} ELSE Times
    /\ \E n \in 0..MaxHistory[line.check] :
        /\ execution \in [1..n -> IF line.check = "failures" THEN Statuses ELSE Statuses \ Final]
        /\ startTime \in [1..n -> {0} \cup (Epoch..now)]
    /\ \A e \in DOMAIN execution : startTime[e] = 0 <=> execution[e] = "PREPARING"
    /\ session = FALSE /\ blind = FALSE
    /\ found = 0 /\ jobStart = 0
    /\ azstatus = 0

AzExit(code) ==
    /\ azpc' = "done"
    /\ azstatus' = code

\* The script goes on to request r.
GoesTo(r) == azpc' = r /\ UNCHANGED azstatus

-----------------------------------------------------------------------------
\* The login is not answered, refused or accepted; the script goes on.
Login ==
    /\ azpc = "login"
    /\ session' \in BOOLEAN
    /\ blind' = ~session'
    /\ GoesTo(IF line.check = "failures" THEN "fetch" ELSE "running")
    /\ UNCHANGED <<line, serverVars, found, jobStart>>

\* getRunning: nothing running is fine, and so is an answer without execIds,
\* which is the one without a session.  An empty answer is not "null".
AskRunning ==
    /\ azpc = "running"
    /\ \/ /\ ~session \/ Active = {}
          /\ AzExit(0)
          /\ UNCHANGED <<blind, found>>
       \/ /\ session
          /\ found' \in Active
          /\ GoesTo("start")
          /\ UNCHANGED blind
       \/ /\ blind' = TRUE
          /\ GoesTo("start")
          /\ UNCHANGED found
    /\ UNCHANGED <<line, serverVars, session, jobStart>>

\* fetchexecflow: without an answer, and for an execution that has not started,
\* the arithmetic of the shell counts from 1970.
AskStart ==
    /\ azpc = "start"
    /\ \/ /\ found # 0
          /\ jobStart' = startTime[found]
          /\ UNCHANGED blind
       \/ jobStart' = 0 /\ blind' = TRUE
    /\ GoesTo(IF line.check = "camus" THEN "end" ELSE "judge")
    /\ UNCHANGED <<line, serverVars, session, found>>

\* The camus check asks for the end time as well, with a request of its own,
\* and judges nothing unless that is -1: it runs off its end with status 0.
AskEnd ==
    /\ azpc = "end"
    /\ \/ found # 0 /\ found \in Active /\ GoesTo("judge") /\ UNCHANGED blind
       \/ found # 0 /\ found \notin Active /\ AzExit(0) /\ UNCHANGED blind
       \/ AzExit(0) /\ blind' = TRUE
    /\ UNCHANGED <<line, serverVars, session, found, jobStart>>

\* (variant with a mistake: the branches of the camus check are those of the
\* other one, with the limits the wrong way round)
JudgeSwapped ==
    /\ azpc = "judge"
    /\ LET elapsed == now - jobStart
       IN AzExit(IF elapsed >= line.warn THEN 1 ELSE IF elapsed >= line.crit THEN 2 ELSE 0)
    /\ UNCHANGED <<line, serverVars, session, blind, found, jobStart>>

\* The duration up to now, of an execution that has ended since as well.  The
\* camus check has no branch for a duration equal to its lower limit but the
\* last one.
JudgeDuration ==
    /\ azpc = "judge"
    /\ LET elapsed == now - jobStart
       IN AzExit(IF elapsed >= line.crit \/ (line.check = "camus" /\ elapsed = line.warn) THEN 2
                 ELSE IF elapsed >= line.warn THEN 1
                 ELSE 0)
    /\ UNCHANGED <<line, serverVars, session, blind, found, jobStart>>

\* One execution more than are to be counted is fetched.
Fetched == {e \in DOMAIN execution : e + line.crit >= Len(execution)}

\* (variant with a mistake: the fourth one is dropped in any case)
CountedFourth == Fetched \ {Len(execution) - 3}

\* The latest is dropped if it is running, or else the fourth, whatever these
\* are.
Counted ==
    IF Fetched # {} /\ execution[Len(execution)] = "RUNNING"
    THEN Fetched \ {Len(execution)}
    ELSE Fetched \ {Len(execution) - 3}

Verdict(count) == IF count >= line.crit THEN 2 ELSE IF count >= line.warn THEN 1 ELSE 0

Failed(executions) == {e \in executions : execution[e] = "FAILED"}

\* Without an answer, or without a session, there is nothing to count.
JudgeFailures ==
    /\ azpc = "fetch"
    /\ \/ session /\ AzExit(Verdict(Cardinality(Failed(Counted)))) /\ UNCHANGED blind
       \/ AzExit(Verdict(0)) /\ blind' = TRUE
    /\ UNCHANGED <<line, serverVars, session, found, jobStart>>

-----------------------------------------------------------------------------
\* The server: executions are submitted, start, and end, started or not.
ExecutionSubmitted ==
    /\ Len(execution) < MaxHistory[line.check]
    /\ execution' = Append(execution, "PREPARING")
    /\ startTime' = Append(startTime, 0)
    /\ UNCHANGED now

ExecutionStarts(e) ==
    /\ execution[e] = "PREPARING"
    /\ execution' = [execution EXCEPT ![e] = "RUNNING"]
    /\ startTime' = [startTime EXCEPT ![e] = now]
    /\ UNCHANGED now

ExecutionEnds(e) ==
    /\ e \in Active
    /\ \E s \in Final : execution' = [execution EXCEPT ![e] = s]
    /\ UNCHANGED <<startTime, now>>

TimePasses ==
    /\ line.check # "failures" /\ now < Epoch + MaxDuration
    /\ now' = now + 1
    /\ UNCHANGED <<execution, startTime>>

ServerMoves ==
    /\ azpc # "done"
    /\ \/ ExecutionSubmitted
       \/ \E e \in DOMAIN execution : ExecutionStarts(e) \/ ExecutionEnds(e)
       \/ TimePasses
    /\ UNCHANGED <<azpc, line, session, blind, found, jobStart, azstatus>>

AzNext ==
    \/ Login
    \/ AskRunning
    \/ AskStart
    \/ AskEnd
    \/ JudgeDuration
    \/ JudgeFailures
    \/ ServerMoves

AzSpec == AzInit /\ [][AzNext]_azvars

-----------------------------------------------------------------------------
\* With every request answered, nothing raises an alarm but an execution that
\* getRunning named, and one that still runs at the verdict is judged by how
\* long it has run: never too mildly, and exactly but for two cases, in which
\* the check is too severe: one that had not started when asked about, and the
\* camus check at its lower limit.
JudgedWhenAnswered ==
    LET elapsed == now - startTime[found]
    IN ~blind =>
        /\ azstatus # 0 => found # 0
        /\ found # 0 /\ execution[found] = "RUNNING" =>
            /\ azstatus >= Verdict(elapsed)
            /\ jobStart # 0 /\ (line.check = "duration" \/ elapsed # line.warn) =>
                   azstatus = Verdict(elapsed)

\* Once it has a session, the duration check does not pass a long run over
\* when its requests fail: it says OK only if nothing runs, or of an execution
\* that was named and is below the warning.  (The camus check does, and both do
\* without a session.)
OkOnlyIfShort ==
    (session /\ line.check = "duration" /\ azstatus = 0) =>
        IF found = 0 THEN Active = {} ELSE now - startTime[found] < line.warn

LongRunReported ==
    (azpc = "done" /\ line.check # "failures") => JudgedWhenAnswered /\ OkOnlyIfShort

\* What the failures check is to count: the last crit executions that are over.
Over == DOMAIN execution \ Active
LastOver == {e \in Over : Cardinality({f \in Over : f > e}) < line.crit}

\* However the requests go, an alarm is about failures among the executions
\* that are fetched.  With every request answered and at most the latest
\* execution active, the verdict is about the last crit finished ones when
\* that one is running, or when none is and the critical threshold is 3.  For
\* a lower threshold an older failure may be counted with them, so that the
\* verdict is never too mild; for a higher one the fourth is not counted and
\* an older one is.
FailuresJudged ==
    (azpc = "done" /\ line.check = "failures") =>
        /\ azstatus <= Verdict(Cardinality(Failed(Fetched)))
        /\ (~blind /\ Active \subseteq {Len(execution)}) =>
            /\ (IF Active = {} THEN line.crit = 3 ELSE execution[Len(execution)] = "RUNNING") =>
                   azstatus = Verdict(Cardinality(Failed(LastOver)))
            /\ line.crit < 3 => azstatus >= Verdict(Cardinality(Failed(LastOver)))
=============================================================================
