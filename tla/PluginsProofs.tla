---------------------------- MODULE PluginsProofs ----------------------------
(***************************************************************************)
(* Proofs about the plugins of a host by themselves, and about the host    *)
(* that has them all: check_cluster_health.py and esnodes.py, for any data *)
(* disks and clusters, check_azkaban_job.sh, for any histories, and        *)
(* check_zookeeper.py, for any servers, command lines and values.  The     *)
(* proofs about check_io.py are those of CheckIoProofs.                    *)
(***************************************************************************)
EXTENDS MCPlugins, CheckIoProofs, FiniteSetTheorems, TLAPS

\* What check_cluster_health.py knows at each of its statements.
SettingsDecide == chstatus = IF wrong THEN 2 ELSE 0
MountsRead == ~moved => points = mounted
HealthDecided ==
    /\ points = {} => SettingsDecide
    /\ points # {} /\ ~moved =>
        chstatus = IF wrong \/ ~(Entries \subseteq points) THEN 2 ELSE 0
ChInv ==
    /\ ChTypeOK
    /\ chpc = "settings" => chstatus = 0 /\ ~wrong
    /\ chpc \in {"settings", "mounts"} => SettingsDecide /\ ~moved
    /\ chpc = "fstab" => SettingsDecide /\ MountsRead /\ points # {}
    /\ chpc \in {"exit", "done"} => MountsRead /\ HealthDecided

\* Some entries are missing exactly when their number is not 0.
LEMMA CountFailed ==
    ASSUME NEW S \in SUBSET (DataDisks \cup {""})
    PROVE  Cardinality(S) \in Nat /\ (Cardinality(S) = 0 <=> S = {})
<1>1. IsFiniteSet(DataDisks \cup {""})
  BY DataDisksAssumption, FS_AddElement
<1>2. IsFiniteSet(S)
  BY <1>1, FS_Subset
<1> QED BY <1>2, FS_CardinalityType, FS_EmptySet

\* The invariant of the script holds, whatever disks do meanwhile.
THEOREM ChInvariant == ChSpec => []ChInv
<1> USE DEF ChTypeOK, SettingsDecide, MountsRead, HealthDecided
<1>1. ChInit => ChInv
  <2> SUFFICES ASSUME ChInit PROVE ChInv
    OBVIOUS
  <2>1. ChTypeOK
    BY DEF ChInit
  <2> QED BY <2>1 DEF ChInit, ChInv
<1>2. ChInv /\ [ChNext]_chvars => ChInv'
  <2> SUFFICES ASSUME ChInv, [ChNext]_chvars PROVE ChInv'
    OBVIOUS
  <2> USE DEF ChInv
  <2>1. CASE CheckSettings
    BY <2>1 DEF CheckSettings
  <2>2. CASE ReadMounts
    BY <2>2 DEF ReadMounts
  <2>3. CASE ReadFstab
    <3>1. /\ chpc = "fstab" /\ chpc' = "exit"
          /\ failed' = Entries \ points
          /\ chstatus' = IF chstatus + Cardinality(failed') # 0 THEN 2 ELSE 0
          /\ UNCHANGED <<mounted, fstab, points, wrong, moved>>
      BY <2>3 DEF ReadFstab
    <3>2. failed' \subseteq DataDisks \cup {""}
      BY <3>1 DEF Entries
    <3>3. Cardinality(failed') \in Nat /\ (Cardinality(failed') = 0 <=> failed' = {})
      BY <3>2, CountFailed
    <3>4. chstatus' = IF wrong \/ failed' # {} THEN 2 ELSE 0
      <4>1. PICK n \in Nat : n = Cardinality(failed')
        BY <3>3
      <4>2. chstatus' = IF chstatus + n # 0 THEN 2 ELSE 0
        BY <3>1, <4>1
      <4>3. n = 0 <=> failed' = {}
        BY <3>3, <4>1
      <4>4. (wrong /\ chstatus = 2) \/ (~wrong /\ chstatus = 0)
        BY <3>1
      <4>5. chstatus' = IF wrong \/ n # 0 THEN 2 ELSE 0
        <5> HIDE DEF ChInv, ChTypeOK, SettingsDecide, HealthDecided, MountsRead
        <5>1. CASE wrong
          BY <4>2, <4>4, <5>1
        <5>2. CASE ~wrong
          BY <4>2, <4>4, <5>2
        <5> QED BY <5>1, <5>2
      <4> QED BY <4>3, <4>5
    <3>5. chstatus' \in {0, 2}
      BY <3>1
    <3>6. Entries' = Entries
      BY <3>1 DEF Entries
    <3> HIDE DEF ChInv, HealthDecided
    <3>7. HealthDecided'
      BY <3>1, <3>4, <3>6 DEF HealthDecided, ChInv
    <3>8. ChTypeOK'
      BY <3>1, <3>2, <3>4, <3>5 DEF ChInv
    <3> QED BY <3>1, <3>7, <3>8 DEF ChInv
  <2>4. CASE PrintHealth
    BY <2>4 DEF PrintHealth, Entries
  <2>5. CASE DisksMove
    BY <2>5 DEF DisksMove, Entries
  <2>6. CASE UNCHANGED chvars
    BY <2>6 DEF chvars, Entries
  <2> QED BY <2>1, <2>2, <2>3, <2>4, <2>5, <2>6 DEF ChNext
<1> QED BY <1>1, <1>2, PTL DEF ChSpec

\* Every variable keeps its type.
THEOREM ChTypes == ChSpec => []ChTypeOK
BY ChInvariant, PTL DEF ChInv

\* The verdict is about the data disks of fstab, unless none is mounted.
THEOREM DisksAreJudged == ChSpec => []DisksJudged
<1>1. ChInv => DisksJudged
  <2> SUFFICES ASSUME ChInv, chpc = "done", ~moved
               PROVE  chstatus = 0 <=>
                        ~wrong /\ (mounted = {} \/ (fstab # {} /\ fstab \subseteq mounted))
    BY DEF DisksJudged
  <2>1. points = mounted /\ HealthDecided /\ points \subseteq DataDisks
    BY DEF ChInv, MountsRead, ChTypeOK
  <2>2. CASE mounted = {}
    BY <2>1, <2>2 DEF HealthDecided, SettingsDecide
  <2>3. CASE mounted # {}
    <3>1. chstatus = 0 <=> ~wrong /\ Entries \subseteq points
      BY <2>1, <2>3 DEF HealthDecided
    <3>2. Entries \subseteq points <=> fstab # {} /\ fstab \subseteq points
      BY <2>1, DataDisksAssumption DEF Entries
    <3> QED BY <2>1, <2>3, <3>1, <3>2
  <2> QED BY <2>2, <2>3
<1> QED BY <1>1, ChInvariant, PTL

-----------------------------------------------------------------------------
\* A container that was up all along and has been asked has answered, or one
\* before it has; the answer has the nodes that were there all along.
EsInv ==
    /\ EsTypeOK
    /\ source = 0 => \A k \in always : k >= num
    /\ source # 0 => seen \subseteq response
    /\ FactIsPrinted

\* A response is no missing fact, and what is printed of it is none either.
LEMMA ResponseIsFact ==
    ASSUME NEW S \in SUBSET Nodes
    PROVE  S # NoFact /\ {n \in S : n.kind # "other"} # NoFact
<1> DEFINE none == [name |-> 0, kind |-> "none"]
<1>1. none \in NoFact
  BY DEF NoFact
<1>2. \A n \in S : n.kind \in {"dsesd", "dsesm", "other"}
  BY NodesAssumption
<1>3. none.kind = "none"
  OBVIOUS
<1>4. none \notin S
  <2> HIDE DEF none
  <2> QED BY <1>2, <1>3
<1> QED BY <1>1, <1>4

\* The invariant of the fact, whatever containers and the cluster do.
THEOREM EsInvariant == EsSpec => []EsInv
<1> USE DEF EsTypeOK, Containers
<1>1. EsInit => EsInv
  BY DEF EsInit, EsInv, FactIsPrinted
<1>2. EsInv /\ [EsNext]_esvars => EsInv'
  <2> SUFFICES ASSUME EsInv, [EsNext]_esvars PROVE EsInv'
    OBVIOUS
  <2> USE DEF EsInv
  <2>1. CASE Ask
    <3>1. /\ num \in 1..3 /\ num' = num + 1
          /\ UNCHANGED <<up, members, fact, always, seen>>
      BY <2>1 DEF Ask
    <3>2. members # NoFact /\ NoFact \notin SUBSET Nodes
      BY ResponseIsFact
    <3>3. CASE source = 0 /\ num \in up
      BY <2>1, <3>1, <3>2, <3>3 DEF Ask, FactIsPrinted
    <3>4. CASE ~(source = 0 /\ num \in up)
      <4>1. UNCHANGED <<source, response>>
        BY <2>1, <3>4 DEF Ask
      <4>2. source = 0 => \A k \in always : k >= num + 1
        BY <3>1, <3>4
      <4> QED BY <3>1, <4>1, <4>2 DEF FactIsPrinted
    <3> QED BY <3>3, <3>4
  <2>2. CASE PrintFact
    <3>1. CASE source = 0
      <4>1. always = {}
        BY <2>2, <3>1 DEF PrintFact
      <4> QED BY <2>2, <3>1, <4>1 DEF PrintFact, FactIsPrinted
    <3>2. CASE source # 0
      <4>1. response \in SUBSET Nodes
        BY <3>2
      <4>2. {n \in response : n.kind # "other"} # NoFact
        BY <4>1, ResponseIsFact
      <4>3. CASE fact' = {n \in response : n.kind # "other"}
        BY <2>2, <3>2, <4>1, <4>2, <4>3 DEF PrintFact, FactIsPrinted
      <4>4. CASE source \notin up /\ fact' = NoFact
        BY <2>2, <3>2, <4>1, <4>4 DEF PrintFact, FactIsPrinted
      <4> QED BY <2>2, <3>2, <4>3, <4>4 DEF PrintFact
    <3> QED BY <3>1, <3>2
  <2>3. CASE ContainersMove
    BY <2>3 DEF ContainersMove, FactIsPrinted
  <2>4. CASE UNCHANGED esvars
    BY <2>4 DEF esvars, FactIsPrinted
  <2> QED BY <2>1, <2>2, <2>3, <2>4 DEF EsNext
<1> QED BY <1>1, <1>2, PTL DEF EsSpec

\* Every variable keeps its type.
THEOREM EsTypes == EsSpec => []EsTypeOK
BY EsInvariant, PTL DEF EsInv

\* A host with a container that answers all along has its fact.
THEOREM HostHasFact == EsSpec => []FactIsPrinted
BY EsInvariant, PTL DEF EsInv

-----------------------------------------------------------------------------
(***************************************************************************)
(* CheckAzkabanJob, for any command lines, executions and clocks, and      *)
(* whichever requests are refused or not answered.                         *)
(***************************************************************************)

\* The inductive invariant: what the script has at each request.  A start time
\* is that of the execution that was named, for as long as that has one.
AzInv ==
    /\ AzTypeOK
    /\ azpc # "done" => azstatus = 0
    /\ azpc \in {"login", "running"} => found = 0 /\ jobStart = 0
    /\ azpc \in {"running", "start", "end", "judge"} => line.check # "failures"
    /\ azpc = "fetch" => line.check = "failures"
    /\ azpc = "end" => line.check = "camus"
    /\ azpc # "login" /\ ~blind => session
    /\ azpc \in {"start", "end", "judge"} /\ ~blind => found # 0
    /\ jobStart # 0 => found # 0 /\ jobStart = startTime[found]
    /\ LongRunReported
    /\ FailuresJudged

\* The verdict grows with what is judged.
LEMMA VerdictMonotone ==
    ASSUME AzTypeOK, NEW m \in Int, NEW n \in Int, m <= n
    PROVE  Verdict(m) <= Verdict(n) /\ Verdict(m) \in 0..2
<1>1. line.warn \in Nat /\ line.crit \in Nat
  BY ChecksAssumption DEF AzTypeOK
<1> QED
  BY <1>1 DEF Verdict

\* A set of executions is finite, and more of them have no fewer failures.
LEMMA FailuresCounted ==
    ASSUME AzTypeOK, NEW A \in SUBSET (DOMAIN execution), NEW B \in SUBSET A
    PROVE  /\ Cardinality(Failed(A)) \in Nat
           /\ Cardinality(Failed(B)) \in Nat
           /\ Cardinality(Failed(B)) <= Cardinality(Failed(A))
<1>1. IsFiniteSet(DOMAIN execution)
  BY FS_Interval DEF AzTypeOK
<1>2. Failed(A) \subseteq DOMAIN execution /\ Failed(B) \subseteq Failed(A)
  BY DEF Failed
<1>3. IsFiniteSet(Failed(A)) /\ IsFiniteSet(Failed(B))
  BY <1>1, <1>2, FS_Subset
<1> QED
  BY <1>2, <1>3, FS_Subset, FS_CardinalityType

\* When at most the latest execution is active, the last ones that are over are
\* counted: exactly when that one is dropped or the fourth is the one too many.
LEMMA LastAreCounted ==
    ASSUME AzTypeOK, Active \subseteq {Len(execution)}
    PROVE  /\ Counted \subseteq Fetched /\ Fetched \subseteq DOMAIN execution
           /\ (IF Active = {} THEN line.crit = 3 ELSE execution[Len(execution)] = "RUNNING") =>
                  Counted = LastOver
           /\ line.crit < 3 => LastOver \subseteq Counted
<1> DEFINE n == Len(execution)
           k == IF Active = {} THEN n ELSE n - 1
           c == line.crit
<1>1. n \in Nat /\ DOMAIN execution = 1..n /\ c \in Nat
  BY ChecksAssumption DEF AzTypeOK
<1>2. Active \subseteq 1..n
  BY <1>1 DEF Active
<1>2a. ASSUME Active # {} PROVE Active = {n} /\ n >= 1
  <2>1. Active = {n}
    BY <1>2a
  <2>2. n \in 1..n
    BY <1>2, <2>1
  <2> QED
    BY <1>1, <2>1, <2>2
<1>3. Over = 1..k /\ k \in Nat
  <2>1. CASE Active = {}
    BY <1>1, <2>1 DEF Over
  <2>2. CASE Active # {}
    <3>1. Active = {n} /\ n >= 1
      BY <1>2a, <2>2
    <3> QED
      BY <1>1, <3>1, <2>2 DEF Over
  <2> QED
    BY <2>1, <2>2
<1> HIDE DEF k
<1>4. ASSUME NEW e \in 1..k PROVE Cardinality({f \in 1..k : f > e}) = k - e
  <2>1. {f \in 1..k : f > e} = (e + 1)..k
    BY <1>3
  <2>2. e + 1 \in Int /\ k \in Int
    BY <1>3
  <2>3. Cardinality((e + 1)..k) = IF e + 1 > k THEN 0 ELSE k - (e + 1) + 1
    BY <2>2, FS_Interval
  <2>4. (IF e + 1 > k THEN 0 ELSE k - (e + 1) + 1) = k - e
    BY <1>3
  <2> QED
    BY <2>1, <2>3, <2>4
<1>5. LastOver = {e \in 1..k : k - e < c}
  BY <1>3, <1>4 DEF LastOver
<1>6. Fetched = {e \in 1..n : e + c >= n}
  BY <1>1 DEF Fetched
<1>7. Counted \subseteq Fetched /\ Fetched \subseteq DOMAIN execution
  BY DEF Counted, Fetched
<1>8. CASE Active = {}
  <2>1. k = n
    BY <1>8 DEF k
  <2>2. n \in 1..n => execution[n] # "RUNNING"
    BY <1>1, <1>8 DEF Active, Final
  <2>3. Counted = Fetched \ {n - 3}
    BY <1>1, <1>6, <2>2 DEF Counted
  <2>4. c = 3 => Counted = LastOver
    BY <1>1, <1>5, <1>6, <2>1, <2>3
  <2>5. c < 3 => LastOver \subseteq Counted
    BY <1>1, <1>5, <1>6, <2>1, <2>3
  <2> QED
    BY <1>7, <1>8, <2>4, <2>5
<1>9. CASE Active # {}
  <2>1. k = n - 1 /\ n >= 1
    BY <1>2a, <1>9 DEF k
  <2>2. CASE execution[n] = "RUNNING"
    <3>1. n \in Fetched
      BY <1>1, <1>6, <2>1
    <3>2. Counted = Fetched \ {n}
      BY <2>2, <3>1 DEF Counted
    <3>3. Counted = LastOver
      BY <1>1, <1>5, <1>6, <2>1, <3>2
    <3> QED
      BY <1>7, <3>3
  <2>3. CASE execution[n] # "RUNNING"
    <3>1. Counted = Fetched \ {n - 3}
      BY <2>3 DEF Counted
    <3>2. c < 3 => LastOver \subseteq Counted
      BY <1>1, <1>5, <1>6, <2>1, <3>1
    <3> QED
      BY <1>7, <1>9, <2>3, <3>2
  <2> QED
    BY <2>2, <2>3
<1> QED
  BY <1>8, <1>9

\* What a move of the server leaves of the invariant's types.
LEMMA ServerKeepsTypes ==
    ASSUME AzInv, ServerMoves
    PROVE  /\ AzTypeOK'
           /\ jobStart # 0 => jobStart = startTime'[found]
<1> USE DEF AzInv, AzTypeOK
<1>1. UNCHANGED <<azpc, line, session, blind, found, jobStart, azstatus>>
  BY DEF ServerMoves
<1>2. /\ DOMAIN execution = 1..Len(execution) /\ Len(execution) \in Nat
      /\ Epoch \in Nat \ {0} /\ MaxDuration \in Nat
  BY ChecksAssumption
<1>3. CASE ExecutionSubmitted
  <2>1. /\ execution' \in Seq(Statuses) /\ Len(execution') = Len(execution) + 1
        /\ \A e \in DOMAIN execution : execution'[e] = execution[e]
        /\ execution'[Len(execution) + 1] = "PREPARING"
    BY <1>3 DEF ExecutionSubmitted, Statuses
  <2>2. startTime \in Seq(Times \cup {0}) /\ Len(startTime) = Len(execution)
    BY <1>2
  <2>2a. startTime' = Append(startTime, 0)
    BY <1>3 DEF ExecutionSubmitted
  <2>2b. startTime' \in Seq(Times \cup {0}) /\ Len(startTime') = Len(execution) + 1
    BY <2>2, <2>2a
  <2>3. /\ startTime' \in [DOMAIN execution' -> Times \cup {0}]
        /\ \A e \in DOMAIN execution : startTime'[e] = startTime[e]
        /\ startTime'[Len(execution) + 1] = 0
    <3>1. DOMAIN execution' = 1..(Len(execution) + 1)
      BY <1>2, <2>1
    <3>2. startTime' \in [1..(Len(execution) + 1) -> Times \cup {0}]
      BY <1>2, <2>2b
    <3>3. \A e \in DOMAIN execution : startTime'[e] = startTime[e]
      BY <1>2, <2>2, <2>2a
    <3>4. startTime'[Len(execution) + 1] = 0
      BY <1>2, <2>2, <2>2a
    <3> QED
      BY <3>1, <3>2, <3>3, <3>4
  <2>4. DOMAIN execution' = DOMAIN execution \cup {Len(execution) + 1}
    BY <1>2, <2>1
  <2>5. Len(execution') <= MaxHistory[line.check]
    BY <1>2, <1>3, <2>1, ChecksAssumption DEF ExecutionSubmitted
  <2>6. now' = now
    BY <1>3 DEF ExecutionSubmitted
  <2> QED
    BY <1>1, <2>1, <2>3, <2>4, <2>5, <2>6
<1>4. ASSUME NEW e \in DOMAIN execution, ExecutionStarts(e) \/ ExecutionEnds(e)
      PROVE  AzTypeOK' /\ (jobStart # 0 => jobStart = startTime'[found])
  <2>1. PICK s \in Statuses : execution' = [execution EXCEPT ![e] = s]
    BY <1>4 DEF ExecutionStarts, ExecutionEnds, Statuses
  <2>2. /\ execution' \in Seq(Statuses) /\ Len(execution') = Len(execution)
        /\ DOMAIN execution' = DOMAIN execution
    BY <1>2, <2>1
  <2>3. CASE ExecutionStarts(e)
    <3>1. /\ execution[e] = "PREPARING" /\ now' = now
          /\ execution' = [execution EXCEPT ![e] = "RUNNING"]
          /\ startTime' = [startTime EXCEPT ![e] = now]
      BY <2>3 DEF ExecutionStarts
    <3>2. now # 0
      BY <1>2 DEF Times
    <3> QED
      BY <1>1, <2>2, <3>1, <3>2
  <2>4. CASE ExecutionEnds(e)
    <3>1. PICK t \in Final : execution' = [execution EXCEPT ![e] = t]
      BY <2>4 DEF ExecutionEnds
    <3>2. UNCHANGED <<startTime, now>> /\ t \notin {"PREPARING", "RUNNING"}
      BY <2>4 DEF ExecutionEnds, Final
    <3> QED
      BY <1>1, <2>2, <3>1, <3>2
  <2> QED
    BY <1>4, <2>3, <2>4
<1>5. CASE TimePasses
  BY <1>1, <1>2, <1>5 DEF TimePasses, Times
<1> QED
  BY <1>3, <1>4, <1>5 DEF ServerMoves

\* The verdict on a duration: a script without a start time counts from 1970,
\* which is past every threshold.
LEMMA DurationJudged ==
    ASSUME AzInv, JudgeDuration
    PROVE  AzInv'
<1> USE DEF AzInv
<1>1. /\ UNCHANGED <<line, serverVars, session, blind, found, jobStart>>
      /\ azpc = "judge" /\ azpc' = "done"
      /\ line.check # "failures"
  BY DEF JudgeDuration, AzExit
<1>2. /\ line.warn \in Nat /\ line.crit \in Nat /\ line.crit <= Epoch
      /\ Epoch \in Nat /\ now \in Nat /\ Epoch <= now
      /\ jobStart \in Nat /\ \A e \in DOMAIN execution : startTime[e] \in Nat
  BY ChecksAssumption DEF AzTypeOK, Times
<1> DEFINE elapsed == now - jobStart
<1>3. azstatus' = IF elapsed >= line.crit \/ (line.check = "camus" /\ elapsed = line.warn) THEN 2
                  ELSE IF elapsed >= line.warn THEN 1
                  ELSE 0
  BY DEF JudgeDuration, AzExit
<1>4. azstatus' \in 0..2
  BY <1>3
<1>5. jobStart = 0 => azstatus' = 2
  BY <1>2, <1>3
<1>6. JudgedWhenAnswered'
  <2> SUFFICES ASSUME ~blind
               PROVE  /\ found # 0
                      /\ azstatus' >= Verdict(now - startTime[found])
                      /\ jobStart # 0 /\ (line.check = "duration" \/ now - startTime[found] # line.warn) =>
                             azstatus' = Verdict(now - startTime[found])
    BY <1>1 DEF JudgedWhenAnswered, Verdict, serverVars
  <2>1. found # 0
    BY <1>1
  <2>2. CASE jobStart = 0
    BY <1>5, <2>1, <2>2 DEF Verdict
  <2>3. CASE jobStart # 0
    <3>1. jobStart = startTime[found]
      BY <2>3
    <3>2. line.check \in CheckTypes
      BY ChecksAssumption DEF AzTypeOK
    <3> QED
      BY <1>1, <1>2, <1>3, <2>1, <3>1, <3>2 DEF Verdict, CheckTypes
  <2> QED
    BY <2>2, <2>3
<1>7. OkOnlyIfShort'
  BY <1>1, <1>2, <1>3, <1>5 DEF OkOnlyIfShort, serverVars
<1>8. AzTypeOK'
  BY <1>1, <1>4 DEF AzTypeOK, serverVars
<1> QED
  BY <1>1, <1>6, <1>7, <1>8 DEF LongRunReported, FailuresJudged, serverVars

\* The verdict on the failures.
LEMMA FailuresVerdict ==
    ASSUME AzInv, JudgeFailures
    PROVE  AzInv'
<1> USE DEF AzInv
<1> DEFINE counted == Cardinality(Failed(Counted))
<1>1. /\ UNCHANGED <<line, serverVars, session, found, jobStart>>
      /\ azpc = "fetch" /\ azpc' = "done"
      /\ line.check = "failures"
      /\ \/ session /\ azstatus' = Verdict(counted) /\ blind' = blind
         \/ azstatus' = Verdict(0) /\ blind' = TRUE
  BY DEF JudgeFailures, AzExit
<1>2. Counted \in SUBSET Fetched /\ Fetched \in SUBSET DOMAIN execution
  BY DEF Counted, Fetched
<1>3. Cardinality(Failed(Fetched)) \in Nat /\ counted \in Nat
      /\ counted <= Cardinality(Failed(Fetched))
  BY <1>2, FailuresCounted
<1>4. /\ azstatus' \in 0..2
      /\ azstatus' <= Verdict(Cardinality(Failed(Fetched)))
  BY <1>1, <1>3, VerdictMonotone
<1>5. ASSUME ~blind', Active \subseteq {Len(execution)}
      PROVE  /\ (IF Active = {} THEN line.crit = 3 ELSE execution[Len(execution)] = "RUNNING") =>
                    azstatus' = Verdict(Cardinality(Failed(LastOver)))
             /\ line.crit < 3 => azstatus' >= Verdict(Cardinality(Failed(LastOver)))
  <2>1. azstatus' = Verdict(counted)
    BY <1>1, <1>5
  <2>2. (IF Active = {} THEN line.crit = 3 ELSE execution[Len(execution)] = "RUNNING") =>
            Counted = LastOver
    BY <1>5, LastAreCounted
  <2>3. ASSUME line.crit < 3 PROVE azstatus' >= Verdict(Cardinality(Failed(LastOver)))
    <3>1. LastOver \in SUBSET Counted /\ Counted \in SUBSET DOMAIN execution
      BY <1>2, <1>5, <2>3, LastAreCounted
    <3>2. /\ Cardinality(Failed(LastOver)) \in Nat
          /\ Cardinality(Failed(LastOver)) <= counted
      BY <3>1, FailuresCounted
    <3>3. /\ Verdict(Cardinality(Failed(LastOver))) <= Verdict(counted)
          /\ Verdict(Cardinality(Failed(LastOver))) \in 0..2
      BY <1>3, <3>2, VerdictMonotone
    <3> QED
      BY <1>4, <2>1, <3>3
  <2> QED
    BY <2>1, <2>2, <2>3
<1>6. UNCHANGED <<Active, LastOver, Fetched>> /\ \A S : Failed(S)' = Failed(S)
  BY <1>1 DEF serverVars, Active, LastOver, Over, Fetched, Failed
<1>7. FailuresJudged'
  BY <1>1, <1>4, <1>5, <1>6 DEF FailuresJudged, Verdict, serverVars
<1>8. AzTypeOK' /\ LongRunReported'
  BY <1>1, <1>4 DEF AzTypeOK, LongRunReported, serverVars
<1> QED
  BY <1>1, <1>7, <1>8 DEF serverVars

\* The invariant holds, whatever executions do between the requests.
THEOREM AzInvariant == AzSpec => []AzInv
<1>1. AzInit => AzInv
  <2> SUFFICES ASSUME AzInit PROVE AzInv
    OBVIOUS
  <2>1. PICK n \in 0..MaxHistory[line.check] :
            /\ execution \in [1..n -> IF line.check = "failures" THEN Statuses ELSE Statuses \ Final]
            /\ startTime \in [1..n -> {0} \cup (Epoch..now)]
    BY DEF AzInit
  <2>2. line \in Checks /\ line.check \in CheckTypes /\ MaxHistory[line.check] \in Nat
    BY ChecksAssumption DEF AzInit
  <2>3. Epoch \in Nat \ {0} /\ MaxDuration \in Nat /\ now \in Times
    BY ChecksAssumption DEF AzInit, Times
  <2>4. execution \in Seq(Statuses) /\ Len(execution) = n /\ DOMAIN execution = 1..n
    BY <2>1, <2>2
  <2>5. startTime \in [DOMAIN execution -> Times \cup {0}]
    BY <2>1, <2>3, <2>4 DEF Times
  <2>6. \A e \in DOMAIN execution : startTime[e] = 0 <=> execution[e] = "PREPARING"
    BY DEF AzInit
  <2>7. AzTypeOK
    <3>1. Len(execution) <= MaxHistory[line.check]
      BY <2>1, <2>2, <2>4
    <3>2. \A e \in DOMAIN execution :
              /\ execution[e] = "PREPARING" => startTime[e] = 0
              /\ execution[e] = "RUNNING" => startTime[e] # 0
      BY <2>6
    <3>3. session \in BOOLEAN /\ blind \in BOOLEAN
      BY DEF AzInit
    <3>4. /\ azpc \in {"login", "running", "start", "end", "judge", "fetch", "done"}
          /\ found \in DOMAIN execution \cup {0} /\ jobStart \in Times \cup {0}
          /\ azstatus \in 0..2
      BY DEF AzInit
    <3> QED
      BY <2>2, <2>3, <2>4, <2>5, <3>1, <3>2, <3>3, <3>4 DEF AzTypeOK
  <2> QED
    BY <2>7 DEF AzInit, AzInv, LongRunReported, FailuresJudged
<1>2. AzInv /\ [AzNext]_azvars => AzInv'
  <2> SUFFICES ASSUME AzInv, [AzNext]_azvars PROVE AzInv'
    OBVIOUS
  <2> USE DEF AzInv, AzTypeOK, serverVars
  <2>1. CASE Login
    BY <2>1 DEF Login, GoesTo, LongRunReported, FailuresJudged
  <2>2. CASE AskRunning
    <3>1. UNCHANGED <<line, execution, startTime, now, session, jobStart>>
      BY <2>2 DEF AskRunning
    <3>2. Active \subseteq DOMAIN execution /\ Active' = Active
      BY <3>1 DEF Active
    <3>3. CASE (~session \/ Active = {}) /\ AzExit(0) /\ UNCHANGED <<blind, found>>
      BY <2>2, <3>1, <3>2, <3>3
         DEF AskRunning, AzExit, LongRunReported, JudgedWhenAnswered, OkOnlyIfShort, FailuresJudged
    <3>4. CASE session /\ found' \in Active /\ GoesTo("start") /\ UNCHANGED blind
      <4>1. 0 \notin DOMAIN execution
        OBVIOUS
      <4> QED
        BY <2>2, <3>1, <3>2, <3>4, <4>1 DEF AskRunning, GoesTo, LongRunReported, FailuresJudged
    <3>5. CASE blind' = TRUE /\ GoesTo("start") /\ UNCHANGED found
      BY <2>2, <3>1, <3>5 DEF AskRunning, GoesTo, LongRunReported, FailuresJudged
    <3> QED
      BY <2>2, <3>3, <3>4, <3>5 DEF AskRunning
  <2>3. CASE AskStart
    <3>1. /\ UNCHANGED <<line, execution, startTime, now, session, found>>
          /\ azpc = "start" /\ azpc' = IF line.check = "camus" THEN "end" ELSE "judge"
          /\ azstatus' = azstatus
      BY <2>3 DEF AskStart, GoesTo
    <3>2. CASE found # 0 /\ jobStart' = startTime[found] /\ UNCHANGED blind
      BY <3>1, <3>2 DEF LongRunReported, FailuresJudged
    <3>3. CASE jobStart' = 0 /\ blind' = TRUE
      BY <3>1, <3>3 DEF LongRunReported, FailuresJudged
    <3> QED
      BY <2>3, <3>2, <3>3 DEF AskStart
  <2>4. CASE AskEnd
    <3>1. /\ UNCHANGED <<line, execution, startTime, now, session, found, jobStart>>
          /\ azpc = "end" /\ line.check = "camus"
      BY <2>4 DEF AskEnd
    <3>2. CASE found \in Active /\ GoesTo("judge") /\ UNCHANGED blind
      BY <3>1, <3>2 DEF GoesTo, LongRunReported, FailuresJudged
    <3>3. CASE found # 0 /\ found \notin Active /\ AzExit(0) /\ UNCHANGED blind
      <4>1. execution'[found'] # "RUNNING"
        BY <3>1, <3>3 DEF Active, Final
      <4> QED
        BY <3>1, <3>3, <4>1
           DEF AzExit, LongRunReported, JudgedWhenAnswered, OkOnlyIfShort, FailuresJudged
    <3>4. CASE AzExit(0) /\ blind' = TRUE
      BY <3>1, <3>4
         DEF AzExit, LongRunReported, JudgedWhenAnswered, OkOnlyIfShort, FailuresJudged
    <3> QED
      BY <2>4, <3>2, <3>3, <3>4 DEF AskEnd
  <2>5. CASE ServerMoves
    <3>1. AzTypeOK' /\ (jobStart # 0 => jobStart = startTime'[found])
      BY <2>5, ServerKeepsTypes
    <3>2. /\ UNCHANGED <<azpc, line, session, blind, found, jobStart, azstatus>>
          /\ azpc # "done"
      BY <2>5 DEF ServerMoves
    <3> QED
      BY <3>1, <3>2 DEF LongRunReported, FailuresJudged
  <2>6. CASE UNCHANGED azvars
    BY <2>6 DEF azvars, LongRunReported, JudgedWhenAnswered, OkOnlyIfShort, FailuresJudged,
                Active, Fetched, LastOver, Over, Failed, Verdict
  <2> QED
    BY <2>1, <2>2, <2>3, <2>4, <2>5, <2>6, DurationJudged, FailuresVerdict DEF AzNext
<1> QED
  BY <1>1, <1>2, PTL DEF AzSpec

\* Every variable keeps its type, and the executions their bound.
THEOREM AzTypes == AzSpec => []AzTypeOK
BY AzInvariant, PTL DEF AzInv

\* With every request answered a flow that runs at the verdict is judged by how
\* long it has run, and nothing else raises an alarm; and however the requests
\* go, a duration check with a session passes no long run over.
THEOREM LongRunsAreReported == AzSpec => []LongRunReported
BY AzInvariant, PTL DEF AzInv

\* However the requests go, an alarm is about failures among the executions
\* that are fetched; with every request answered the verdict is about the last
\* crit finished ones, in the cases that the property names.
THEOREM FailuresAreJudged == AzSpec => []FailuresJudged
BY AzInvariant, PTL DEF AzInv

-----------------------------------------------------------------------------
(***************************************************************************)
(* CheckZookeeper.  The inductive invariant ties what the plugin has put   *)
(* down of a server whose reply was whole to what the server had when it   *)
(* answered, and, as long as the ensemble is steady, to its role.          *)
(***************************************************************************)

\* What is kept of a server whose reply was whole is what it had.
WholeIsTrue ==
    \A s \in DOMAIN stats \ cut :
        /\ stats[s].value = real[s]
        /\ steady /\ role[s] = "leader" => stats[s].state = "leader"

\* The status of a run that was not ended by an exception is its verdict.
StatusIsVerdict ==
    Judged => zkstatus = Nagios
NoLeaderFound ==
    (zkpc = "done" /\ opts.output = "cacti" /\ zkstatus = 3) => Leaders = {}

\* Before the first question no server has answered.
NothingYet == zkpc = "cli" => DOMAIN stats = {}

ZkInv == ZkTypeOK /\ NothingYet /\ WholeIsTrue /\ StatusIsVerdict /\ NoLeaderFound

ZkEntries == [value : Absent..Text, state : {"leader", "follower", "unknown"}]

USE DEF Text, Absent

\* Values are integers in order, a text being the greatest.
LEMMA Values == /\ MaxValue \in Nat
                /\ RealValues \subseteq 0..Text
                /\ \A cmd \in {"mntr", "stat"}, v \in RealValues :
                      Prefixes(cmd, v) \subseteq 0..Text
BY OptionsAssumption DEF RealValues, Prefixes

\* Nothing has been asked yet.
LEMMA InitZk == ZkInit => ZkInv
<1> SUFFICES ASSUME ZkInit PROVE ZkInv
  OBVIOUS
<1>1. DOMAIN stats = {} /\ stats \in [DOMAIN stats -> ZkEntries]
  BY DEF ZkInit
<1>2. real \in [Servers -> Absent..Text]
  BY Values DEF ZkInit
<1>3. /\ zkpc = "cli" /\ opts \in Options /\ left = {} /\ role \in Ensembles
      /\ cut = {} /\ steady = TRUE /\ crashed = FALSE /\ zkstatus = 0
  BY DEF ZkInit
<1>4. ZkTypeOK
  <2>1. zkpc \in {"cli", "poll", "stat", "analyze", "done"} /\ zkstatus \in 0..3
    BY <1>3
  <2>2. left \subseteq Servers /\ DOMAIN stats \subseteq Servers \ left /\ cut \subseteq Servers
    BY <1>1, <1>3
  <2>3. stats \in [DOMAIN stats -> [value : Absent..Text,
                                   state : {"leader", "follower", "unknown"}]]
    BY <1>1 DEF ZkEntries
  <2> QED
    BY <1>2, <1>3, <2>1, <2>2, <2>3 DEF ZkTypeOK
<1> QED
  BY <1>1, <1>3, <1>4 DEF ZkInv, WholeIsTrue, StatusIsVerdict, NoLeaderFound, NothingYet, Judged

\* An answer that was received whole is put down as it was.
LEMMA AnswerKeeps ==
    ASSUME ZkInv, zkpc \in {"poll", "stat"}, NEW s \in left,
           NEW v \in Absent..Text, NEW entry \in ZkEntries,
           Answered(s, v, entry),
           \/ cut' = cut \cup {s}
           \/ /\ cut' = cut
              /\ entry.value = v
              /\ role[s] = "leader" => entry.state = "leader"
    PROVE  ZkInv'
<1> USE DEF ZkInv, Answered, ZkEntries
<1>1. s \in Servers /\ s \notin DOMAIN stats
  BY DEF ZkTypeOK
<1>2. ZkTypeOK'
  <2>1. DOMAIN stats' = DOMAIN stats \cup {s}
    OBVIOUS
  <2>2. stats' \in [DOMAIN stats' -> ZkEntries]
    BY <2>1 DEF ZkTypeOK
  <2>3. real' \in [Servers -> Absent..Text]
    BY DEF ZkTypeOK
  <2>4. zkpc' = "poll" /\ left' = left \ {s} /\ cut' \subseteq Servers
    BY <1>1 DEF ZkTypeOK
  <2>5. UNCHANGED <<opts, asked, role, steady, crashed, zkstatus>>
    OBVIOUS
  <2> QED
    BY <1>1, <2>1, <2>2, <2>3, <2>4, <2>5 DEF ZkTypeOK
<1>3. WholeIsTrue'
  <2> SUFFICES ASSUME NEW t \in DOMAIN stats' \ cut'
               PROVE  /\ stats'[t].value = real'[t]
                      /\ steady' /\ role'[t] = "leader" => stats'[t].state = "leader"
    BY DEF WholeIsTrue
  <2>1. CASE t = s
    BY <1>1, <2>1 DEF ZkTypeOK
  <2>2. CASE t # s
    <3>1. t \in DOMAIN stats \ cut /\ stats'[t] = stats[t] /\ real'[t] = real[t]
      BY <2>2 DEF ZkTypeOK
    <3> QED BY <3>1 DEF WholeIsTrue
  <2> QED BY <2>1, <2>2
<1>4. StatusIsVerdict' /\ NoLeaderFound' /\ NothingYet'
  BY DEF StatusIsVerdict, NoLeaderFound, NothingYet, Judged
<1> QED BY <1>2, <1>3, <1>4

\* So is what a reply leaves of a server, whole or cut.
LEMMA ReplyKeeps ==
    ASSUME ZkInv, zkpc \in {"poll", "stat"}, NEW s \in left,
           NEW cmd \in {"mntr", "stat"},
           role[s] \in {"leader", "follower"}, Reply(s, cmd)
    PROVE  ZkInv'
<1>1. PICK v \in IF KnownTo(cmd) THEN RealValues ELSE {Absent} :
        \/ /\ Answered(s, v, [value |-> v, state |-> role[s]])
           /\ UNCHANGED cut
        \/ \E w \in {Absent} \cup (IF KnownTo(cmd) THEN Prefixes(cmd, v) ELSE {}),
              r \in {role[s], "unknown"} :
            /\ Answered(s, v, [value |-> w, state |-> r])
            /\ cut' = cut \cup {s}
  BY DEF Reply
<1>2. v \in Absent..Text
  BY Values
<1>3. CASE Answered(s, v, [value |-> v, state |-> role[s]]) /\ UNCHANGED cut
  <2> DEFINE entry == [value |-> v, state |-> role[s]]
  <2>1. entry \in ZkEntries /\ entry.value = v /\ entry.state = role[s]
    BY <1>2 DEF ZkEntries
  <2>2. Answered(s, v, entry)
    BY <1>3
  <2> HIDE DEF entry
  <2> QED BY <1>2, <1>3, <2>1, <2>2, AnswerKeeps
<1>4. CASE \E w \in {Absent} \cup (IF KnownTo(cmd) THEN Prefixes(cmd, v) ELSE {}),
              r \in {role[s], "unknown"} :
            /\ Answered(s, v, [value |-> w, state |-> r])
            /\ cut' = cut \cup {s}
  <2>1. PICK w \in {Absent} \cup (IF KnownTo(cmd) THEN Prefixes(cmd, v) ELSE {}),
             r \in {role[s], "unknown"} :
            /\ Answered(s, v, [value |-> w, state |-> r])
            /\ cut' = cut \cup {s}
    BY <1>4
  <2> DEFINE entry == [value |-> w, state |-> r]
  <2>2. w \in Absent..Text
    BY Values
  <2>3. entry \in ZkEntries
    BY <2>2 DEF ZkEntries
  <2>4. Answered(s, v, entry) /\ cut' = cut \cup {s}
    BY <2>1
  <2> HIDE DEF entry
  <2> QED BY <1>2, <2>3, <2>4, AnswerKeeps
<1> QED BY <1>1, <1>3, <1>4

\* An answer that says nothing is one as well.
LEMMA NothingKeeps ==
    ASSUME ZkInv, zkpc \in {"poll", "stat"}, NEW s \in left,
           Answered(s, Absent, Nothing),
           cut' = cut \cup {s} \/ (cut' = cut /\ role[s] # "leader")
    PROVE  ZkInv'
<1>1. Nothing \in ZkEntries /\ Nothing.value = Absent
  BY Values DEF Nothing, ZkEntries
<1>2. Absent \in Absent..Text
  BY Values
<1> QED BY <1>1, <1>2, AnswerKeeps

\* A step that ends the plugin by an exception, or a server that is left out.
LEMMA OtherStepsKeep ==
    ASSUME ZkInv,
           \/ ParseCli \/ MalformedServer \/ AllAsked \/ EnsembleChanges
           \/ \E s \in Servers : SocketError(s)
           \/ UNCHANGED zkvars
    PROVE  ZkInv'
<1>1. CASE ParseCli
  BY <1>1 DEF ParseCli, ZkExit, ZkInv, ZkTypeOK, WholeIsTrue, StatusIsVerdict, NoLeaderFound, NothingYet, Judged
<1>2. CASE MalformedServer
  BY <1>2 DEF MalformedServer, ZkCrash, ZkExit, ZkInv, ZkTypeOK, WholeIsTrue, StatusIsVerdict,
              NoLeaderFound, NothingYet, Judged
<1>3. CASE AllAsked
  BY <1>3 DEF AllAsked, ZkInv, ZkTypeOK, WholeIsTrue, StatusIsVerdict, NoLeaderFound, NothingYet, Judged
<1>4. CASE EnsembleChanges
  BY <1>4 DEF EnsembleChanges, ZkInv, ZkTypeOK, WholeIsTrue, StatusIsVerdict, NoLeaderFound, NothingYet, Judged
<1>5. CASE \E s \in Servers : SocketError(s)
  BY <1>5 DEF SocketError, ZkInv, ZkTypeOK, WholeIsTrue, StatusIsVerdict, NoLeaderFound, NothingYet, Judged
<1>6. CASE UNCHANGED zkvars
  BY <1>6 DEF zkvars, ZkInv, ZkTypeOK, WholeIsTrue, StatusIsVerdict, NoLeaderFound, NothingYet, Judged,
              Nagios, Leaders, Known, InCritical, InWarning
<1> QED BY <1>1, <1>2, <1>3, <1>4, <1>5, <1>6

\* The verdict is on what the servers have said.
LEMMA AnalyzeKeeps == ASSUME ZkInv, Analyze PROVE ZkInv'
<1> USE DEF ZkInv
<1>1. UNCHANGED <<opts, left, asked, role, stats, real, cut, steady, crashed>>
  BY DEF Analyze
<1>2. zkpc' = "done" /\ zkstatus' \in 0..3
  <2>1. Nagios \in 0..3
    BY DEF Nagios
  <2>2. Cacti \subseteq 0..3
    BY DEF Cacti
  <2>3. Ganglia \subseteq 0..3
    BY DEF Ganglia
  <2>4. opts.output \in {"none", "nagios", "cacti", "ganglia", "other"}
    BY OptionsAssumption DEF ZkTypeOK
  <2> QED
    BY <2>1, <2>2, <2>3, <2>4 DEF Analyze, ZkExit
<1>3. opts.output = "nagios" => zkstatus' = Nagios
  BY DEF Analyze, ZkExit
<1>4. opts.output = "cacti" /\ zkstatus' = 3 => Leaders = {}
  BY DEF Analyze, ZkExit, Cacti
<1>5. ZkTypeOK' /\ WholeIsTrue' /\ NothingYet'
  BY <1>1, <1>2 DEF ZkTypeOK, WholeIsTrue, NothingYet
<1>6. Nagios' = Nagios /\ Leaders' = Leaders
  BY <1>1 DEF Nagios, Leaders, Known, InCritical, InWarning
<1> QED
  BY <1>1, <1>3, <1>4, <1>5, <1>6 DEF StatusIsVerdict, NoLeaderFound, NothingYet, Judged

\* mntr, and stat after it, leave the invariant as it is.
LEMMA QuestionsKeep ==
    ASSUME ZkInv, NEW s \in Servers, Mntr(s) \/ Stat(s)
    PROVE  ZkInv'
<1> USE DEF ZkInv
<1>1. role[s] \in {"leader", "follower", "electing", "down"}
  BY DEF ZkTypeOK, Ensembles
<1>2. CASE Mntr(s)
  <2>1. s \in left /\ zkpc = "poll" /\ role[s] # "down"
    BY <1>2 DEF Mntr
  <2>2. CASE /\ zkpc' = "stat" /\ asked' = s
             /\ UNCHANGED <<opts, left, role, stats, real, cut, steady, crashed, zkstatus>>
    BY <2>1, <2>2 DEF ZkTypeOK, WholeIsTrue, StatusIsVerdict, NoLeaderFound, NothingYet, Judged
  <2>3. CASE role[s] = "electing" /\ Answered(s, Absent, Nothing) /\ UNCHANGED cut
    BY <2>1, <2>3, NothingKeeps
  <2>4. CASE role[s] # "electing" /\ Reply(s, "mntr")
    BY <1>1, <2>1, <2>4, ReplyKeeps
  <2> QED BY <1>2, <2>2, <2>3, <2>4 DEF Mntr
<1>3. CASE Stat(s)
  <2>1. s \in left /\ zkpc = "stat" /\ role[s] # "down"
    BY <1>3 DEF Stat, ZkTypeOK
  <2>2. CASE Answered(s, Absent, Nothing) /\ cut' = cut \cup {s}
    BY <2>1, <2>2, NothingKeeps
  <2>3. CASE /\ ZkCrash
             /\ UNCHANGED <<opts, left, asked, role, stats, real, cut, steady>>
    BY <2>1, <2>3 DEF ZkCrash, ZkExit, ZkTypeOK, WholeIsTrue, StatusIsVerdict,
                      NoLeaderFound, NothingYet, Judged
  <2>4. CASE role[s] # "electing" /\ Reply(s, "stat")
    BY <1>1, <2>1, <2>4, ReplyKeeps
  <2> QED BY <1>3, <2>2, <2>3, <2>4 DEF Stat
<1> QED BY <1>2, <1>3

\* The invariant holds whatever servers fail, answer in part or change roles.
THEOREM ZkInvariant == ZkSpec => []ZkInv
<1>1. ZkInv /\ [ZkNext]_zkvars => ZkInv'
  BY OtherStepsKeep, AnalyzeKeeps, QuestionsKeep DEF ZkNext
<1> QED BY <1>1, InitZk, PTL DEF ZkSpec

\* Every variable keeps its type, for every command line.
THEOREM ZkTypes == ZkSpec => []ZkTypeOK
BY ZkInvariant, PTL DEF ZkInv

\* A value that was received whole is reported as bad as it is, whatever became
\* of the other servers.
THEOREM SeverityIsReported == ZkSpec => []ZkSeverityReported
<1>1. ZkInv => ZkSeverityReported
  <2> SUFFICES ASSUME ZkInv, Judged, NEW s \in Known \ cut
               PROVE  zkstatus >= Severity(real[s])
    BY DEF ZkSeverityReported
  <2>1. s \in DOMAIN stats /\ stats[s].value = real[s] /\ s \in Known
    BY DEF ZkInv, WholeIsTrue, Known
  <2>2. real[s] \in Int /\ opts.warning \in Int /\ opts.critical \in Int
    BY <2>1, OptionsAssumption DEF ZkInv, ZkTypeOK
  <2>3. zkstatus = Nagios
    BY DEF ZkInv, StatusIsVerdict
  <2>4. CASE Severity(real[s]) = 2
    <3>1. InCritical(stats[s].value)
      BY <2>1, <2>2, <2>4 DEF Severity, Beyond, InCritical, InWarning
    <3> QED BY <2>1, <2>3, <2>4, <3>1 DEF Nagios
  <2>5. CASE Severity(real[s]) = 1
    <3>1. InWarning(stats[s].value)
      BY <2>1, <2>2, <2>5 DEF Severity, Beyond, InWarning
    <3> QED BY <2>1, <2>3, <2>5, <3>1 DEF Nagios
  <2>6. CASE Severity(real[s]) = 0
    BY <2>3, <2>6 DEF Nagios
  <2> QED BY <2>4, <2>5, <2>6 DEF Severity
<1> QED BY <1>1, ZkInvariant, PTL

\* A leader that has answered in whole is found, as long as leadership stays.
THEOREM LeaderIsFound == ZkSpec => []ZkLeaderFound
<1>1. ZkInv => ZkLeaderFound
  BY DEF ZkInv, ZkLeaderFound, NoLeaderFound, WholeIsTrue, Leaders
<1> QED BY <1>1, ZkInvariant, PTL

HIDE DEF Text, Absent

-----------------------------------------------------------------------------
(***************************************************************************)
(* The composition: a step of one plugin is no step of any other, so what  *)
(* holds of each by itself holds of the host that starts one of them.      *)
(***************************************************************************)

\* Every plugin of the host is a plugin as its own module describes it.
THEOREM PluginsAreSeparate == PluginsSpec => Spec /\ ZkSpec /\ ChSpec /\ AzSpec /\ EsSpec
<1> DEFINE allvars == <<plugin, vars, zkvars, chvars, azvars, esvars>>
<1>1. PluginsInit => Init /\ ZkInit /\ ChInit /\ AzInit /\ EsInit
  BY DEF PluginsInit
<1>2. [PluginsNext]_allvars =>
        [Next]_vars /\ [ZkNext]_zkvars /\ [ChNext]_chvars /\ [AzNext]_azvars /\ [EsNext]_esvars
  BY DEF PluginsNext
<1> QED
  BY <1>1, <1>2, PTL DEF PluginsSpec, Spec, ZkSpec, ChSpec, AzSpec, EsSpec

\* Every variable of every plugin keeps its type.
THEOREM PluginsTypes == PluginsSpec => []PluginsTypeOK
<1>1. PluginsTypeOK <=> TypeOK /\ ZkTypeOK /\ ChTypeOK /\ AzTypeOK /\ EsTypeOK
  BY DEF PluginsTypeOK
<1> QED
  BY <1>1, PluginsAreSeparate, IoTypes, ZkTypes, ChTypes, AzTypes, EsTypes, PTL

\* What the plugins say about the host is true of it, each in its own way, on
\* a host that has them all.
THEOREM PluginsTellTheTruth ==
    PluginsSpec => []( /\ CriticalReported /\ OkIsEarned
                       /\ ZkSeverityReported /\ ZkLeaderFound
                       /\ DisksJudged
                       /\ LongRunReported /\ FailuresJudged
                       /\ FactIsPrinted )
BY PluginsAreSeparate, CriticalIsReported, OkOnlyWhenSampled, SeverityIsReported, LeaderIsFound,
   DisksAreJudged, LongRunsAreReported, FailuresAreJudged, HostHasFact, PTL
=============================================================================
