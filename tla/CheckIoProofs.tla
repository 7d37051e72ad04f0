---------------------------- MODULE CheckIoProofs ----------------------------
(***************************************************************************)
(* Proofs about CheckIo for any disks, command lines, counters and loads.  *)
(* The difference of two samples is what the host did, unless the counter  *)
(* has wrapped around, and the status of the plugin is the highest level   *)
(* of any disk until the alarm goes off.                                   *)
(***************************************************************************)
EXTENDS CheckIo, TLAPS

\* The highest of a set of levels is one of them, and none is higher.
LEMMA HighestLevel ==
    ASSUME NEW S \in SUBSET (0..3), S # {}
    PROVE  /\ Highest(S) \in S
           /\ \A k \in S : k <= Highest(S)
<1>1. \E l \in S : \A k \in S : k <= l
  <2>1. CASE 3 \in S
    BY <2>1
  <2>2. CASE 3 \notin S /\ 2 \in S
    BY <2>2
  <2>3. CASE 3 \notin S /\ 2 \notin S /\ 1 \in S
    BY <2>3
  <2>4. CASE 3 \notin S /\ 2 \notin S /\ 1 \notin S
    <3>1. \A k \in S : k = 0
      BY <2>4
    <3>2. 0 \in S
      BY <3>1
    <3> QED BY <3>1, <3>2
  <2> QED BY <2>1, <2>2, <2>3, <2>4
<1> QED BY <1>1 DEF Highest

\* A counter that advances by less than its size either shows the advance or
\* shows less than before.
LEMMA Modulo ==
    ASSUME NEW n \in Nat \ {0}, NEW a \in 0..(n-1), NEW b \in 0..(n-1)
    PROVE  /\ (a + b) % n \in Nat
           /\ (a + b) % n \in 0..(n-1)
           /\ (a + b) % n >= a => ((a + b) % n) - a = b
<1>1. CASE a + b < n
  BY <1>1, SMTT(30)
<1>2. CASE a + b >= n
  BY <1>2, SMTT(30)
<1> QED BY <1>1, <1>2

\* A counter is less than its size.
LEMMA Remainder ==
    ASSUME NEW n \in Nat \ {0}, NEW s \in Int
    PROVE  s % n \in 0..(n-1)
BY SMTT(30)

\* Until the disks have been read twice there is no second sample, and then
\* each that is there shows what its disk did.
SamplesTrue ==
    /\ pc \in {"validate", "select", "timer", "first"} => DOMAIN first = {}
    /\ pc \in {"validate", "select", "timer", "first", "sleep", "second"} => DOMAIN second = {}
    /\ \A d \in DOMAIN second, f \in Fields :
        second[d][f] >= first[d][f] => Delta(d, f) = work[d][f]

\* The status is 0 or an end of the command line until the limits are checked.
HighestVerdict == Highest({0} \cup {checkLimits(d) : d \in selected})
StatusTrue ==
    /\ pc \in {"limits", "exit"} => clock >= Wake
    /\ pc = "exit" => status = HighestVerdict
    /\ pc = "done" =>
        \/ status = HighestVerdict /\ clock >= Wake
        \/ status = 1 /\ clock = Deadline
        \/ status \in {1, 3} /\ DOMAIN second = {}

\* A sample, before and after it is taken.
Sampled(perf) == perf \in [DOMAIN perf -> Counters] /\ \A d \in DOMAIN perf, f \in Fields : perf[d][f] < Size[f]

IoInv == TypeOK /\ Sampled(first) /\ SamplesTrue /\ StatusTrue

\* The sizes of the counters, and the numbers of a command line.
LEMMA Sizes ==
    /\ Fields = {"sread", "swrite", "tbusy"}
    /\ \A f \in Fields : Size[f] \in Nat \ {0}
    /\ \A w \in Work, f \in Fields : w[f] \in 0..(Size[f] - 1)
    /\ \A s \in Starts : s \in Int
    /\ MaxSize \in Nat /\ BusyPerSecond \in Nat \ {0}
BY SizesAssumption DEF Fields, Counters

\* A level is one of the exit statuses.
LEMMA Levels ==
    ASSUME NEW value, NEW warn, NEW crit
    PROVE  Level(value, warn, crit) \in 0..2
BY DEF Level

\* So is the verdict, and no disk is worse.
LEMMA VerdictIsHighest ==
    /\ HighestVerdict \in 0..3
    /\ \A d \in selected : checkLimits(d) <= HighestVerdict
    /\ \A d \in Disks : checkLimits(d) \in 0..3
    /\ \A d \in DOMAIN second :
        \A l \in Throughput(d) \cup {Utilization(d)} : l <= checkLimits(d)
<1>1. ASSUME NEW d
      PROVE  /\ Throughput(d) \cup {Utilization(d)} \in SUBSET (0..3)
             /\ Highest(Throughput(d) \cup {Utilization(d)}) \in 0..3
             /\ \A l \in Throughput(d) \cup {Utilization(d)} :
                    l <= Highest(Throughput(d) \cup {Utilization(d)})
  <2>1. Utilization(d) \in 0..3
    BY Levels DEF Utilization
  <2>2. Throughput(d) \subseteq 0..3
    BY Levels DEF Throughput
  <2> QED BY <2>1, <2>2, HighestLevel
<1>2. ASSUME NEW d PROVE checkLimits(d) \in 0..3
  BY <1>1 DEF checkLimits
<1>3. {0} \cup {checkLimits(d) : d \in selected} \in SUBSET (0..3)
  BY <1>2
<1>4. /\ HighestVerdict \in {0} \cup {checkLimits(d) : d \in selected}
      /\ \A k \in {0} \cup {checkLimits(d) : d \in selected} : k <= HighestVerdict
  BY <1>3, HighestLevel DEF HighestVerdict
<1> QED BY <1>1, <1>2, <1>3, <1>4 DEF checkLimits

\* Nothing is read yet.
LEMMA InitIo == Init => IoInv
<1> SUFFICES ASSUME Init PROVE IoInv
  OBVIOUS
<1>1. DOMAIN first = {} /\ DOMAIN second = {}
  BY DEF Init
<1>2. first \in [DOMAIN first -> Counters] /\ second \in [DOMAIN second -> Counters]
  BY <1>1
<1>3. NoWork \in Counters
  BY DEF NoWork, Counters
<1>4. work \in [Disks -> Counters]
  BY <1>3 DEF Init
<1>5. args \in CommandLines /\ pc = "validate" /\ clock = 0 /\ start = 0 /\ selected = {} /\ status = 0
  BY ArgsAssumption DEF Init
<1>6. args.timeout \in Nat
  BY <1>5 DEF CommandLines
<1>7. TypeOK
  BY <1>1, <1>2, <1>4, <1>5, <1>6 DEF TypeOK, TicksPerSecond
<1> QED
  BY <1>1, <1>2, <1>5, <1>7 DEF IoInv, SamplesTrue, Sampled, StatusTrue

\* The definitions that only depend on what a step leaves as it is.
LEMMA Unmoved ==
    ASSUME UNCHANGED <<args, selected, first, second>>
    PROVE  /\ \A d, f : Delta(d, f)' = Delta(d, f)
           /\ \A d : checkLimits(d)' = checkLimits(d)
           /\ HighestVerdict' = HighestVerdict
<1>1. \A d, f : Delta(d, f)' = Delta(d, f)
  BY DEF Delta
<1>2. \A d : Throughput(d)' = Throughput(d) /\ Utilization(d)' = Utilization(d)
  BY <1>1 DEF Throughput, Utilization
<1>3. \A d : checkLimits(d)' = checkLimits(d)
  BY <1>2 DEF checkLimits
<1>4. {checkLimits(d) : d \in selected}' = {checkLimits(d) : d \in selected}
  BY <1>3
<1> QED BY <1>1, <1>3, <1>4 DEF HighestVerdict

\* The steps that read no counters.
LEMMA QuietSteps ==
    ASSUME IoInv, UNCHANGED <<args, first, second, work>>,
           \/ Validate \/ SelectDevices \/ StartTimer \/ Sleep
           \/ CheckDevices \/ PrintAndExit \/ ScriptTimeout \/ Tick \/ UNCHANGED vars
    PROVE  IoInv'
<1> USE DEF IoInv, Deadline, Wake, TicksPerSecond
<1>0. args.timeout \in Nat /\ args.averaging \in Nat /\ clock \in Int /\ start \in Int
  BY DEF TypeOK, CommandLines
<1>a. Sampled(first)'
  BY DEF Sampled
<1>1. CASE Validate
  BY <1>0, <1>1, <1>a, Unmoved DEF Validate, Exit, TypeOK, SamplesTrue, StatusTrue, Delta
<1>2. CASE SelectDevices
  BY <1>0, <1>2, <1>a DEF SelectDevices, TypeOK, SamplesTrue, StatusTrue, Delta, CommandLines
<1>3. CASE StartTimer
  BY <1>0, <1>3, <1>a, Unmoved DEF StartTimer, TypeOK, SamplesTrue, StatusTrue, Delta
<1>4. CASE Sleep
  BY <1>0, <1>4, <1>a, Unmoved DEF Sleep, Exit, TypeOK, SamplesTrue, StatusTrue, Delta
<1>5. CASE CheckDevices
  <2>1. status' = HighestVerdict /\ HighestVerdict \in 0..3 /\ HighestVerdict' = HighestVerdict
    BY <1>5, Unmoved, VerdictIsHighest DEF CheckDevices, HighestVerdict
  <2> QED BY <1>0, <1>5, <1>a, <2>1 DEF CheckDevices, TypeOK, SamplesTrue, StatusTrue, Delta
<1>6. CASE PrintAndExit
  <2>1. HighestVerdict' = HighestVerdict
    BY <1>6, Unmoved DEF PrintAndExit
  <2> QED BY <1>0, <1>6, <1>a, <2>1 DEF PrintAndExit, Exit, TypeOK, SamplesTrue, StatusTrue, Delta
<1>7. CASE ScriptTimeout
  BY <1>0, <1>7, <1>a DEF ScriptTimeout, Exit, TypeOK, SamplesTrue, StatusTrue, Delta
<1>8. CASE Tick
  <2>1. HighestVerdict' = HighestVerdict
    BY <1>8, Unmoved DEF Tick
  <2> QED BY <1>0, <1>8, <1>a, <2>1 DEF Tick, TypeOK, SamplesTrue, StatusTrue, Delta
<1>9. CASE UNCHANGED vars
  <2>1. HighestVerdict' = HighestVerdict
    BY <1>9, Unmoved DEF vars
  <2> QED BY <1>9, <1>a, <2>1 DEF vars, TypeOK, SamplesTrue, StatusTrue, Delta
<1> QED BY <1>1, <1>2, <1>3, <1>4, <1>5, <1>6, <1>7, <1>8, <1>9

\* The first sample is one.
LEMMA FirstSample == ASSUME IoInv, ReadFirst PROVE IoInv'
<1> USE DEF IoInv
<1>1. PICK present \in SUBSET selected, s \in Starts :
        first' = [d \in present |-> [f \in Fields |-> s % Size[f]]]
  BY DEF ReadFirst
<1>2. \A f \in Fields : s % Size[f] \in 0..(Size[f] - 1)
  BY Sizes, Remainder
<1>3. \A f \in Fields : s % Size[f] \in Nat /\ s % Size[f] < Size[f]
  BY <1>2, Sizes
<1>4. DOMAIN first' = present /\ Sampled(first)'
  BY <1>1, <1>3 DEF Sampled, Counters
<1>5. DOMAIN second = {} /\ pc = "first" /\ pc' = "sleep"
      /\ UNCHANGED <<args, clock, start, selected, second, work, status>>
  BY DEF ReadFirst, SamplesTrue
<1> QED
  BY <1>4, <1>5 DEF TypeOK, SamplesTrue, StatusTrue, Sampled

\* The second shows what the disks did, or has wrapped around.
LEMMA SecondSample == ASSUME IoInv, ReadSecond PROVE IoInv'
<1> USE DEF IoInv
<1>1. PICK present \in SUBSET selected : \E done \in [present -> Work] :
        /\ work' = [d \in Disks |-> IF d \in present THEN done[d] ELSE NoWork]
        /\ second' = [d \in present \cap DOMAIN first |->
                        [f \in Fields |-> (first[d][f] + done[d][f]) % Size[f]]]
  BY DEF ReadSecond
<1>2. PICK done \in [present -> Work] :
        /\ work' = [d \in Disks |-> IF d \in present THEN done[d] ELSE NoWork]
        /\ second' = [d \in present \cap DOMAIN first |->
                        [f \in Fields |-> (first[d][f] + done[d][f]) % Size[f]]]
  BY <1>1
<1>3. /\ pc = "second" /\ pc' = "limits" /\ clock >= Wake
      /\ UNCHANGED <<args, clock, start, selected, first, status>>
  BY DEF ReadSecond
<1>4. ASSUME NEW d \in present \cap DOMAIN first, NEW f \in Fields
      PROVE  /\ second'[d][f] \in Nat
             /\ second'[d][f] >= first'[d][f] => Delta(d, f)' = work'[d][f]
  <2>0. Size[f] \in Nat \ {0} /\ d \in DOMAIN first /\ d \in present
    BY Sizes
  <2>1. first[d][f] \in 0..(Size[f] - 1)
    <3>1. first[d] \in Counters /\ first[d][f] < Size[f]
      BY <2>0 DEF Sampled
    <3>2. first[d][f] \in Nat
      BY <3>1 DEF Counters
    <3> QED BY <2>0, <3>1, <3>2
  <2>2. done[d][f] \in 0..(Size[f] - 1)
    BY Sizes
  <2>3. second'[d][f] = (first[d][f] + done[d][f]) % Size[f]
    BY <1>2
  <2>4. work'[d][f] = done[d][f]
    BY <1>2 DEF TypeOK
  <2>5. /\ second'[d][f] \in Nat
        /\ second'[d][f] >= first[d][f] => second'[d][f] - first[d][f] = done[d][f]
    <3>1. /\ (first[d][f] + done[d][f]) % Size[f] \in Nat
          /\ (first[d][f] + done[d][f]) % Size[f] >= first[d][f] =>
               ((first[d][f] + done[d][f]) % Size[f]) - first[d][f] = done[d][f]
      BY <2>0, <2>1, <2>2, Modulo
    <3> QED BY <2>3, <3>1
  <2> QED BY <1>3, <2>1, <2>2, <2>4, <2>5 DEF Delta
<1>5. DOMAIN second' = present \cap DOMAIN first /\ second' \in [DOMAIN second' -> Counters]
  BY <1>2, <1>4 DEF Counters
<1>6. work' \in [Disks -> Counters]
  <2>1. NoWork \in Counters
    BY DEF NoWork, Counters
  <2>2. Work \subseteq Counters
    BY SizesAssumption
  <2> QED BY <1>2, <2>1, <2>2
<1>7. TypeOK'
  BY <1>3, <1>5, <1>6 DEF TypeOK
<1>8. SamplesTrue'
  BY <1>3, <1>4, <1>5 DEF SamplesTrue
<1>9. StatusTrue' /\ Sampled(first)'
  BY <1>3 DEF StatusTrue, Sampled, Wake
<1> QED BY <1>7, <1>8, <1>9

\* The invariant holds for every load, every disk that comes or goes, and
\* wherever the alarm goes off.
THEOREM IoInvariant == Spec => []IoInv
<1>1. IoInv /\ [Next]_vars => IoInv'
  <2> SUFFICES ASSUME IoInv, [Next]_vars PROVE IoInv'
    OBVIOUS
  <2>1. CASE ReadFirst \/ ReadSecond
    BY <2>1, FirstSample, SecondSample
  <2>2. CASE ~(ReadFirst \/ ReadSecond)
    <3>1. \/ Validate \/ SelectDevices \/ StartTimer \/ Sleep
          \/ CheckDevices \/ PrintAndExit \/ ScriptTimeout \/ Tick \/ UNCHANGED vars
      BY <2>2 DEF Next
    <3>2. UNCHANGED <<args, first, second, work>>
      BY <3>1 DEF Validate, SelectDevices, StartTimer, Sleep, CheckDevices, PrintAndExit,
                  ScriptTimeout, Tick, vars
    <3> QED BY <3>1, <3>2, QuietSteps
  <2> QED BY <2>1, <2>2
<1> QED BY <1>1, InitIo, PTL DEF Spec

\* Every variable keeps its type.
THEOREM IoTypes == Spec => []TypeOK
BY IoInvariant, PTL DEF IoInv

\* What the counters of a disk show is what the disk did, if none has wrapped.
LEMMA RealThroughout ==
    ASSUME IoInv, NEW d \in DOMAIN second, ~Wrapped(d)
    PROVE  RealLevels(d) =
             (IF args.sread_crit = 0 THEN {} ELSE Throughput(d)) \cup {Utilization(d)}
<1>1. \A f \in Fields : second[d][f] \in Nat /\ first[d][f] \in Nat
  BY DEF IoInv, TypeOK, Counters
<1>2. \A f \in Fields : Delta(d, f) = work[d][f]
  BY <1>1 DEF IoInv, SamplesTrue, Wrapped
<1>3. Delta(d, "sread") = work[d]["sread"] /\ Delta(d, "swrite") = work[d]["swrite"]
      /\ Delta(d, "tbusy") = work[d]["tbusy"]
  BY <1>2, Sizes
<1>4. Utilization(d) = Level(100 * work[d]["tbusy"],
                             args.util_warn * BusyPerSecond * args.averaging,
                             args.util_crit * BusyPerSecond * args.averaging)
  <2>1. /\ args.util_warn \in Int /\ args.util_crit \in Int /\ args.averaging \in Int
        /\ BusyPerSecond \in Int
    BY Sizes DEF IoInv, TypeOK, CommandLines
  <2>2. /\ args.util_warn * BusyPerSecond * args.averaging
              = args.util_warn * (BusyPerSecond * args.averaging)
        /\ args.util_crit * BusyPerSecond * args.averaging
              = args.util_crit * (BusyPerSecond * args.averaging)
    BY <2>1
  <2> QED BY <1>3, <2>2 DEF Utilization
<1> QED BY <1>3, <1>4 DEF RealLevels, Throughput

\* A disk over a critical threshold is reported as critical, or the plugin
\* runs into its timeout.
THEOREM CriticalIsReported == Spec => []CriticalReported
<1>1. IoInv => CriticalReported
  <2> SUFFICES ASSUME IoInv, pc = "done", NEW d \in DOMAIN second, ~Wrapped(d), 2 \in RealLevels(d)
               PROVE  status >= 2 \/ clock = Deadline
    BY DEF CriticalReported
  <2>1. 2 \in Throughput(d) \cup {Utilization(d)}
    BY RealThroughout
  <2>2. d \in selected /\ checkLimits(d) >= 2
    BY <2>1, VerdictIsHighest DEF IoInv, TypeOK
  <2>3. HighestVerdict \in 0..3 /\ checkLimits(d) <= HighestVerdict /\ checkLimits(d) \in 0..3
    BY <2>2, VerdictIsHighest DEF IoInv, TypeOK
  <2> QED BY <2>2, <2>3 DEF IoInv, StatusTrue
<1> QED BY <1>1, IoInvariant, PTL

\* OK is said only of disks that were sampled twice and did nothing over a
\* warning threshold.
THEOREM OkOnlyWhenSampled == Spec => []OkIsEarned
<1>1. IoInv => OkIsEarned
  <2> SUFFICES ASSUME IoInv, pc = "done", status = 0
               PROVE  /\ clock >= Wake
                      /\ \A d \in selected : d \in DOMAIN second
                                            /\ (Wrapped(d) \/ RealLevels(d) = {0})
    BY DEF OkIsEarned
  <2>1. HighestVerdict = 0 /\ clock >= Wake
    BY DEF IoInv, StatusTrue
  <2>2. ASSUME NEW d \in selected
        PROVE  d \in DOMAIN second /\ (Wrapped(d) \/ RealLevels(d) = {0})
    <3>1. d \in Disks /\ checkLimits(d) = 0
      <4>1. d \in Disks
        BY DEF IoInv, TypeOK
      <4>2. checkLimits(d) <= 0 /\ checkLimits(d) \in 0..3
        BY <2>1, <4>1, VerdictIsHighest
      <4> QED BY <4>1, <4>2
    <3>2. d \in DOMAIN second
      BY <3>1 DEF checkLimits
    <3>3. CASE ~Wrapped(d)
      <4>1. \A l \in Throughput(d) \cup {Utilization(d)} : l <= 0 /\ l \in 0..2
        BY <3>1, <3>2, VerdictIsHighest, Levels DEF Throughput, Utilization
      <4>2. Utilization(d) = 0 /\ Throughput(d) \subseteq {0}
        BY <4>1
      <4> QED BY <3>2, <3>3, <4>2, RealThroughout
    <3> QED BY <3>2, <3>3
  <2> QED BY <2>1, <2>2
<1> QED BY <1>1, IoInvariant, PTL
=============================================================================
