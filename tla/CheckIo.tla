------------------------------ MODULE CheckIo ------------------------------
(***************************************************************************)
(* check_io.py, the nrpe plugin that reads the kernel's disk counters      *)
(* twice, averaging_period apart, and compares the differences with its    *)
(* thresholds, while an alarm ends it after timeout, disks come and go,    *)
(* and counters wrap around.                                               *)
(***************************************************************************)
EXTENDS Integers

CONSTANTS
    Disks,          \* block devices of the host
    Args,           \* command lines: timeout, averaging (seconds), devices,
                    \* and the thresholds, 0 for one that is not given
    Starts,         \* where counters start, negative: so far below their size
    Work,           \* what a counter may advance by between the samples, less than its size
    Size,           \* the number of values of each kernel counter
    MaxSize,        \* sys.maxsize
    BusyPerSecond   \* the tbusy counter's unit: 1000 in the kernel

Fields == {"sread", "swrite", "tbusy"}
Counters == [Fields -> Nat]

\* The clock runs in ticks, so that two events of a second have an order.
TicksPerSecond == 2

ASSUME SizesAssumption ==
    /\ Size \in [Fields -> Nat \ {0}]
    /\ MaxSize \in Nat
    /\ BusyPerSecond \in Nat \ {0}
    /\ Work \subseteq Counters
    /\ \A w \in Work, f \in Fields : w[f] < Size[f]
    /\ Starts \subseteq Int

CommandLines ==
    [timeout : Nat \ {0}, averaging : Nat \ {0}, devices : SUBSET Disks,
     util_warn : 1..98, util_crit : 2..99,
     sread_warn : Nat, sread_crit : Nat, swrite_warn : Nat, swrite_crit : Nat]

ASSUME ArgsAssumption == Args \subseteq CommandLines

VARIABLES
    pc,         \* the statement of main
    args,       \* the command line
    clock,      \* ticks since signal.alarm
    start,      \* time_start
    selected,   \* device_names
    first,      \* performance_data[0] of the devices that have it
    second,     \* performance_data[1]
    work,       \* history: what the counters really advanced by
    status      \* nagios.exit_status

vars == <<pc, args, clock, start, selected, first, second, work, status>>

NoWork == [f \in Fields |-> 0]

TypeOK ==
    /\ pc \in {"validate", "select", "timer", "first", "sleep", "second",
               "limits", "exit", "done"}
    /\ args \in CommandLines
    /\ clock \in 0..(args.timeout * TicksPerSecond)
    /\ start \in 0..clock
    /\ selected \subseteq Disks
    /\ DOMAIN second \subseteq DOMAIN first /\ DOMAIN first \subseteq selected
    /\ first \in [DOMAIN first -> Counters] /\ second \in [DOMAIN second -> Counters]
    /\ work \in [Disks -> Counters]
    /\ status \in 0..3

Init ==
    /\ pc = "validate"
    /\ args \in Args
    /\ clock = 0
    /\ start = 0
    /\ selected = {}
    /\ first = [d \in {} |-> NoWork]
    /\ second = [d \in {} |-> NoWork]
    /\ work = [d \in Disks |-> NoWork]
    /\ status = 0

Deadline == args.timeout * TicksPerSecond
Wake == start + args.averaging * TicksPerSecond

Exit(code) ==
    /\ status' = code
    /\ pc' = "done"

-----------------------------------------------------------------------------
Thresholds == {args.sread_warn, args.sread_crit, args.swrite_warn, args.swrite_crit}

\* What main refuses after parsing the command line.
Invalid ==
    \/ args.timeout + 1 <= args.averaging
    \/ args.util_warn >= args.util_crit
    \/ Thresholds # {0} /\ 0 \in Thresholds
    \/ args.sread_warn > 0 /\ args.sread_warn >= args.sread_crit
    \/ args.swrite_warn > 0 /\ args.swrite_warn >= args.swrite_crit

Validate ==
    /\ pc = "validate"
    /\ IF Invalid THEN Exit(3) ELSE pc' = "select" /\ UNCHANGED status
    /\ UNCHANGED <<args, clock, start, selected, first, second, work>>

\* The devices of the command line, or those found in diskstats.
SelectDevices ==
    /\ pc = "select"
    /\ selected' \in IF args.devices # {} THEN {args.devices} ELSE SUBSET Disks
    /\ pc' = "timer"
    /\ UNCHANGED <<args, clock, start, first, second, work, status>>

\* time_start is read later than the alarm was set.
StartTimer ==
    /\ pc = "timer"
    /\ clock > 0
    /\ start' = clock
    /\ pc' = "first"
    /\ UNCHANGED <<args, clock, selected, first, second, work, status>>

\* Only the disks that are there get a sample.
ReadFirst ==
    /\ pc = "first"
    /\ \E present \in SUBSET selected, s \in Starts :
        first' = [d \in present |-> [f \in Fields |-> s % Size[f]]]
    /\ pc' = "sleep"
    /\ UNCHANGED <<args, clock, start, selected, second, work, status>>

\* A negative remainder makes sleep raise IOError, which main reports as a
\* problem with a file.
Sleep ==
    /\ pc = "sleep"
    /\ IF clock > Wake THEN Exit(1) ELSE pc' = "second" /\ UNCHANGED status
    /\ UNCHANGED <<args, clock, start, selected, first, second, work>>

\* A disk that appears only now has this sample as its only one.
ReadSecond ==
    /\ pc = "second"
    /\ clock >= Wake
    /\ \E present \in SUBSET selected :
        \E done \in [present -> Work] :
            /\ work' = [d \in Disks |-> IF d \in present THEN done[d] ELSE NoWork]
            /\ second' = [d \in present \cap DOMAIN first |->
                            [f \in Fields |-> (first[d][f] + done[d][f]) % Size[f]]]
    /\ pc' = "limits"
    /\ UNCHANGED <<args, clock, start, selected, first, status>>

\* The difference of two samples; a negative one is taken for an overflow.
Delta(d, f) ==
    LET change == second[d][f] - first[d][f]
    IN IF change < 0 THEN change + MaxSize ELSE change

Level(value, warn, crit) == IF value > crit THEN 2 ELSE IF value > warn THEN 1 ELSE 0

Throughput(d) ==
    IF args.sread_crit = 0 THEN {0}
    ELSE {Level(Delta(d, "sread"), args.sread_warn, args.sread_crit),
          Level(Delta(d, "swrite"), args.swrite_warn, args.swrite_crit)}

\* 100 * tbusy / (1000 * averaging_period) against a percentage.
Utilization(d) ==
    LET second_percent == BusyPerSecond * args.averaging
    IN Level(100 * Delta(d, "tbusy"),
             args.util_warn * second_percent, args.util_crit * second_percent)

Highest(levels) == CHOOSE l \in levels : \A k \in levels : k <= l

\* (variants with a mistake: a disk without two samples is fine; the level of
\* the utilization replaces the one of the throughput)
LimitsLenient(d) ==
    IF d \notin DOMAIN second THEN 0
    ELSE Highest(Throughput(d) \cup {Utilization(d)})
LimitsLastWins(d) ==
    IF d \notin DOMAIN second THEN 3
    ELSE IF Utilization(d) > 0 THEN Utilization(d) ELSE Highest(Throughput(d))

checkLimits(d) ==
    IF d \notin DOMAIN second THEN 3
    ELSE Highest(Throughput(d) \cup {Utilization(d)})

\* updateData keeps the highest status; without devices everything is OK.
CheckDevices ==
    /\ pc = "limits"
    /\ status' = Highest({0} \cup {checkLimits(d) : d \in selected})
    /\ pc' = "exit"
    /\ UNCHANGED <<args, clock, start, selected, first, second, work>>

PrintAndExit ==
    /\ pc = "exit"
    /\ Exit(status)
    /\ UNCHANGED <<args, clock, start, selected, first, second, work>>

\* SIGALRM is raised wherever main is, once the result is known too.
ScriptTimeout ==
    /\ pc # "done"
    /\ clock = Deadline
    /\ Exit(1)
    /\ UNCHANGED <<args, clock, start, selected, first, second, work>>

\* (variant with a mistake: the deadline is not the alarm's)
TickPastDeadline ==
    /\ pc # "done"
    /\ clock' = clock + 1
    /\ clock <= Deadline
    /\ UNCHANGED <<pc, args, start, selected, first, second, work, status>>

Tick ==
    /\ pc # "done"
    /\ clock < Deadline
    /\ clock' = clock + 1
    /\ UNCHANGED <<pc, args, start, selected, first, second, work, status>>

Next ==
    \/ Validate
    \/ SelectDevices
    \/ StartTimer
    \/ ReadFirst
    \/ Sleep
    \/ ReadSecond
    \/ CheckDevices
    \/ PrintAndExit
    \/ ScriptTimeout
    \/ Tick

Spec == Init /\ [][Next]_vars

-----------------------------------------------------------------------------
\* What the host really did between the samples, against the thresholds.
RealLevels(d) ==
    (IF args.sread_crit = 0 THEN {}
     ELSE {Level(work[d]["sread"], args.sread_warn, args.sread_crit),
           Level(work[d]["swrite"], args.swrite_warn, args.swrite_crit)})
    \cup {Level(100 * work[d]["tbusy"], args.util_warn * BusyPerSecond * args.averaging,
                args.util_crit * BusyPerSecond * args.averaging)}

\* A counter of d wrapped around between the samples: the correction by
\* sys.maxsize is not by the counter's size, and the difference is wrong.
Wrapped(d) == \E f \in Fields : second[d][f] < first[d][f]

\* A disk over a critical threshold is never reported as a warning or as
\* fine, unless one of its counters wrapped around or the plugin runs into
\* its timeout: what happens to another disk does not hide it.
CriticalReported ==
    (pc = "done" /\ \E d \in DOMAIN second : ~Wrapped(d) /\ 2 \in RealLevels(d)) =>
        status >= 2 \/ clock = Deadline

\* OK means that every selected disk was there for both samples, a whole
\* averaging period after the timer started, and did nothing over a warning
\* threshold, as far as its counters did not wrap around.
OkIsEarned ==
    (pc = "done" /\ status = 0) =>
        /\ clock >= Wake
        /\ \A d \in selected :
            d \in DOMAIN second /\ (Wrapped(d) \/ RealLevels(d) = {0})

\* The help of the throughput thresholds (lines 219 to 228): a number of
\* sectors per second.
ThresholdsPerSecond ==
    pc = "exit" =>
        \A d \in DOMAIN second :
            Level(Delta(d, "sread"), args.sread_warn, args.sread_crit)
                = Level(work[d]["sread"], args.sread_warn * args.averaging,
                        args.sread_crit * args.averaging)
=============================================================================
