----------------------------- MODULE MCCheckIo -----------------------------
(* Two disks, short timeouts, counters a few values wide. *)
EXTENDS CheckIo, TLC

CONSTANTS sda, sdb

MCDisks == {sda, sdb}
MCSymmetry == Permutations(MCDisks)

Arg(timeout, averaging, devices, util, sread, swrite) ==
    [timeout |-> timeout, averaging |-> averaging, devices |-> devices,
     util_warn |-> util[1], util_crit |-> util[2],
     sread_warn |-> sread[1], sread_crit |-> sread[2],
     swrite_warn |-> swrite[1], swrite_crit |-> swrite[2]]

\* Valid and invalid command lines, with and without throughput thresholds.
MCArgs ==
    {Arg(t, a, d, u, s, w) :
        t \in 1..3, a \in 1..3, d \in {{}, MCDisks}, u \in {<<40, 60>>, <<60, 60>>},
        s \in {<<0, 0>>, <<1, 2>>, <<2, 2>>}, w \in {<<0, 0>>, <<1, 2>>}}

\* A disk may be idle, busy, or over one threshold or all of them.
MCWork ==
    {[sread |-> r, swrite |-> w, tbusy |-> b] :
        r \in {0, 2, 3}, w \in {0, 3}, b \in {0, 2, 8}}
MCBusyPerSecond == 4

\* As on 64-bit hosts the busy counter is narrower than the others, which
\* have one bit more than sys.maxsize.
MCMaxSize == 31
MCSize == [f \in Fields |-> IF f = "tbusy" THEN 16 ELSE 64]

MCFromZero == {0}
MCStarts == {0, -1}
=============================================================================
