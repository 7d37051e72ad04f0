------------------------- MODULE CheckClusterHealth -------------------------
(***************************************************************************)
(* check_cluster_health.py, the nrpe plugin for hosts with data disks: a   *)
(* few settings, and whether the data disks of fstab are mounted.  mount   *)
(* and fstab are read one after the other, while disks are lost, mounted,  *)
(* and added to fstab.                                                     *)
(***************************************************************************)
EXTENDS Naturals, FiniteSets

CONSTANT DataDisks      \* mount points below /data

ASSUME DataDisksAssumption == IsFiniteSet(DataDisks) /\ "" \notin DataDisks

VARIABLES
    chpc,       \* where the script is
    mounted,    \* data disks that are mounted
    fstab,      \* data disks of /etc/fstab
    points,     \* those that mount listed
    failed,     \* entries of fstab that are not among them
    wrong,      \* a setting is not what it should be
    moved,      \* history: disks or fstab have changed since mount was read
    chstatus    \* exit status

chvars == <<chpc, mounted, fstab, points, failed, wrong, moved, chstatus>>

ChTypeOK ==
    /\ chpc \in {"settings", "mounts", "fstab", "exit", "done"}
    /\ mounted \in SUBSET DataDisks /\ fstab \in SUBSET DataDisks
    /\ points \in SUBSET DataDisks
    /\ failed \subseteq DataDisks \cup {""}
    /\ wrong \in BOOLEAN /\ moved \in BOOLEAN
    /\ chstatus \in {0, 2} /\ (wrong => chstatus = 2)

ChInit ==
    /\ chpc = "settings"
    /\ mounted \in SUBSET DataDisks
    /\ fstab \in SUBSET DataDisks
    /\ points = {} /\ failed = {}
    /\ wrong = FALSE /\ moved = FALSE
    /\ chstatus = 0

\* The avahi daemon, IPv6 in the configuration and in /proc, the mode of
\* /tmp: any that is wrong makes the status 2.
CheckSettings ==
    /\ chpc = "settings"
    /\ wrong' \in BOOLEAN
    /\ chstatus' = IF wrong' THEN 2 ELSE chstatus
    /\ chpc' = "mounts"
    /\ UNCHANGED <<mounted, fstab, points, failed, moved>>

\* fstab is only looked at when at least one data disk is mounted.
ReadMounts ==
    /\ chpc = "mounts"
    /\ points' = mounted
    /\ chpc' = IF mounted = {} THEN "exit" ELSE "fstab"
    /\ UNCHANGED <<mounted, fstab, failed, wrong, moved, chstatus>>

\* Without a line the output is split into one entry, the empty one.
Entries == IF fstab = {} THEN {""} ELSE fstab

\* (variant with a mistake: the disks that are mounted are looked for in fstab)
ReadFstabReversed ==
    /\ chpc = "fstab"
    /\ failed' = points \ Entries
    /\ chstatus' = IF chstatus + Cardinality(failed') # 0 THEN 2 ELSE 0
    /\ chpc' = "exit"
    /\ UNCHANGED <<mounted, fstab, points, wrong, moved>>

ReadFstab ==
    /\ chpc = "fstab"
    /\ failed' = Entries \ points
    /\ chstatus' = IF chstatus + Cardinality(failed') # 0 THEN 2 ELSE 0
    /\ chpc' = "exit"
    /\ UNCHANGED <<mounted, fstab, points, wrong, moved>>

PrintHealth ==
    /\ chpc = "exit"
    /\ chpc' = "done"
    /\ UNCHANGED <<mounted, fstab, points, failed, wrong, moved, chstatus>>

\* A disk is lost or mounted, or fstab is edited.
DisksMove ==
    /\ chpc # "done"
    /\ \/ mounted' \in SUBSET DataDisks /\ UNCHANGED fstab
       \/ fstab' \in SUBSET DataDisks /\ UNCHANGED mounted
    /\ moved' = (moved \/ chpc \in {"fstab", "exit"})
    /\ UNCHANGED <<chpc, points, failed, wrong, chstatus>>

ChNext ==
    \/ CheckSettings
    \/ ReadMounts
    \/ ReadFstab
    \/ PrintHealth
    \/ DisksMove

ChSpec == ChInit /\ [][ChNext]_chvars

-----------------------------------------------------------------------------
\* If nothing moved since the mounts were read, a host with the right settings
\* is healthy exactly when the data disks of fstab, of which there are some, are
\* all mounted -- or none is: a host that has lost every data disk is a healthy
\* one.  No host with a wrong setting is.
DisksJudged ==
    (chpc = "done" /\ ~moved) =>
        (chstatus = 0 <=>
            ~wrong /\ (mounted = {} \/ (fstab # {} /\ fstab \subseteq mounted)))
=============================================================================
