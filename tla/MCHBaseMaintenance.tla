------------------------- MODULE MCHBaseMaintenance -------------------------
(* Three hosts with a master: the active one and two backups. *)
EXTENDS HBaseMaintenance, TLC

CONSTANTS h1, h2, h3

MCHosts == {h1, h2, h3}
MCSymmetry == Permutations(MCHosts)
=============================================================================
