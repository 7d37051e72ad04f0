---------------------------- MODULE MCInitScript ----------------------------
(* Two callers of the script on a machine with three pids. *)
EXTENDS InitScript

CONSTANTS agent, operator, p1, p2, p3

MCCallers == {agent, operator}
MCPids == {p1, p2, p3}
=============================================================================
