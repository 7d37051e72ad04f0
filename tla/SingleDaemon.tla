---------------------------- MODULE SingleDaemon ----------------------------
(***************************************************************************)
(* What the init script promises whoever calls it, with the pid file, ps   *)
(* and the order of its commands left out: a daemon is created by a start  *)
(* or restart and only when there is none, and a stop that succeeds leaves *)
(* none.  Callers that overlap void the promise until the next boot.       *)
(***************************************************************************)
CONSTANTS
    Callers,    \* who calls the script
    Pids        \* process ids

VARIABLES
    daemons,    \* the daemons that live, those shutting down included
    serving,    \* what each caller has asked for and not been answered yet
    answers,    \* the last answer to each caller
    disturbed   \* calls have overlapped since the boot

vars == <<daemons, serving, answers, disturbed>>

Requests == {"start", "stop", "restart"}
Nothing == "nothing"

Init ==
    /\ daemons = {}
    /\ serving = [c \in Callers |-> Nothing]
    /\ answers = [c \in Callers |-> "ok"]
    /\ disturbed = FALSE

Invoke(c, request) ==
    /\ serving[c] = Nothing
    /\ serving' = [serving EXCEPT ![c] = request]
    /\ answers' = [answers EXCEPT ![c] = "running"]
    /\ disturbed' = (disturbed \/ \E d \in Callers : serving[d] # Nothing)
    /\ UNCHANGED daemons

Create(c, p) ==
    /\ serving[c] \in {"start", "restart"}
    /\ disturbed \/ daemons = {}
    /\ daemons' = daemons \cup {p}
    /\ UNCHANGED <<serving, answers, disturbed>>

\* By itself, or because it was told to.
Vanish(p) ==
    /\ daemons' = daemons \ {p}
    /\ UNCHANGED <<serving, answers, disturbed>>

Answer(c, answer) ==
    /\ serving[c] # Nothing
    /\ serving[c] = "stop" /\ answer = "ok" => disturbed \/ daemons = {}
    /\ serving' = [serving EXCEPT ![c] = Nothing]
    /\ answers' = [answers EXCEPT ![c] = answer]
    /\ UNCHANGED <<daemons, disturbed>>

Boot ==
    /\ daemons' = {}
    /\ serving' = [c \in Callers |-> Nothing]
    /\ answers' = [c \in Callers |-> "ok"]
    /\ disturbed' = FALSE

Next ==
    \/ \E c \in Callers, request \in Requests : Invoke(c, request)
    \/ \E c \in Callers, p \in Pids : Create(c, p)
    \/ \E p \in Pids : Vanish(p)
    \/ \E c \in Callers, answer \in {"ok", "failed"} : Answer(c, answer)
    \/ Boot

Spec == Init /\ [][Next]_vars
=============================================================================
