------------------------------- MODULE EsNodes ------------------------------
(***************************************************************************)
(* esnodes.py, the external fact with the Elasticsearch nodes of a host's  *)
(* cluster: the containers of the host are asked one after the other, with *)
(* a timeout, and the first that answers speaks for the cluster.           *)
(***************************************************************************)
EXTENDS Naturals

CONSTANT Nodes      \* the nodes a cluster may have, by the kind in their name

ASSUME NodesAssumption == Nodes \subseteq [name : Nat, kind : {"dsesd", "dsesm", "other"}]

Containers == 1..3
NoFact == {[name |-> 0, kind |-> "none"]}

VARIABLES
    num,        \* the container asked next, 4 after the loop
    up,         \* containers that answer in time
    members,    \* the nodes of the cluster
    source,     \* the container whose response is kept, 0 without one
    response,   \* the nodes it has, NoFact without one
    fact,       \* what is printed, NoFact if nothing is
    always,     \* history: containers that were up all the time
    seen        \* history: the nodes that were members all the time

esvars == <<num, up, members, source, response, fact, always, seen>>

EsTypeOK ==
    /\ num \in 1..5
    /\ up \subseteq Containers /\ always \subseteq up
    /\ members \subseteq Nodes /\ seen \subseteq members
    /\ source \in 0..3 /\ (source = 0 <=> response = NoFact)
    /\ response = NoFact \/ response \subseteq Nodes
    /\ fact = NoFact \/ fact \subseteq {n \in Nodes : n.kind # "other"}

EsInit ==
    /\ num = 1
    /\ up \in SUBSET Containers
    /\ members \in SUBSET Nodes
    /\ source = 0 /\ response = NoFact /\ fact = NoFact
    /\ always = up
    /\ seen = members

\* (variant with a mistake: every container is asked, and an error of a later
\* one forgets the answer)
AskAll ==
    /\ num \in Containers
    /\ source' = IF num \in up THEN num ELSE 0
    /\ response' = IF num \in up THEN members ELSE NoFact
    /\ num' = num + 1
    /\ UNCHANGED <<up, members, fact, always, seen>>

\* Any exception of urlopen counts as no answer.
Ask ==
    /\ num \in Containers
    /\ IF source = 0 /\ num \in up
       THEN source' = num /\ response' = members
       ELSE UNCHANGED <<source, response>>
    /\ num' = num + 1
    /\ UNCHANGED <<up, members, fact, always, seen>>

\* Nodes are sorted by the kind their name contains; others are left out.  The
\* body is read only now, outside of the try: when the container has gone by
\* then the script may end in an exception, and no other one is asked.
PrintFact ==
    /\ num = 4
    /\ \/ fact' = IF source = 0 THEN NoFact ELSE {n \in response : n.kind # "other"}
       \/ source # 0 /\ source \notin up /\ fact' = NoFact
    /\ num' = 5
    /\ UNCHANGED <<up, members, source, response, always, seen>>

ContainersMove ==
    /\ num # 5
    /\ \/ up' \in SUBSET Containers /\ UNCHANGED members
       \/ members' \in SUBSET Nodes /\ UNCHANGED up
    /\ always' = always \cap up'
    /\ seen' = seen \cap members'
    /\ UNCHANGED <<num, source, response, fact>>

EsNext == Ask \/ PrintFact \/ ContainersMove

EsSpec == EsInit /\ [][EsNext]_esvars

-----------------------------------------------------------------------------
\* As long as one container of the host answers all along there is a fact, and
\* it has every node that was in the cluster all along: containers that start,
\* stop or hang meanwhile do not make the host forget its cluster -- but for
\* one that goes after it has answered, and before its answer is read.
FactIsPrinted ==
    (num = 5 /\ always # {}) =>
        \/ fact # NoFact /\ {n \in seen : n.kind # "other"} \subseteq fact
        \/ source \in Containers \ always
=============================================================================
