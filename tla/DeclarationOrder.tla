------------------------- MODULE DeclarationOrder -------------------------
(***************************************************************************)
(* The order in which the agent evaluates the resources of a class: the    *)
(* catalog lists them as the manifest declares them, each once, and that   *)
(* order decides between resources that no edge relates.                   *)
(***************************************************************************)
EXTENDS Naturals, Sequences

Listed(evaluation) == {evaluation[i] : i \in DOMAIN evaluation}

\* Every resource before each one declared after it.
ManifestOrder(evaluation) ==
    {<<evaluation[p[1]], evaluation[p[2]]>> :
        p \in {q \in (1..Len(evaluation)) \X (1..Len(evaluation)) : q[1] < q[2]}}
=============================================================================
