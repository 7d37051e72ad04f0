-------------------------- MODULE MCAzkabanDeploy --------------------------
(* One project with one flow on the Azkaban node. *)
EXTENDS AzkabanDeploy, FiniteSets, TLC

CONSTANTS v1, v2, MaxCatalogs

MCVersions == {v1, v2}
MCSymmetry == Permutations(MCVersions)
MCServices == {}
\* A flow whose files are zipped, one whose files lie in its own package and
\* outside, and one with a schedule; two with files alone, one on each side.
MCFiles == {config({"conf"}), config({"appconf"})}
MCScheduled == {config({"schedulefile"})}
MCFlows == {config({"conf"}), config({"confpackage", "appconf"})} \cup MCScheduled

\* Bounds: the hieradata differs in at most one resource from a release, and
\* at most MaxCatalogs different projects are compiled.
OneBump == \E v \in Versions : Cardinality({c \in Content : desired[c] # v}) <= 1
FewCatalogs == Cardinality(compiled) <= MaxCatalogs
=============================================================================
