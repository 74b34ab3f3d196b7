------------------------------ MODULE MCRicNodes ------------------------------
(* Instances of RicNodes for TLC *)
EXTENDS RicNodes

\* Nodes and xApps are told apart by what they did alone.
NodeXAppSymmetry == Permutations(Nodes) \cup Permutations(XApps)
===============================================================================
