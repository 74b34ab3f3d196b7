------------------------------ MODULE MCRicIApp ------------------------------
(* Instances of RicIApp for TLC: two xApps with the first ids the iApp hands out *)
EXTENDS RicIApp, TLC

XIdFirst == CHOOSE f \in [XApps -> 7..8] : \A x, y \in XApps : f[x] = f[y] => x = y

\* each xApp uses a RAN function of its own, or both use the same one
RanFuncOwn    == [x \in XApps |-> x]
RanFuncShared == [x \in XApps |-> 142]

\* Ids are compared only between xApps that use the same RAN function: with RanFuncOwn
\* nothing tells one xApp from the other.
XAppSymmetry == Permutations(XApps)
==============================================================================
