------------------------------ MODULE MCE2Agent ------------------------------
(* Instances of E2Agent for TLC: RAN function "kpm" is periodic, "rc" aperiodic *)
EXTENDS E2Agent

FourDigits == [i \in 1..MaxId |-> 4]
==============================================================================
