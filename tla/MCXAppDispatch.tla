--------------------------- MODULE MCXAppDispatch ---------------------------
(* Instances of XAppDispatch for TLC *)
EXTENDS XAppDispatch
=============================================================================
