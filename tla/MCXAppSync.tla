----------------------------- MODULE MCXAppSync -----------------------------
(* Small instances of XAppSync for TLC. *)
EXTENDS XAppSync
=============================================================================
