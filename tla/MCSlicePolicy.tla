---------------------------- MODULE MCSlicePolicy ----------------------------
\* Bounds for SlicePolicy: three UEs, the first of which has index 0.
EXTENDS SlicePolicy
=============================================================================
