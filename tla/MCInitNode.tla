----------------------------- MODULE MCInitNode -----------------------------
(* Instances of InitNode for TLC.                                           *)
EXTENDS InitNode
=============================================================================
