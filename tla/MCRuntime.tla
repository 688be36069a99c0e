------------------------------ MODULE MCRuntime ------------------------------
(* Three threads and two networks for Runtime.                             *)
EXTENDS Runtime
=============================================================================
