-------------------------- MODULE MCProfilingService --------------------------
(***************************************************************************)
(* ProfilingService with two selections and a few connections: a selection *)
(* replaces another and a later session finds what an earlier one left.    *)
(***************************************************************************)
EXTENDS ProfilingService
===============================================================================
