----------------------------- MODULE MCThreadpool -----------------------------
(***************************************************************************)
(* Threadpool with two threads and an expire rate of one: two requests of  *)
(* a class already exceed the rate, and the callbacks are used again and   *)
(* again, so that a priority class can flood the others.                   *)
(***************************************************************************)
EXTENDS Threadpool
===============================================================================
