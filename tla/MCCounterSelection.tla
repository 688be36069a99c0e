-------------------------- MODULE MCCounterSelection --------------------------
(***************************************************************************)
(* CounterSelection with two backends, one with two counters and one with  *)
(* one, a counter of the runtime and an unknown id.                        *)
(***************************************************************************)
EXTENDS CounterSelection
CONSTANTS a1, a2, b1, A, B
MCBackendOf == [c \in {a1, a2, b1} |-> IF c = b1 THEN B ELSE A]
===============================================================================
