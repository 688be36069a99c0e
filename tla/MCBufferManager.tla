--------------------------- MODULE MCBufferManager ---------------------------
(***************************************************************************)
(* BufferManager on a small instance: three writers, one of them a client  *)
(* that a Reset does not join, and a pool of one buffer (three with the    *)
(* surge buffers).                                                         *)
(***************************************************************************)
EXTENDS BufferManager, TLC
==============================================================================
